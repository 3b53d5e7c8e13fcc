--------------------------- MODULE AmiProxyProofs ---------------------------
(***************************************************************************)
(* Proofs about the AMC's end of the command queue.                        *)
(***************************************************************************)
EXTENDS AmiProxyProps, FiniteSetTheorems, SequenceTheorems, TLAPS

-----------------------------------------------------------------------------
(* Sequences.                                                              *)

\* What a task finds in a queue after it put an element in it.
LEMMA Appended ==
  ASSUME NEW S, NEW q \in Seq(S), NEW e \in S
  PROVE  /\ Append(q, e) \in Seq(S) /\ Len(q) \in Nat
         /\ Len(Append(q, e)) = Len(q) + 1
         /\ \A i \in 1 .. Len(q) : Append(q, e)[i] = q[i]
         /\ Append(q, e)[Len(q) + 1] = e
  BY AppendProperties

\* What is left of a queue when its head is taken.
LEMMA Taken ==
  ASSUME NEW S, NEW q \in Seq(S), q # <<>>
  PROVE  /\ Tail(q) \in Seq(S) /\ Head(q) \in S
         /\ Head(q) = q[1] /\ Len(q) \in Nat \ {0}
         /\ Len(Tail(q)) = Len(q) - 1
         /\ \A i \in 1 .. Len(q) - 1 : Tail(q)[i] = q[i + 1]
  BY EmptySeq

LEMMA ElemsAppended ==
  ASSUME NEW S, NEW q \in Seq(S), NEW e \in S
  PROVE  Elems(Append(q, e)) = Elems(q) \cup {e}
<1>1. ASSUME NEW x \in Elems(Append(q, e)) PROVE x \in Elems(q) \cup {e}
  <2>1. PICK i \in 1 .. Len(q) + 1 : x = Append(q, e)[i]
    BY DEF Elems
  <2>2. CASE i = Len(q) + 1
    BY <2>1, <2>2
  <2>3. CASE i # Len(q) + 1
    <3>1. i \in 1 .. Len(q)
      BY <2>3
    <3>. QED BY DEF Elems
  <2>. QED BY <2>2, <2>3
<1>2. ASSUME NEW x \in Elems(q) \cup {e} PROVE x \in Elems(Append(q, e))
  <2>1. CASE x \in Elems(q)
    <3>1. PICK i \in 1 .. Len(q) : x = q[i]
      BY <2>1 DEF Elems
    <3>2. i \in 1 .. Len(Append(q, e)) /\ x = Append(q, e)[i]
      BY <3>1
    <3>. QED BY <3>2 DEF Elems
  <2>2. CASE x = e
    <3>1. Len(q) + 1 \in 1 .. Len(Append(q, e)) /\ x = Append(q, e)[Len(q) + 1]
      BY <2>2
    <3>. QED BY DEF Elems
  <2>. QED BY <2>1, <2>2
<1>. QED BY <1>1, <1>2

LEMMA ElemsTaken ==
  ASSUME NEW S, NEW q \in Seq(S), q # <<>>, Distinct(q)
  PROVE  /\ Elems(Tail(q)) = Elems(q) \ {Head(q)}
         /\ Head(q) \in Elems(q)
<1>1. Head(q) \in Elems(q)
  <2>1. 1 \in 1 .. Len(q) /\ Head(q) = q[1]
    BY Taken
  <2>. QED BY DEF Elems
<1>2. ASSUME NEW x \in Elems(Tail(q)) PROVE x \in Elems(q) \ {Head(q)}
  <2>1. PICK i \in 1 .. Len(q) - 1 : x = q[i + 1]
    BY DEF Elems
  <2>2. PICK k : k = i + 1
    OBVIOUS
  <2>3. k \in 1 .. Len(q) /\ 1 \in 1 .. Len(q) /\ k # 1 /\ Head(q) = q[1]
    BY <2>2
  <2>4. x = q[k]
    BY <2>1, <2>2
  <2>5. x # Head(q)
    BY <2>3, <2>4 DEF Distinct
  <2>. QED BY <2>5 DEF Elems
<1>3. ASSUME NEW x \in Elems(q) \ {Head(q)} PROVE x \in Elems(Tail(q))
  <2>1. PICK i \in 1 .. Len(q) : x = q[i]
    BY DEF Elems
  <2>2. i # 1
    BY <2>1
  <2>3. PICK k : k = i - 1
    OBVIOUS
  <2>4. k \in 1 .. Len(q) - 1 /\ k + 1 = i
    BY <2>2, <2>3
  <2>5. x = Tail(q)[k] /\ k \in 1 .. Len(Tail(q))
    BY <2>1, <2>4
  <2>. QED BY DEF Elems
<1>. QED BY <1>1, <1>2, <1>3

\* Taking the head keeps the elements distinct.
LEMMA TailDistinct ==
  ASSUME NEW S, NEW q \in Seq(S), q # <<>>, Distinct(q)
  PROVE  Distinct(Tail(q))
<1> SUFFICES ASSUME NEW i \in 1 .. Len(Tail(q)), NEW j \in 1 .. Len(Tail(q)),
                    Tail(q)[i] = Tail(q)[j]
             PROVE  i = j
  BY DEF Distinct
<1>1. PICK k, l : k = i + 1 /\ l = j + 1
  OBVIOUS
<1>2. k \in 1 .. Len(q) /\ l \in 1 .. Len(q)
  BY <1>1
<1>3. Tail(q)[i] = q[k] /\ Tail(q)[j] = q[l]
  BY <1>1
<1>4. k = l
  BY <1>2, <1>3 DEF Distinct
<1>. QED BY <1>1, <1>4

\* An element that is new to a queue of distinct elements leaves it distinct.
LEMMA AppendDistinct ==
  ASSUME NEW S, NEW q \in Seq(S), NEW e \in S, e \notin Elems(q), Distinct(q)
  PROVE  Distinct(Append(q, e))
<1>1. \A i \in 1 .. Len(q) : q[i] # e
  BY DEF Elems
<1>. QED BY <1>1 DEF Distinct

-----------------------------------------------------------------------------
(* Mailboxes.                                                              *)

Mail == Works \cup {HotReset}

LEMMA WorkIsMail == \A w \in Works : w \in Mail /\ w # HotReset /\ w.slot \in Slots
  BY HotResetAssumption DEF Mail, Works

\* A work posted to a mailbox is one that the mailbox did not carry.
LEMMA Posted ==
  ASSUME NEW h, NEW q \in Seq(Mail), NEW w \in Works,
         OncePerSlot(q), ~Carries(q, w.slot), OwnWorks(q, h), w.of = h[w.slot]
  PROVE  /\ \A s : Carries(Append(q, w), s) <=> Carries(q, s) \/ s = w.slot
         /\ OncePerSlot(Append(q, w)) /\ OwnWorks(Append(q, w), h)
<1>1. w \in Mail /\ w # HotReset
  BY WorkIsMail
<1>2. ASSUME NEW s PROVE Carries(Append(q, w), s) <=> Carries(q, s) \/ s = w.slot
  <2>1. ASSUME Carries(Append(q, w), s) PROVE Carries(q, s) \/ s = w.slot
    BY <2>1 DEF Carries
  <2>2. ASSUME Carries(q, s) PROVE Carries(Append(q, w), s)
    BY <2>2 DEF Carries
  <2>3. ASSUME s = w.slot PROVE Carries(Append(q, w), s)
    <3>1. Len(q) + 1 \in 1 .. Len(Append(q, w)) /\ Append(q, w)[Len(q) + 1] = w
      BY Appended
    <3>. QED BY <1>1, <2>3 DEF Carries
  <2>. QED BY <2>1, <2>2, <2>3
<1>3. OncePerSlot(Append(q, w))
  <2>1. \A i \in 1 .. Len(q) : q[i] # HotReset => q[i].slot # w.slot
    BY DEF Carries
  <2>. QED BY <2>1 DEF OncePerSlot
<1>4. OwnWorks(Append(q, w), h)
  BY DEF OwnWorks
<1>. QED BY <1>2, <1>3, <1>4

\* A request to enable the hot reset occupies no slot.
LEMMA PostedHotReset ==
  ASSUME NEW h, NEW q \in Seq(Mail), OncePerSlot(q), OwnWorks(q, h)
  PROVE  /\ \A s : Carries(Append(q, HotReset), s) <=> Carries(q, s)
         /\ OncePerSlot(Append(q, HotReset)) /\ OwnWorks(Append(q, HotReset), h)
<1>1. HotReset \in Mail
  BY DEF Mail
<1>2. ASSUME NEW s PROVE Carries(Append(q, HotReset), s) <=> Carries(q, s)
  BY DEF Carries
<1>3. OncePerSlot(Append(q, HotReset))
  BY DEF OncePerSlot
<1>4. OwnWorks(Append(q, HotReset), h)
  BY DEF OwnWorks
<1>. QED BY <1>2, <1>3, <1>4

\* What a mailbox carries once its head is taken.
LEMMA Pended ==
  ASSUME NEW h, NEW q \in Seq(Mail), q # <<>>, OncePerSlot(q), OwnWorks(q, h)
  PROVE  /\ OncePerSlot(Tail(q)) /\ OwnWorks(Tail(q), h)
         /\ Head(q) # HotReset =>
              /\ Head(q) \in Works /\ Carries(q, Head(q).slot)
              /\ Head(q).of = h[Head(q).slot]
              /\ \A s : Carries(Tail(q), s) <=> Carries(q, s) /\ s # Head(q).slot
         /\ Head(q) = HotReset => \A s : Carries(Tail(q), s) <=> Carries(q, s)
<1>1. /\ Head(q) \in Mail /\ Head(q) = q[1] /\ Len(q) \in Nat \ {0}
      /\ Len(Tail(q)) = Len(q) - 1
      /\ \A i \in 1 .. Len(q) - 1 : Tail(q)[i] = q[i + 1]
  BY Taken
<1>2. 1 \in 1 .. Len(q)
  BY <1>1
<1>3. ASSUME NEW i \in 1 .. Len(Tail(q))
      PROVE  \E k \in 1 .. Len(q) : k = i + 1 /\ k # 1 /\ Tail(q)[i] = q[k]
  BY <1>1
<1>4. ASSUME NEW k \in 1 .. Len(q), k # 1
      PROVE  \E i \in 1 .. Len(Tail(q)) : Tail(q)[i] = q[k]
  <2>1. PICK i : i = k - 1
    OBVIOUS
  <2>2. i \in 1 .. Len(q) - 1 /\ i + 1 = k
    BY <1>4, <2>1
  <2>. QED BY <2>2
<1>5. OncePerSlot(Tail(q))
  <2> SUFFICES ASSUME NEW i \in 1 .. Len(Tail(q)), NEW j \in 1 .. Len(Tail(q)),
                      Tail(q)[i] # HotReset, Tail(q)[j] # HotReset,
                      Tail(q)[i].slot = Tail(q)[j].slot
               PROVE  i = j
    BY DEF OncePerSlot
  <2>1. PICK k \in 1 .. Len(q) : k = i + 1 /\ Tail(q)[i] = q[k]
    BY <1>3
  <2>2. PICK l \in 1 .. Len(q) : l = j + 1 /\ Tail(q)[j] = q[l]
    BY <1>3
  <2>3. k = l
    BY <2>1, <2>2 DEF OncePerSlot
  <2>. QED BY <2>1, <2>2, <2>3
<1>6. OwnWorks(Tail(q), h)
  <2> SUFFICES ASSUME NEW i \in 1 .. Len(Tail(q)), Tail(q)[i] # HotReset
               PROVE  Tail(q)[i].of = h[Tail(q)[i].slot]
    BY DEF OwnWorks
  <2>1. PICK k \in 1 .. Len(q) : Tail(q)[i] = q[k]
    BY <1>3
  <2>. QED BY DEF OwnWorks
<1>7. ASSUME Head(q) # HotReset
      PROVE  /\ Head(q) \in Works /\ Carries(q, Head(q).slot)
             /\ Head(q).of = h[Head(q).slot]
  BY <1>7 DEF Carries, OwnWorks, Mail
<1>8. ASSUME NEW s, Carries(Tail(q), s)
      PROVE  Carries(q, s) /\ (Head(q) # HotReset => s # Head(q).slot)
  <2>1. PICK i \in 1 .. Len(Tail(q)) : Tail(q)[i] # HotReset /\ Tail(q)[i].slot = s
    BY <1>8 DEF Carries
  <2>2. PICK k \in 1 .. Len(q) : k # 1 /\ Tail(q)[i] = q[k]
    BY <1>3
  <2>. QED BY <2>1 DEF Carries, OncePerSlot
<1>9. ASSUME NEW s, Carries(q, s), Head(q) # HotReset => s # Head(q).slot
      PROVE  Carries(Tail(q), s)
  <2>1. PICK k \in 1 .. Len(q) : q[k] # HotReset /\ q[k].slot = s
    BY <1>9 DEF Carries
  <2>2. k # 1
    BY <1>9, <2>1
  <2>3. PICK i \in 1 .. Len(Tail(q)) : Tail(q)[i] = q[k]
    BY <1>4, <2>2
  <2>. QED BY <2>1, <2>3 DEF Carries
<1>. QED BY <1>5, <1>6, <1>7, <1>8, <1>9

\* A request put in a slot that the mailbox does not carry changes no work in it.
LEMMA KeptWorks ==
  \A q \in Seq(Mail), s \in Slots, r \in Requests :
    /\ held \in [Slots -> Requests \cup {NoRequest}]
    /\ ~Carries(q, s) /\ OwnWorks(q, held)
    => OwnWorks(q, [held EXCEPT ![s] = r])
<1> SUFFICES ASSUME NEW q \in Seq(Mail), NEW s \in Slots, NEW r \in Requests,
                    held \in [Slots -> Requests \cup {NoRequest}],
                    ~Carries(q, s), OwnWorks(q, held),
                    NEW i \in 1 .. Len(q), q[i] # HotReset
             PROVE  q[i].of = [held EXCEPT ![s] = r][q[i].slot]
  BY DEF OwnWorks
<1>1. q[i] \in Mail
  OBVIOUS
<1>2. q[i].slot \in Slots /\ q[i].slot # s /\ q[i].of = held[q[i].slot]
  BY WorkIsMail DEF Carries, OwnWorks, Mail
<1>. QED BY <1>2

\* The mailbox of the AMI task has room for whoever has a slot to answer: it
\* carries a slot at most once, and not the one that is posted.
LEMMA RoomForAll ==
  ASSUME NEW q \in Seq(Works), OncePerSlot(q), NEW s \in Slots, ~Carries(q, s)
  PROVE  Len(q) < MboxSize
<1>1. NumSlots \in Nat \ {0} /\ MboxSize \in Nat /\ MboxSize >= NumSlots
      /\ Len(q) \in Nat
  BY ProxyAssumption
<1> DEFINE T == Slots \ {s}
           f == [i \in 1 .. Len(q) |-> q[i].slot]
<1>2. IsFiniteSet(Slots) /\ Cardinality(Slots) = NumSlots
  <2>1. PICK b : b = NumSlots - 1
    OBVIOUS
  <2>2. 0 \in Int /\ b \in Int /\ ~(0 > b) /\ b - 0 + 1 = NumSlots
    BY <1>1, <2>1
  <2>. QED BY <2>2, FS_Interval DEF Slots
<1>3. IsFiniteSet(T) /\ Cardinality(T) = NumSlots - 1
  BY <1>2, FS_RemoveElement
<1>4. IsFiniteSet(1 .. Len(q)) /\ Cardinality(1 .. Len(q)) = Len(q)
  BY <1>1, FS_Interval
<1>5. \A i \in 1 .. Len(q) : q[i] \in Works /\ q[i] # HotReset
  BY WorkIsMail
<1>6. f \in [1 .. Len(q) -> T]
  BY <1>5 DEF Carries, Works
<1>7. SUFFICES ASSUME Len(q) >= NumSlots PROVE FALSE
  BY <1>1
<1>8. PICK i, j \in 1 .. Len(q) : i # j /\ f[i] = f[j]
  <2>1. Cardinality(T) < Cardinality(1 .. Len(q))
    BY <1>1, <1>3, <1>4, <1>7
  <2> HIDE DEF f, T
  <2>. QED BY <1>3, <1>4, <1>6, <2>1, FS_PigeonHole
<1>. QED BY <1>5, <1>8 DEF OncePerSlot
-----------------------------------------------------------------------------
(* What the invariant says of the tasks at work.                           *)

Inv == TypeOK /\ ProxyInv

\* The works in the mailbox of the AMI task are mail too.
LEMMA MboxIsMail == MboxTypeOK => mbox \in Seq(Mail) /\ apcMbox \in Seq(Mail)
<1>1. ASSUME NEW q \in Seq(Works) PROVE q \in Seq(Mail)
  <2>1. /\ Len(q) \in Nat
        /\ q = [i \in 1 .. Len(q) |-> q[i]]
        /\ \A i \in 1 .. Len(q) : q[i] \in Mail
    BY WorkIsMail
  <2>. QED BY <2>1
<1>. QED BY DEF MboxTypeOK, Mail

\* The AMI task raises the event of a request that is nowhere else.
LEMMA EventWork ==
  ASSUME Inv, amiPc = "event"
  PROVE  /\ amiSlot \in inUse /\ held[amiSlot] \in Requests
         /\ Work(amiSlot) \in Works /\ Work(amiSlot).slot = amiSlot
         /\ Work(amiSlot).of = held[amiSlot]
         /\ ~Carries(mbox, amiSlot) /\ ~Carries(apcMbox, amiSlot)
         /\ ~InApcTask(amiSlot) /\ amiSlot \notin lost
<1>1. amiSlot \in Slots /\ InAmiTask(amiSlot)
  BY DEF Inv, TypeOK, AmiTypeOK, InAmiTask
<1>2. amiSlot \in inUse /\ held[amiSlot] \in Requests
  BY <1>1 DEF Inv, ProxyInv, SlotsAccounted, WorkInv
<1>. QED BY <1>1, <1>2 DEF Inv, ProxyInv, SlotsAccounted, Work, Works

\* The APC task has a job that is nowhere else.
LEMMA JobWork ==
  ASSUME Inv, apcPc = "job"
  PROVE  /\ apcMsg \in Works /\ apcMsg.slot \in inUse
         /\ apcMsg.of = held[apcMsg.slot]
         /\ ~Carries(mbox, apcMsg.slot) /\ ~Carries(apcMbox, apcMsg.slot)
         /\ ~InAmiTask(apcMsg.slot) /\ apcMsg.slot \notin lost
<1>1. apcMsg \in Works /\ apcMsg.slot \in Slots /\ InApcTask(apcMsg.slot)
  BY WorkIsMail DEF Inv, TypeOK, ApcTypeOK, InApcTask
<1>. QED BY <1>1 DEF Inv, ProxyInv, SlotsAccounted, WorkInv

\* The AMI task writes a response that is nowhere else.
LEMMA ResponseWork ==
  ASSUME Inv, amiPc \in {"write", "free"}
  PROVE  /\ amiMsg \in Works /\ amiMsg.slot \in inUse
         /\ held[amiMsg.slot] \in Requests
         /\ ~Carries(mbox, amiMsg.slot) /\ ~Carries(apcMbox, amiMsg.slot)
         /\ ~InApcTask(amiMsg.slot) /\ amiMsg.slot \notin lost
<1>1. amiMsg \in Works /\ amiMsg.slot \in Slots /\ InAmiTask(amiMsg.slot)
  BY WorkIsMail DEF Inv, TypeOK, AmiTypeOK, InAmiTask
<1>. QED BY <1>1 DEF Inv, ProxyInv, SlotsAccounted, WorkInv

\* A post never finds the mailbox full.
LEMMA PostFits ==
  ASSUME Inv, NEW w \in Works, w.of = held[w.slot], ~Carries(mbox, w.slot), Post(w)
  PROVE  /\ mbox' \in Seq(Works)
         /\ \A s : Carries(mbox', s) <=> Carries(mbox, s) \/ s = w.slot
         /\ OncePerSlot(mbox') /\ OwnWorks(mbox', held)
<1>1. mbox \in Seq(Works) /\ mbox \in Seq(Mail)
      /\ OncePerSlot(mbox) /\ OwnWorks(mbox, held) /\ w.slot \in Slots
  BY WorkIsMail DEF Inv, TypeOK, MboxTypeOK, ProxyInv, SlotsAccounted, WorkInv
<1>2. mbox' = Append(mbox, w)
  BY <1>1, RoomForAll DEF Post
<1>. QED BY <1>1, <1>2, Posted

\* A job for the APC.
LEMMA JobPosted ==
  ASSUME Inv, amiPc = "event", apcMbox' = Append(apcMbox, Work(amiSlot))
  PROVE  /\ apcMbox' \in Seq(Mail)
         /\ \A s : Carries(apcMbox', s) <=> Carries(apcMbox, s) \/ s = amiSlot
         /\ OncePerSlot(apcMbox') /\ OwnWorks(apcMbox', held)
<1>1. apcMbox \in Seq(Mail) /\ OncePerSlot(apcMbox) /\ OwnWorks(apcMbox, held)
  BY MboxIsMail DEF Inv, TypeOK, ProxyInv, SlotsAccounted, WorkInv
<1>2. Work(amiSlot) \in Mail
  BY EventWork, WorkIsMail
<1>. QED BY <1>1, <1>2, EventWork, Posted

\* A hot reset for the APC.
LEMMA HotResetPosted ==
  ASSUME Inv, apcMbox' = Append(apcMbox, HotReset) \/ UNCHANGED apcMbox
  PROVE  /\ apcMbox' \in Seq(Mail)
         /\ \A s : Carries(apcMbox', s) <=> Carries(apcMbox, s)
         /\ OncePerSlot(apcMbox') /\ OwnWorks(apcMbox', held)
<1>1. apcMbox \in Seq(Mail) /\ OncePerSlot(apcMbox) /\ OwnWorks(apcMbox, held)
  BY MboxIsMail DEF Inv, TypeOK, ProxyInv, SlotsAccounted, WorkInv
<1>2. HotReset \in Mail
  BY DEF Mail
<1>. QED BY <1>1, <1>2, PostedHotReset, AppendProperties, ZenonT(60)

\* A response is taken from the mailbox of the AMI task.
LEMMA ResponsePended ==
  ASSUME Inv, mbox # <<>>, mbox' = Tail(mbox)
  PROVE  /\ mbox' \in Seq(Works) /\ Head(mbox) \in Works
         /\ Carries(mbox, Head(mbox).slot)
         /\ Head(mbox).of = held[Head(mbox).slot]
         /\ \A s : Carries(mbox', s) <=> Carries(mbox, s) /\ s # Head(mbox).slot
         /\ OncePerSlot(mbox') /\ OwnWorks(mbox', held)
<1>1. mbox \in Seq(Works) /\ mbox \in Seq(Mail)
      /\ OncePerSlot(mbox) /\ OwnWorks(mbox, held)
  BY MboxIsMail DEF Inv, TypeOK, MboxTypeOK, ProxyInv, SlotsAccounted, WorkInv
<1>2. Head(mbox) \in Works /\ Head(mbox) # HotReset /\ Tail(mbox) \in Seq(Works)
  BY <1>1, WorkIsMail
<1>. QED BY <1>1, <1>2, Pended

\* Mail is taken from the mailbox of the APC task.
LEMMA MailPended ==
  ASSUME Inv, apcMbox # <<>>, apcMbox' = Tail(apcMbox)
  PROVE  /\ apcMbox' \in Seq(Mail)
         /\ OncePerSlot(apcMbox') /\ OwnWorks(apcMbox', held)
         /\ Head(apcMbox) # HotReset =>
              /\ Head(apcMbox) \in Works /\ Carries(apcMbox, Head(apcMbox).slot)
              /\ Head(apcMbox).of = held[Head(apcMbox).slot]
              /\ \A s : Carries(apcMbox', s) <=>
                          Carries(apcMbox, s) /\ s # Head(apcMbox).slot
         /\ Head(apcMbox) = HotReset =>
              \A s : Carries(apcMbox', s) <=> Carries(apcMbox, s)
<1>1. apcMbox \in Seq(Mail) /\ OncePerSlot(apcMbox) /\ OwnWorks(apcMbox, held)
  BY MboxIsMail DEF Inv, TypeOK, ProxyInv, SlotsAccounted, WorkInv
<1>2. Tail(apcMbox) \in Seq(Mail)
  BY <1>1
<1>. QED BY <1>1, <1>2, Pended

-----------------------------------------------------------------------------
(* The inductive invariant.                                                *)

LEMMA InitInv == Init => Inv
<1> SUFFICES ASSUME Init PROVE Inv
  OBVIOUS
<1> USE DEF Init
<1>1. \A s : ~Carries(mbox, s) /\ ~Carries(apcMbox, s)
  BY DEF Carries
<1>2. OncePerSlot(mbox) /\ OncePerSlot(apcMbox)
  BY DEF OncePerSlot
<1>3. OwnWorks(mbox, held) /\ OwnWorks(apcMbox, held)
  BY DEF OwnWorks
<1>4. Elems(sq) = {} /\ Elems(cq) = {} /\ Cids = {} /\ Active = {} /\ Busy = {}
  BY DEF Elems, Cids, Active, Busy
<1>5. HostTypeOK /\ SlotTypeOK /\ ApcTypeOK /\ MboxTypeOK
  BY DEF HostTypeOK, SlotTypeOK, ApcTypeOK, MboxTypeOK
<1>6. AmiTypeOK
  <2>1. 0 \in Slots
    BY ProxyAssumption DEF Slots
  <2>. QED BY <2>1
<1>7. SlotsAccounted
  BY <1>1, <1>2 DEF SlotsAccounted, InAmiTask, InApcTask
<1>8. WorkInv /\ AnswersMatch
  BY <1>3, <1>4 DEF WorkInv, AnswersMatch
<1>9. RequestInv
  BY <1>4 DEF RequestInv, Distinct
<1>. QED BY <1>5, <1>6, <1>7, <1>8, <1>9 DEF Inv, TypeOK, ProxyInv

\* The host's side keeps its types.
LEMMA HostTypes == Inv /\ [Next]_vars => HostTypeOK'
<1> SUFFICES ASSUME Inv, [Next]_vars PROVE HostTypeOK'
  OBVIOUS
<1> USE DEF HostTypeOK, hostVars, rxVars, amiVars, apcVars, history
<1>a1. ASSUME ReadRequest PROVE HostTypeOK'
  <2>1. Tail(sq) \in Seq(Requests) /\ Head(sq) \in Requests
    BY <1>a1 DEF Inv, TypeOK, ReadRequest
  <2>. QED BY <1>a1 DEF Inv, TypeOK, ReadRequest
<1>a2. ASSUME ReadNothing PROVE HostTypeOK'
  BY <1>a2 DEF Inv, TypeOK, ReadNothing
<1>a3. ASSUME RaiseQuick PROVE HostTypeOK'
  BY <1>a3 DEF Inv, TypeOK, RaiseQuick
<1>a4. ASSUME RaiseIdentity PROVE HostTypeOK'
  BY <1>a4 DEF Inv, TypeOK, RaiseIdentity
<1>a5. ASSUME RaiseApc PROVE HostTypeOK'
  BY <1>a5 DEF Inv, TypeOK, RaiseApc
<1>a6. ASSUME PendResponse PROVE HostTypeOK'
  BY <1>a6 DEF Inv, TypeOK, PendResponse
<1>a7. ASSUME PendNothing PROVE HostTypeOK'
  BY <1>a7 DEF Inv, TypeOK, PendNothing
<1>a8. ASSUME WriteResponse PROVE HostTypeOK'
  <2>1. amiMsg.of \in Requests /\ held[amiMsg.slot] \in Requests
    BY <1>a8, ResponseWork DEF WriteResponse, Works
  <2>2. [cid |-> held[amiMsg.slot], of |-> amiMsg.of]
          \in [cid : Requests, of : Requests]
    BY <2>1
  <2> DEFINE R == [cid : Requests, of : Requests]
  <2>3. cq \in Seq(R)
    BY DEF Inv, TypeOK
  <2>4. PICK e : e = [cid |-> held[amiMsg.slot], of |-> amiMsg.of]
    OBVIOUS
  <2>5. Append(cq, e) \in Seq(R)
    <3>1. e \in R
      BY <2>2, <2>4
    <3> HIDE DEF R
    <3>. QED BY <2>3, <3>1
  <2>6. cq' \in Seq(R)
    BY <1>a8, <2>3, <2>4, <2>5 DEF WriteResponse
  <2>. QED BY <1>a8, <2>6 DEF Inv, TypeOK, WriteResponse
<1>a9. ASSUME FreeSlot PROVE HostTypeOK'
  BY <1>a9 DEF Inv, TypeOK, FreeSlot
<1>a10. ASSUME ApcPend PROVE HostTypeOK'
  BY <1>a10 DEF Inv, TypeOK, ApcPend
<1>a11. ASSUME ApcDone PROVE HostTypeOK'
  BY <1>a11 DEF Inv, TypeOK, ApcDone
<1>a12. ASSUME Deliver PROVE HostTypeOK'
  BY <1>a12 DEF Inv, TypeOK, Deliver
<1>a13. ASSUME NEW r \in Requests, Send(r) PROVE HostTypeOK'
  BY <1>a13 DEF Inv, TypeOK, Send
<1>b. ASSUME UNCHANGED vars PROVE HostTypeOK'
  BY <1>b DEF Inv, TypeOK, vars
<1>. QED BY <1>a1, <1>a2, <1>a3, <1>a4, <1>a5, <1>a6, <1>a7, <1>a8, <1>a9, <1>a10,
           <1>a11, <1>a12, <1>a13, <1>b DEF Next, AmiTask, ApcTask

\* The slots keep their types.
LEMMA SlotTypes == Inv /\ [Next]_vars => SlotTypeOK'
<1> SUFFICES ASSUME Inv, [Next]_vars PROVE SlotTypeOK'
  OBVIOUS
<1> USE DEF SlotTypeOK, hostVars, rxVars, amiVars, apcVars, history
<1>a1. ASSUME ReadRequest PROVE SlotTypeOK'
  <2>1. Head(sq) \in Requests
    BY <1>a1 DEF Inv, TypeOK, HostTypeOK, ReadRequest
  <2>. QED BY <1>a1, <2>1 DEF Inv, TypeOK, ReadRequest, FreeSlots
<1>a2. ASSUME ReadNothing PROVE SlotTypeOK'
  BY <1>a2 DEF Inv, TypeOK, ReadNothing
<1>a3. ASSUME RaiseQuick PROVE SlotTypeOK'
  BY <1>a3 DEF Inv, TypeOK, RaiseQuick
<1>a4. ASSUME RaiseIdentity PROVE SlotTypeOK'
  BY <1>a4 DEF Inv, TypeOK, RaiseIdentity
<1>a5. ASSUME RaiseApc PROVE SlotTypeOK'
  BY <1>a5 DEF Inv, TypeOK, RaiseApc
<1>a6. ASSUME PendResponse PROVE SlotTypeOK'
  BY <1>a6 DEF Inv, TypeOK, PendResponse
<1>a7. ASSUME PendNothing PROVE SlotTypeOK'
  BY <1>a7 DEF Inv, TypeOK, PendNothing
<1>a8. ASSUME WriteResponse PROVE SlotTypeOK'
  <2>1. amiMsg.slot \in Slots
    BY <1>a8, ResponseWork, WorkIsMail DEF WriteResponse
  <2>. QED BY <1>a8, <2>1 DEF Inv, TypeOK, WriteResponse
<1>a9. ASSUME FreeSlot PROVE SlotTypeOK'
  BY <1>a9 DEF Inv, TypeOK, FreeSlot
<1>a10. ASSUME ApcPend PROVE SlotTypeOK'
  BY <1>a10 DEF Inv, TypeOK, ApcPend
<1>a11. ASSUME ApcDone PROVE SlotTypeOK'
  BY <1>a11 DEF Inv, TypeOK, ApcDone
<1>a12. ASSUME Deliver PROVE SlotTypeOK'
  BY <1>a12 DEF Inv, TypeOK, Deliver
<1>a13. ASSUME NEW r \in Requests, Send(r) PROVE SlotTypeOK'
  BY <1>a13 DEF Inv, TypeOK, Send
<1>b. ASSUME UNCHANGED vars PROVE SlotTypeOK'
  BY <1>b DEF Inv, TypeOK, vars
<1>. QED BY <1>a1, <1>a2, <1>a3, <1>a4, <1>a5, <1>a6, <1>a7, <1>a8, <1>a9, <1>a10,
           <1>a11, <1>a12, <1>a13, <1>b DEF Next, AmiTask, ApcTask

\* The AMI task keeps its types.
LEMMA AmiTypes == Inv /\ [Next]_vars => AmiTypeOK'
<1> SUFFICES ASSUME Inv, [Next]_vars PROVE AmiTypeOK'
  OBVIOUS
<1> USE DEF AmiTypeOK, hostVars, rxVars, amiVars, apcVars, history
<1>a1. ASSUME ReadRequest PROVE AmiTypeOK'
  BY <1>a1 DEF Inv, TypeOK, ReadRequest, FreeSlots
<1>a2. ASSUME ReadNothing PROVE AmiTypeOK'
  BY <1>a2 DEF Inv, TypeOK, ReadNothing
<1>a3. ASSUME RaiseQuick PROVE AmiTypeOK'
  BY <1>a3 DEF Inv, TypeOK, RaiseQuick
<1>a4. ASSUME RaiseIdentity PROVE AmiTypeOK'
  BY <1>a4 DEF Inv, TypeOK, RaiseIdentity
<1>a5. ASSUME RaiseApc PROVE AmiTypeOK'
  BY <1>a5 DEF Inv, TypeOK, RaiseApc
<1>a6. ASSUME PendResponse PROVE AmiTypeOK'
  BY <1>a6, ResponsePended DEF Inv, TypeOK, PendResponse
<1>a7. ASSUME PendNothing PROVE AmiTypeOK'
  BY <1>a7 DEF Inv, TypeOK, PendNothing
<1>a8. ASSUME WriteResponse PROVE AmiTypeOK'
  BY <1>a8 DEF Inv, TypeOK, WriteResponse
<1>a9. ASSUME FreeSlot PROVE AmiTypeOK'
  BY <1>a9 DEF Inv, TypeOK, FreeSlot
<1>a10. ASSUME ApcPend PROVE AmiTypeOK'
  BY <1>a10 DEF Inv, TypeOK, ApcPend
<1>a11. ASSUME ApcDone PROVE AmiTypeOK'
  BY <1>a11 DEF Inv, TypeOK, ApcDone
<1>a12. ASSUME Deliver PROVE AmiTypeOK'
  BY <1>a12 DEF Inv, TypeOK, Deliver
<1>a13. ASSUME NEW r \in Requests, Send(r) PROVE AmiTypeOK'
  BY <1>a13 DEF Inv, TypeOK, Send
<1>b. ASSUME UNCHANGED vars PROVE AmiTypeOK'
  BY <1>b DEF Inv, TypeOK, vars
<1>. QED BY <1>a1, <1>a2, <1>a3, <1>a4, <1>a5, <1>a6, <1>a7, <1>a8, <1>a9, <1>a10,
           <1>a11, <1>a12, <1>a13, <1>b DEF Next, AmiTask, ApcTask

\* The APC task keeps its types.
LEMMA ApcTypes == Inv /\ [Next]_vars => ApcTypeOK'
<1> SUFFICES ASSUME Inv, [Next]_vars PROVE ApcTypeOK'
  OBVIOUS
<1> USE DEF ApcTypeOK, hostVars, rxVars, amiVars, apcVars, history
<1>a1. ASSUME ReadRequest PROVE ApcTypeOK'
  BY <1>a1 DEF Inv, TypeOK, ReadRequest
<1>a2. ASSUME ReadNothing PROVE ApcTypeOK'
  BY <1>a2 DEF Inv, TypeOK, ReadNothing
<1>a3. ASSUME RaiseQuick PROVE ApcTypeOK'
  BY <1>a3 DEF Inv, TypeOK, RaiseQuick
<1>a4. ASSUME RaiseIdentity PROVE ApcTypeOK'
  BY <1>a4 DEF Inv, TypeOK, RaiseIdentity
<1>a5. ASSUME RaiseApc PROVE ApcTypeOK'
  BY <1>a5 DEF Inv, TypeOK, RaiseApc
<1>a6. ASSUME PendResponse PROVE ApcTypeOK'
  BY <1>a6 DEF Inv, TypeOK, PendResponse
<1>a7. ASSUME PendNothing PROVE ApcTypeOK'
  BY <1>a7 DEF Inv, TypeOK, PendNothing
<1>a8. ASSUME WriteResponse PROVE ApcTypeOK'
  BY <1>a8 DEF Inv, TypeOK, WriteResponse
<1>a9. ASSUME FreeSlot PROVE ApcTypeOK'
  BY <1>a9 DEF Inv, TypeOK, FreeSlot
<1>a10. ASSUME ApcPend PROVE ApcTypeOK'
  BY <1>a10, MailPended DEF Inv, TypeOK, ApcPend
<1>a11. ASSUME ApcDone PROVE ApcTypeOK'
  BY <1>a11 DEF Inv, TypeOK, ApcDone
<1>a12. ASSUME Deliver PROVE ApcTypeOK'
  BY <1>a12 DEF Inv, TypeOK, Deliver
<1>a13. ASSUME NEW r \in Requests, Send(r) PROVE ApcTypeOK'
  BY <1>a13 DEF Inv, TypeOK, Send
<1>b. ASSUME UNCHANGED vars PROVE ApcTypeOK'
  BY <1>b DEF Inv, TypeOK, vars
<1>. QED BY <1>a1, <1>a2, <1>a3, <1>a4, <1>a5, <1>a6, <1>a7, <1>a8, <1>a9, <1>a10,
           <1>a11, <1>a12, <1>a13, <1>b DEF Next, AmiTask, ApcTask

\* The mailboxes keep their types.
LEMMA MboxTypes == Inv /\ [Next]_vars => MboxTypeOK'
<1> SUFFICES ASSUME Inv, [Next]_vars PROVE MboxTypeOK'
  OBVIOUS
<1> USE DEF MboxTypeOK, Mail, hostVars, rxVars, amiVars, apcVars, history
<1>a1. ASSUME ReadRequest PROVE MboxTypeOK'
  BY <1>a1 DEF Inv, TypeOK, ReadRequest
<1>a2. ASSUME ReadNothing PROVE MboxTypeOK'
  BY <1>a2 DEF Inv, TypeOK, ReadNothing
<1>a3. ASSUME RaiseQuick PROVE MboxTypeOK'
  BY <1>a3, EventWork, PostFits DEF Inv, TypeOK, RaiseQuick
<1>a4. ASSUME RaiseIdentity PROVE MboxTypeOK'
  <2>1. mbox' \in Seq(Works)
    BY <1>a4, EventWork, PostFits DEF RaiseIdentity
  <2>2. apcMbox' \in Seq(Mail)
    BY <1>a4, HotResetPosted DEF RaiseIdentity
  <2>. QED BY <2>1, <2>2
<1>a5. ASSUME RaiseApc PROVE MboxTypeOK'
  <2>1. CASE apcMbox' = Append(apcMbox, Work(amiSlot)) /\ UNCHANGED mbox
    BY <1>a5, <2>1, JobPosted DEF Inv, TypeOK, RaiseApc
  <2>2. CASE Post(Work(amiSlot)) /\ UNCHANGED apcMbox
    BY <1>a5, EventWork, PostFits, JobPosted DEF Inv, TypeOK, RaiseApc
  <2>. QED BY <1>a5, <2>1, <2>2 DEF RaiseApc
<1>a6. ASSUME PendResponse PROVE MboxTypeOK'
  BY <1>a6 DEF Inv, TypeOK, PendResponse
<1>a7. ASSUME PendNothing PROVE MboxTypeOK'
  BY <1>a7 DEF Inv, TypeOK, PendNothing
<1>a8. ASSUME WriteResponse PROVE MboxTypeOK'
  BY <1>a8 DEF Inv, TypeOK, WriteResponse
<1>a9. ASSUME FreeSlot PROVE MboxTypeOK'
  BY <1>a9 DEF Inv, TypeOK, FreeSlot
<1>a10. ASSUME ApcPend PROVE MboxTypeOK'
  BY <1>a10 DEF Inv, TypeOK, ApcPend
<1>a11. ASSUME ApcDone PROVE MboxTypeOK'
  BY <1>a11, JobWork, PostFits DEF Inv, TypeOK, ApcDone
<1>a12. ASSUME Deliver PROVE MboxTypeOK'
  BY <1>a12 DEF Inv, TypeOK, Deliver
<1>a13. ASSUME NEW r \in Requests, Send(r) PROVE MboxTypeOK'
  BY <1>a13 DEF Inv, TypeOK, Send
<1>b. ASSUME UNCHANGED vars PROVE MboxTypeOK'
  BY <1>b DEF Inv, TypeOK, vars
<1>. QED BY <1>a1, <1>a2, <1>a3, <1>a4, <1>a5, <1>a6, <1>a7, <1>a8, <1>a9, <1>a10,
           <1>a11, <1>a12, <1>a13, <1>b DEF Next, AmiTask, ApcTask

\* No step forgets a slot or answers for it twice.
LEMMA SlotsStep == Inv /\ [Next]_vars => SlotsAccounted'
<1> SUFFICES ASSUME Inv, [Next]_vars PROVE SlotsAccounted'
  OBVIOUS
<1> USE DEF SlotsAccounted, InAmiTask, InApcTask, hostVars, rxVars, amiVars, apcVars, history
<1>a1. ASSUME ReadRequest PROVE SlotsAccounted'
  BY <1>a1 DEF Inv, ProxyInv, ReadRequest, FreeSlots
<1>a2. ASSUME ReadNothing PROVE SlotsAccounted'
  BY <1>a2 DEF Inv, ProxyInv, ReadNothing
<1>a3. ASSUME RaiseQuick PROVE SlotsAccounted'
  BY <1>a3, EventWork, PostFits DEF Inv, ProxyInv, RaiseQuick
<1>a4. ASSUME RaiseIdentity PROVE SlotsAccounted'
  BY <1>a4, EventWork, PostFits, HotResetPosted DEF Inv, ProxyInv, RaiseIdentity
<1>a5. ASSUME RaiseApc PROVE SlotsAccounted'
  <2>1. CASE apcMbox' = Append(apcMbox, Work(amiSlot)) /\ UNCHANGED mbox
    BY <1>a5, <2>1, JobPosted DEF Inv, ProxyInv, RaiseApc
  <2>2. CASE Post(Work(amiSlot)) /\ UNCHANGED apcMbox
    BY <1>a5, <2>2, EventWork, PostFits DEF Inv, ProxyInv, RaiseApc
  <2>. QED BY <1>a5, <2>1, <2>2 DEF RaiseApc
<1>a6. ASSUME PendResponse PROVE SlotsAccounted'
  BY <1>a6, ResponsePended DEF Inv, ProxyInv, PendResponse
<1>a7. ASSUME PendNothing PROVE SlotsAccounted'
  BY <1>a7 DEF Inv, ProxyInv, PendNothing
<1>a8. ASSUME WriteResponse PROVE SlotsAccounted'
  BY <1>a8 DEF Inv, ProxyInv, WriteResponse
<1>a9. ASSUME FreeSlot PROVE SlotsAccounted'
  BY <1>a9 DEF Inv, ProxyInv, FreeSlot
<1>a10. ASSUME ApcPend PROVE SlotsAccounted'
  BY <1>a10, MailPended DEF Inv, ProxyInv, ApcPend
<1>a11. ASSUME ApcDone PROVE SlotsAccounted'
  BY <1>a11, JobWork, PostFits DEF Inv, ProxyInv, ApcDone
<1>a12. ASSUME Deliver PROVE SlotsAccounted'
  BY <1>a12 DEF Inv, ProxyInv, Deliver
<1>a13. ASSUME NEW r \in Requests, Send(r) PROVE SlotsAccounted'
  BY <1>a13 DEF Inv, ProxyInv, Send
<1>b. ASSUME UNCHANGED vars PROVE SlotsAccounted'
  BY <1>b DEF Inv, ProxyInv, vars
<1>. QED BY <1>a1, <1>a2, <1>a3, <1>a4, <1>a5, <1>a6, <1>a7, <1>a8, <1>a9, <1>a10,
           <1>a11, <1>a12, <1>a13, <1>b DEF Next, AmiTask, ApcTask

\* The works on their way stay those of the requests in their slots.
LEMMA WorkStep == Inv /\ [Next]_vars => WorkInv'
<1> SUFFICES ASSUME Inv, [Next]_vars PROVE WorkInv'
  OBVIOUS
<1> USE DEF WorkInv, hostVars, rxVars, amiVars, apcVars, history
<1>a1. ASSUME ReadRequest PROVE WorkInv'
  <2>1. CASE FreeSlots = {} /\ UNCHANGED rxVars
    BY <1>a1, <2>1 DEF Inv, ProxyInv, ReadRequest
  <2>2. ASSUME NEW s \in FreeSlots, inUse' = inUse \cup {s},
               held' = [held EXCEPT ![s] = Head(sq)]
        PROVE  WorkInv'
    <3>1. s \in Slots /\ s \notin inUse /\ Head(sq) \in Requests
      BY <1>a1 DEF FreeSlots, Inv, TypeOK, HostTypeOK, ReadRequest
    <3>2. held \in [Slots -> Requests \cup {NoRequest}]
      BY DEF Inv, TypeOK, SlotTypeOK
    <3>3. ~Carries(mbox, s) /\ ~Carries(apcMbox, s) /\ ~InApcTask(s)
      BY <3>1 DEF Inv, ProxyInv, SlotsAccounted
    <3>4. OwnWorks(mbox, held') /\ OwnWorks(apcMbox, held')
      BY <2>2, <3>1, <3>2, <3>3, MboxIsMail, KeptWorks DEF Inv, TypeOK, ProxyInv
    <3>5. apcPc = "job" => apcMsg.slot \in Slots /\ apcMsg.slot # s
      BY <3>3, JobWork, WorkIsMail DEF InApcTask
    <3>6. \A u \in inUse' : held'[u] \in Requests
      BY <2>2, <3>1, <3>2 DEF Inv, ProxyInv
    <3>7. amiPc' # "write" /\ UNCHANGED <<mbox, apcVars, apcMbox>>
      BY <1>a1 DEF ReadRequest
    <3>8. apcPc' = "job" => apcMsg'.of = held'[apcMsg'.slot]
      BY <2>2, <3>5, <3>7 DEF Inv, ProxyInv
    <3>. QED BY <3>4, <3>6, <3>7, <3>8
  <2>. QED BY <1>a1, <2>1, <2>2 DEF ReadRequest
<1>a2. ASSUME ReadNothing PROVE WorkInv'
  BY <1>a2 DEF Inv, ProxyInv, ReadNothing
<1>a3. ASSUME RaiseQuick PROVE WorkInv'
  BY <1>a3, EventWork, PostFits DEF Inv, ProxyInv, RaiseQuick
<1>a4. ASSUME RaiseIdentity PROVE WorkInv'
  BY <1>a4, EventWork, PostFits, HotResetPosted DEF Inv, ProxyInv, RaiseIdentity
<1>a5. ASSUME RaiseApc PROVE WorkInv'
  <2>1. CASE apcMbox' = Append(apcMbox, Work(amiSlot)) /\ UNCHANGED mbox
    BY <1>a5, <2>1, JobPosted DEF Inv, ProxyInv, RaiseApc
  <2>2. CASE Post(Work(amiSlot)) /\ UNCHANGED apcMbox
    BY <1>a5, <2>2, EventWork, PostFits DEF Inv, ProxyInv, RaiseApc
  <2>. QED BY <1>a5, <2>1, <2>2 DEF RaiseApc
<1>a6. ASSUME PendResponse PROVE WorkInv'
  BY <1>a6, ResponsePended DEF Inv, ProxyInv, PendResponse
<1>a7. ASSUME PendNothing PROVE WorkInv'
  BY <1>a7 DEF Inv, ProxyInv, PendNothing
<1>a8. ASSUME WriteResponse PROVE WorkInv'
  BY <1>a8 DEF Inv, ProxyInv, WriteResponse
<1>a9. ASSUME FreeSlot PROVE WorkInv'
  BY <1>a9 DEF Inv, ProxyInv, FreeSlot
<1>a10. ASSUME ApcPend PROVE WorkInv'
  BY <1>a10, MailPended DEF Inv, ProxyInv, ApcPend
<1>a11. ASSUME ApcDone PROVE WorkInv'
  BY <1>a11, JobWork, PostFits DEF Inv, ProxyInv, ApcDone
<1>a12. ASSUME Deliver PROVE WorkInv'
  BY <1>a12 DEF Inv, ProxyInv, Deliver
<1>a13. ASSUME NEW r \in Requests, Send(r) PROVE WorkInv'
  BY <1>a13 DEF Inv, ProxyInv, Send
<1>b. ASSUME UNCHANGED vars PROVE WorkInv'
  BY <1>b DEF Inv, ProxyInv, vars
<1>. QED BY <1>a1, <1>a2, <1>a3, <1>a4, <1>a5, <1>a6, <1>a7, <1>a8, <1>a9, <1>a10,
           <1>a11, <1>a12, <1>a13, <1>b DEF Next, AmiTask, ApcTask

\* The steps that neither take a request nor answer one.
LEMMA QuietStep ==
  ASSUME Inv,
         \/ ReadNothing \/ RaiseQuick \/ RaiseIdentity \/ RaiseApc
         \/ PendResponse \/ PendNothing \/ FreeSlot \/ ApcPend \/ ApcDone
         \/ (WriteResponse /\ amiPc' # "free") \/ UNCHANGED vars
  PROVE  UNCHANGED <<unsent, sq, cq, dropped, held, Active>>
<1> USE DEF hostVars, rxVars, amiVars, apcVars, history
<1>1. UNCHANGED <<unsent, sq, cq, dropped, held>>
  BY
  DEF ReadNothing, RaiseQuick, RaiseIdentity, RaiseApc, PendResponse, PendNothing,
     FreeSlot, ApcPend, ApcDone, WriteResponse, vars
<1>2. CASE FreeSlot
  BY <1>2 DEF FreeSlot, Active
<1>3. CASE ApcPend \/ ApcDone \/ UNCHANGED vars
  BY <1>3 DEF ApcPend, ApcDone, Active, vars
<1>4. CASE ~FreeSlot /\ ~ApcPend /\ ~ApcDone /\ ~UNCHANGED vars
  <2>1. UNCHANGED inUse /\ amiPc # "free" /\ amiPc' # "free"
    BY <1>4
    DEF ReadNothing, RaiseQuick, RaiseIdentity, RaiseApc, PendResponse, PendNothing,
       WriteResponse
  <2>. QED BY <1>1, <2>1 DEF Active
<1>. QED BY <1>2, <1>3, <1>4

LEMMA BusyQuiet ==
  ASSUME UNCHANGED <<unsent, sq, cq, dropped, held, Active>>
  PROVE  UNCHANGED <<Elems(sq), Elems(cq), Busy, Cids>>
  BY DEF Busy, Cids

\* A request that is read is taken, with a slot or without.
LEMMA ReadStep ==
  ASSUME Inv, ReadRequest
  PROVE  /\ Head(sq) \in Elems(sq) /\ Elems(sq)' = Elems(sq) \ {Head(sq)}
         /\ Distinct(sq)' /\ Head(sq) \in Requests
         /\ Busy' = Busy \cup {Head(sq)}
         /\ \/ UNCHANGED <<Active, held>> /\ dropped' = dropped \cup {Head(sq)}
            \/ \E s \in Slots \ Active :
                 /\ Active' = Active \cup {s} /\ UNCHANGED dropped
                 /\ held' = [held EXCEPT ![s] = Head(sq)]
<1>1. sq \in Seq(Requests) /\ sq # <<>> /\ Distinct(sq) /\ sq' = Tail(sq)
      /\ held \in [Slots -> Requests \cup {NoRequest}] /\ inUse \subseteq Slots
  BY DEF Inv, TypeOK, HostTypeOK, SlotTypeOK, ProxyInv, RequestInv, ReadRequest
<1>2. Head(sq) \in Elems(sq) /\ Elems(sq') = Elems(sq) \ {Head(sq)}
      /\ Distinct(sq') /\ Head(sq) \in Requests
  BY <1>1, ElemsTaken, TailDistinct
<1>3. amiPc = "read" /\ amiPc' # "free"
  BY DEF ReadRequest
<1>4. CASE FreeSlots = {} /\ dropped' = dropped \cup {Head(sq)} /\ UNCHANGED rxVars
  <2>1. UNCHANGED <<Active, held>>
    BY <1>3, <1>4 DEF Active, rxVars
  <2>. QED BY <1>2, <1>4, <2>1 DEF Busy
<1>5. ASSUME NEW s \in FreeSlots, inUse' = inUse \cup {s}, UNCHANGED dropped,
             held' = [held EXCEPT ![s] = Head(sq)]
      PROVE  /\ s \in Slots \ Active /\ Active' = Active \cup {s}
             /\ Busy' = Busy \cup {Head(sq)}
  <2>1. s \in Slots \ Active /\ Active' = Active \cup {s}
    BY <1>3, <1>5 DEF Active, FreeSlots
  <2>2. held'[s] = Head(sq) /\ \A u \in Active : held'[u] = held[u]
    BY <1>1, <1>5, <2>1
  <2>. QED BY <1>5, <2>1, <2>2 DEF Busy
<1>. QED BY <1>2, <1>4, <1>5 DEF ReadRequest

\* A response that is written is the answer to a request that was not answered.
LEMMA WriteStep ==
  ASSUME Inv, WriteResponse, amiPc' = "free"
  PROVE  \E s \in Active :
           /\ held[s] \in Requests /\ Active' = Active \ {s}
           /\ Busy' = Busy \ {held[s]} /\ held[s] \in Busy
           /\ Elems(cq)' = Elems(cq) \cup {[cid |-> held[s], of |-> held[s]]}
           /\ Cids' = Cids \cup {held[s]}
           /\ Distinct(cq)'
           /\ UNCHANGED <<unsent, sq, dropped, held>>
<1> DEFINE s == amiMsg.slot
           R == [cid : Requests, of : Requests]
<1> USE DEF hostVars, rxVars, amiVars, apcVars, history
<1>1. amiPc = "write" /\ s \in inUse /\ held[s] \in Requests
      /\ amiMsg.of = held[s]
  BY ResponseWork DEF WriteResponse, Inv, ProxyInv, WorkInv
<1>2. UNCHANGED <<unsent, sq, dropped, held, inUse, amiMsg>>
  BY DEF WriteResponse
<1>3. s \in Active /\ Active' = Active \ {s}
  BY <1>1, <1>2 DEF Active
<1>4. held[s] \in Busy /\ held[s] \notin dropped
      /\ \A u \in Active : held[u] = held[s] => u = s
  BY <1>3 DEF Busy, Inv, ProxyInv, RequestInv
<1>5. Busy' = Busy \ {held[s]}
  BY <1>2, <1>3, <1>4 DEF Busy
<1>6. PICK a : a = [cid |-> held[s], of |-> held[s]]
  OBVIOUS
<1>7. a \in R /\ a.cid = held[s] /\ a \notin Elems(cq)
  <2>1. held[s] \notin Cids
    BY <1>4 DEF Inv, ProxyInv, RequestInv
  <2>. QED BY <1>1, <1>6, <2>1 DEF Cids
<1>8. cq \in Seq(R) /\ Distinct(cq) /\ cq' = Append(cq, a)
  BY <1>1, <1>6 DEF Inv, TypeOK, HostTypeOK, ProxyInv, RequestInv, WriteResponse
<1>9. Elems(cq') = Elems(cq) \cup {a} /\ Distinct(cq')
  <2> HIDE DEF R
  <2>. QED BY <1>7, <1>8, ElemsAppended, AppendDistinct
<1>10. Elems(cq)' = Elems(cq) \cup {a} /\ Distinct(cq)'
  BY <1>9
<1>11. Cids' = Cids \cup {held[s]}
  BY <1>7, <1>10 DEF Cids
<1>. QED BY <1>1, <1>2, <1>3, <1>4, <1>5, <1>6, <1>10, <1>11

\* The host sends a request.
LEMMA SendStep ==
  ASSUME Inv, NEW r \in Requests, Send(r)
  PROVE  /\ r \in unsent /\ unsent' = unsent \ {r}
         /\ Elems(sq)' = Elems(sq) \cup {r} /\ Distinct(sq)'
         /\ UNCHANGED <<cq, Active, Busy, held, dropped, Cids>>
<1>1. r \in unsent /\ unsent' = unsent \ {r} /\ sq' = Append(sq, r)
      /\ sq \in Seq(Requests) /\ Distinct(sq) /\ r \notin Elems(sq)
  BY DEF Send, Inv, TypeOK, HostTypeOK, ProxyInv, RequestInv
<1>2. Elems(sq') = Elems(sq) \cup {r} /\ Distinct(sq')
  BY <1>1, ElemsAppended, AppendDistinct
<1>3. UNCHANGED <<cq, Active, held, dropped>>
  BY DEF Send, rxVars, amiVars, history, Active
<1>4. UNCHANGED <<Busy, Cids>>
  BY <1>3 DEF Busy, Cids
<1>. QED BY <1>1, <1>2, <1>3, <1>4

\* The host takes an answer.
LEMMA DeliverStep ==
  ASSUME Inv, Deliver
  PROVE  /\ Head(cq) \in Elems(cq) /\ Elems(cq)' = Elems(cq) \ {Head(cq)}
         /\ Distinct(cq)' /\ Cids' \subseteq Cids
         /\ UNCHANGED <<unsent, sq, Active, Busy, held, dropped>>
<1> DEFINE R == [cid : Requests, of : Requests]
<1>1. cq \in Seq(R) /\ cq # <<>> /\ cq' = Tail(cq) /\ Distinct(cq)
  BY DEF Deliver, Inv, TypeOK, HostTypeOK, ProxyInv, RequestInv
<1>2. Head(cq) \in Elems(cq) /\ Elems(cq') = Elems(cq) \ {Head(cq)} /\ Distinct(cq')
  <2> HIDE DEF R
  <2>. QED BY <1>1, ElemsTaken, TailDistinct
<1>3. UNCHANGED <<unsent, sq, Active, held, dropped>>
  BY DEF Deliver, hostVars, rxVars, amiVars, history, Active
<1>4. Cids' \subseteq Cids
  BY <1>2 DEF Cids
<1>. QED BY <1>2, <1>3, <1>4 DEF Busy

\* Every step that is not one of the four above changes nothing the host can see.
LEMMA OtherSteps ==
  ASSUME Inv, [Next]_vars
  PROVE  \/ UNCHANGED <<unsent, sq, cq, dropped, held, Active>>
         \/ ReadRequest \/ Deliver \/ (WriteResponse /\ amiPc' = "free")
         \/ \E r \in Requests : Send(r)
<1>1. CASE \/ ReadNothing \/ RaiseQuick \/ RaiseIdentity \/ RaiseApc
           \/ PendResponse \/ PendNothing \/ FreeSlot \/ ApcPend \/ ApcDone
           \/ (WriteResponse /\ amiPc' # "free") \/ UNCHANGED vars
  BY <1>1, QuietStep
<1>2. CASE ReadRequest \/ Deliver \/ (WriteResponse /\ amiPc' = "free")
  BY <1>2
<1>3. CASE \E r \in Requests : Send(r)
  BY <1>3
<1>4. CASE AmiTask \/ ApcTask
  BY <1>1, <1>4 DEF AmiTask, ApcTask
<1>. QED BY <1>1, <1>4 DEF Next

LEMMA AnswersStep == Inv /\ [Next]_vars => AnswersMatch'
<1> SUFFICES ASSUME Inv, [Next]_vars PROVE AnswersMatch'
  OBVIOUS
<1> USE DEF AnswersMatch, Inv, ProxyInv
<1>1. CASE UNCHANGED cq
  BY <1>1
<1>2. CASE Deliver
  BY <1>2, DeliverStep
<1>3. CASE WriteResponse /\ amiPc' = "free"
  BY <1>3, WriteStep
<1>. QED BY <1>2, <1>3, OtherSteps DEF ReadRequest, Send

\* A request stays in one place.
LEMMA RequestStep == Inv /\ [Next]_vars => RequestInv'
<1> SUFFICES ASSUME Inv, [Next]_vars PROVE RequestInv'
  OBVIOUS
<1>0. RequestInv /\ Busy \subseteq Requests /\ unsent \subseteq Requests
  BY DEF Inv, ProxyInv, TypeOK, HostTypeOK, WorkInv, Busy, Active
<1>1. CASE UNCHANGED <<unsent, sq, cq, dropped, held, Active>>
  BY <1>0, <1>1, BusyQuiet DEF RequestInv
<1>2. CASE ReadRequest
  <2>1. UNCHANGED <<unsent, cq, Elems(cq), Cids>> /\ Distinct(cq)'
    BY <1>0, <1>2 DEF ReadRequest, hostVars, Cids, RequestInv
  <2>2. PICK q : q = Head(sq) /\ q \in Elems(sq) /\ Elems(sq)' = Elems(sq) \ {q}
                 /\ Distinct(sq)' /\ Busy' = Busy \cup {q}
    BY <1>2, ReadStep
  <2>3. q \notin Busy /\ q \notin unsent /\ q \notin Cids
    BY <1>0, <2>2 DEF RequestInv
  <2> DEFINE Apart == /\ \A s, u \in Active' : held'[s] = held'[u] => s = u
                      /\ \A s \in Active' : held'[s] \notin dropped'
  <2>4. Apart
    <3>1. /\ \A s \in Active : held[s] # q
          /\ q \notin dropped
      BY <2>3 DEF Busy
    <3>2. CASE UNCHANGED <<Active, held>> /\ dropped' = dropped \cup {q}
      BY <1>0, <3>1, <3>2 DEF RequestInv
    <3>3. ASSUME NEW s \in Slots \ Active, Active' = Active \cup {s},
                 UNCHANGED dropped, held' = [held EXCEPT ![s] = q]
          PROVE  Apart
      <4>1. held'[s] = q /\ \A u \in Active : held'[u] = held[u]
        BY <3>3 DEF Inv, TypeOK, SlotTypeOK
      <4>. QED BY <1>0, <3>1, <3>3, <4>1 DEF RequestInv
    <3>. QED BY <1>2, <2>2, <3>2, <3>3, ReadStep
  <2>. QED BY <1>0, <2>1, <2>2, <2>4 DEF RequestInv
<1>3. CASE WriteResponse /\ amiPc' = "free"
  <2>1. PICK s \in Active :
           /\ held[s] \in Requests /\ Active' = Active \ {s}
           /\ Busy' = Busy \ {held[s]} /\ held[s] \in Busy
           /\ Cids' = Cids \cup {held[s]}
           /\ Distinct(cq)'
           /\ UNCHANGED <<unsent, sq, dropped, held>>
    BY <1>3, WriteStep
  <2>2. UNCHANGED Elems(sq) /\ Distinct(sq)'
    BY <1>0, <2>1 DEF RequestInv
  <2>. QED BY <1>0, <2>1 DEF RequestInv
<1>4. CASE Deliver
  <2>1. UNCHANGED Elems(sq) /\ Distinct(sq)'
    BY <1>0, <1>4, DeliverStep DEF RequestInv
  <2>. QED BY <1>0, <1>4, DeliverStep DEF RequestInv
<1>5. ASSUME NEW r \in Requests, Send(r) PROVE RequestInv'
  <2>1. Distinct(cq)'
    BY <1>0, <1>5, SendStep DEF RequestInv
  <2>. QED BY <1>0, <1>5, SendStep DEF RequestInv
<1>. QED BY <1>1, <1>2, <1>3, <1>4, <1>5, OtherSteps

LEMMA InvStep == Inv /\ [Next]_vars => Inv'
  BY HostTypes, SlotTypes, AmiTypes, ApcTypes, MboxTypes, SlotsStep, WorkStep,
     AnswersStep, RequestStep DEF Inv, TypeOK, ProxyInv

LEMMA Invariant == Spec => []Inv
  BY InitInv, InvStep, PTL DEF Spec

-----------------------------------------------------------------------------
(* Theorems.                                                               *)

\* The tasks, the mailboxes and the slots are well typed: no index of a slot
\* leaves xRxData and no task works on nothing.
THEOREM TypeCorrect == Spec => []TypeOK
<1>1. Inv => TypeOK
  BY DEF Inv
<1>. QED BY <1>1, Invariant, PTL

\* Whatever the host sends and however long the flash takes, a slot in use has
\* its answer in exactly one place and an answer is that of its request.
THEOREM SlotsSafe == Spec => [](SlotsAccounted /\ AnswersMatch)
<1>1. Inv => SlotsAccounted /\ AnswersMatch
  BY DEF Inv, ProxyInv
<1>. QED BY <1>1, Invariant, PTL

\* Every step of the two tasks is a step of the server or none.
LEMMA StepServes == Inv /\ [Next]_vars => [Server!Next]_(Server!vars)
<1> SUFFICES ASSUME Inv, [Next]_vars PROVE [Server!Next]_(Server!vars)
  OBVIOUS
<1>1. CASE UNCHANGED <<unsent, sq, cq, dropped, held, Active>>
  BY <1>1, BusyQuiet DEF Server!vars
<1>2. CASE ReadRequest
  <2>1. UNCHANGED <<unsent, Elems(cq)>>
    BY <1>2 DEF ReadRequest, hostVars
  <2>. QED BY <1>2, <2>1, ReadStep DEF Server!Next, Server!Take
<1>3. CASE WriteResponse /\ amiPc' = "free"
  <2>1. PICK s \in Active :
           /\ held[s] \in Requests
           /\ Busy' = Busy \ {held[s]} /\ held[s] \in Busy
           /\ Elems(cq)' = Elems(cq) \cup {[cid |-> held[s], of |-> held[s]]}
           /\ UNCHANGED <<unsent, sq>>
    BY <1>3, WriteStep
  <2>2. UNCHANGED Elems(sq)
    BY <2>1
  <2>3. Server!Respond(held[s])
    BY <2>1 DEF Server!Respond, Server!Answer
  <2>. QED BY <2>1, <2>3 DEF Server!Next
<1>4. CASE Deliver
  <2>1. UNCHANGED Elems(sq)
    BY <1>4, DeliverStep
  <2>. QED BY <1>4, DeliverStep DEF Server!Next, Server!Deliver
<1>5. ASSUME NEW r \in Requests, Send(r) PROVE Server!Next
  <2>1. UNCHANGED Elems(cq)
    BY <1>5, SendStep
  <2>. QED BY <1>5, SendStep DEF Server!Next, Server!Send
<1>. QED BY <1>1, <1>2, <1>3, <1>4, <1>5, OtherSteps

\* The AMC is the server that its host assumes: each request is taken once and
\* answered at most once, with its own id and its own result, through the slots,
\* the mailboxes and the jobs that overtake one another.
THEOREM ServerImplemented == Spec => ImplementsServer
<1>1. Init => Server!Init
  BY DEF Init, Server!Init, Elems, Busy, Active
<1>2. Inv /\ [Next]_vars => [Server!Next]_(Server!vars)
  BY StepServes
<1>. QED BY <1>1, <1>2, Invariant, PTL DEF Spec, Server!Spec, ImplementsServer
-----------------------------------------------------------------------------
(* Requests that find no slot.                                             *)

\* A function with values that are all different has as many of them as arguments.
LEMMA ImageCounted ==
  ASSUME NEW S, IsFiniteSet(S), NEW f
  PROVE  /\ IsFiniteSet({f[x] : x \in S})
         /\ (\A x, y \in S : f[x] = f[y] => x = y)
              => Cardinality({f[x] : x \in S}) = Cardinality(S)
<1> DEFINE T == {f[x] : x \in S}
           g == [x \in S |-> f[x]]
<1>1. g \in Surjection(S, T)
  BY DEF Surjection
<1>2. (\A x, y \in S : f[x] = f[y] => x = y) => g \in Injection(S, T)
  BY DEF Injection, IsInjective
<1> HIDE DEF g, T
<1>3. IsFiniteSet(T) /\ (Cardinality(T) = Cardinality(S) <=> g \in Injection(S, T))
  BY <1>1, FS_Surjection
<1> QED BY <1>2, <1>3 DEF T

LEMMA ElemsFinite ==
  ASSUME NEW S, NEW q \in Seq(S)
  PROVE  IsFiniteSet(Elems(q))
<1>1. Len(q) \in Nat /\ IsFiniteSet(1 .. Len(q))
  BY FS_Interval
<1> QED BY <1>1, ImageCounted DEF Elems

\* What the host waits for can be counted.
LEMMA OutstandingFinite ==
  ASSUME Inv, IsFiniteSet(dropped)
  PROVE  IsFiniteSet(Outstanding)
<1> USE DEF Inv, TypeOK, HostTypeOK, SlotTypeOK
<1>1. IsFiniteSet(Elems(sq)) /\ IsFiniteSet(Elems(cq))
  BY ElemsFinite
<1>2. IsFiniteSet({a.cid : a \in Elems(cq)})
  <2> DEFINE f == [a \in Elems(cq) |-> a.cid]
  <2>1. {a.cid : a \in Elems(cq)} = {f[a] : a \in Elems(cq)}
    OBVIOUS
  <2>2. IsFiniteSet({f[a] : a \in Elems(cq)})
    <3> HIDE DEF f
    <3> QED BY <1>1, ImageCounted
  <2> QED BY <2>1, <2>2
<1>3. IsFiniteSet(Slots)
  BY ProxyAssumption, FS_Interval DEF Slots
<1>4. IsFiniteSet(Active)
  BY <1>3, FS_Subset DEF Active
<1>5. IsFiniteSet({held[s] : s \in Active})
  BY <1>4, ImageCounted
<1>6. IsFiniteSet(Busy)
  BY <1>5, FS_Union DEF Busy
<1> HIDE DEF Inv, TypeOK, HostTypeOK, SlotTypeOK
<1>7. IsFiniteSet(Elems(sq) \cup Busy)
  BY <1>1, <1>6, FS_Union
<1> QED BY <1>2, <1>7, FS_Union DEF Outstanding

\* With no slot free, every slot has a request of its own, which is not answered.
LEMMA Flooded ==
  ASSUME Inv, IsFiniteSet(dropped), ReadRequest, dropped' # dropped
  PROVE  Cardinality(Outstanding) > NumSlots
<1> DEFINE T == {held[s] : s \in Slots}
<1>1. sq # <<>> /\ FreeSlots = {} /\ amiPc = "read"
  BY DEF ReadRequest
<1>2. Slots \subseteq inUse /\ Active = Slots
  BY <1>1 DEF FreeSlots, Active, Inv, TypeOK, SlotTypeOK
<1>3. IsFiniteSet(Slots) /\ Cardinality(Slots) = NumSlots /\ NumSlots \in Nat
  BY ProxyAssumption, FS_Interval DEF Slots
<1>4. IsFiniteSet(T) /\ Cardinality(T) = NumSlots
  <2>1. \A s, u \in Slots : held[s] = held[u] => s = u
    BY <1>2 DEF Inv, ProxyInv, RequestInv
  <2> HIDE DEF T
  <2> QED BY <1>3, <2>1, ImageCounted DEF T
<1>5. T \subseteq Busy
  BY <1>2 DEF Busy
<1>6. Head(sq) \in Elems(sq) /\ Head(sq) \notin T
  <2>1. Head(sq) \in Elems(sq)
    BY <1>1, ElemsTaken DEF Inv, TypeOK, HostTypeOK, ProxyInv, RequestInv
  <2>2. Elems(sq) \cap Busy = {}
    BY DEF Inv, ProxyInv, RequestInv
  <2> HIDE DEF T
  <2> QED BY <1>5, <2>1, <2>2
<1> HIDE DEF T
<1>7. IsFiniteSet(T \cup {Head(sq)}) /\ Cardinality(T \cup {Head(sq)}) = NumSlots + 1
  BY <1>4, <1>6, FS_AddElement
<1>8. T \cup {Head(sq)} \subseteq Outstanding /\ IsFiniteSet(Outstanding)
  BY <1>5, <1>6, OutstandingFinite DEF Outstanding
<1>9. Cardinality(T \cup {Head(sq)}) <= Cardinality(Outstanding)
  BY <1>8, FS_Subset
<1>10. Cardinality(Outstanding) \in Nat
  BY <1>8, FS_CardinalityType
<1> QED BY <1>3, <1>7, <1>9, <1>10

\* Only the AMI task drops requests, one at a time.
LEMMA DroppedByRead ==
  ASSUME [Next]_vars, dropped' # dropped
  PROVE  ReadRequest /\ dropped' = dropped \cup {Head(sq)}
<1> USE DEF history, vars
<1>1. ReadRequest
  BY DEF Next, AmiTask, ApcTask, ReadNothing, RaiseQuick, RaiseIdentity, RaiseApc,
         PendResponse, PendNothing, WriteResponse, FreeSlot, ApcPend, ApcDone, Deliver, Send
<1> QED BY <1>1 DEF ReadRequest

\* The AMC drops a request only when more of them are outstanding than xRxData has
\* slots, for any number of slots, sizes of the rings and mailboxes and orders of
\* the jobs.  Those whose response the AMC has lost count as outstanding.
THEOREM DropsForCause == Spec => DroppedOnlyWhenFlooded
<1>1. Init => IsFiniteSet(dropped)
  BY FS_EmptySet DEF Init
<1>2. IsFiniteSet(dropped) /\ [Next]_vars => IsFiniteSet(dropped)'
  BY DroppedByRead, FS_AddElement
<1>3. Inv /\ IsFiniteSet(dropped) /\ [Next]_vars
        => [dropped' # dropped => Cardinality(Outstanding) > NumSlots]_vars
  BY DroppedByRead, Flooded
<1> QED BY <1>1, <1>2, <1>3, Invariant, PTL DEF Spec, DroppedOnlyWhenFlooded
=============================================================================
