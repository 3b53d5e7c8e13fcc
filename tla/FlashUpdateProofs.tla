--------------------------- MODULE FlashUpdateProofs ---------------------------
(***************************************************************************)
(* Proofs about the programming of the boot flash: the types, the order of *)
(* the requests, the table that jobs use, what the flash holds and why a   *)
(* call fails.                                                             *)
(***************************************************************************)
EXTENDS FlashUpdateProps, SequenceTheorems, TLAPS

USE DEF hostVars, tableVars, history

-----------------------------------------------------------------------------
(* Sequences as queues.                                                    *)

\* What is posted is in the queue, behind what was there.
LEMMA Posted ==
  ASSUME NEW S, NEW s \in Seq(S), NEW x \in S
  PROVE  /\ Append(s, x) \in Seq(S) /\ Len(Append(s, x)) = Len(s) + 1
         /\ ToSet(Append(s, x)) = ToSet(s) \cup {x}
         /\ \A k \in 1 .. Len(s) : Append(s, x)[k] = s[k]
         /\ Append(s, x)[Len(s) + 1] = x
BY DEF ToSet

\* What is taken was in the queue, and the others move up.
LEMMA Taken ==
  ASSUME NEW S, NEW s \in Seq(S), s # <<>>
  PROVE  /\ Head(s) \in S /\ Tail(s) \in Seq(S) /\ Len(Tail(s)) = Len(s) - 1
         /\ Len(s) \in Nat \ {0} /\ Head(s) = s[1]
         /\ Head(s) \in ToSet(s) /\ ToSet(Tail(s)) \subseteq ToSet(s)
         /\ \A k \in 1 .. Len(Tail(s)) : Tail(s)[k] = s[k + 1]
BY DEF ToSet

\* Members of a queue have a place in it.
LEMMA Places ==
  ASSUME NEW S, NEW s \in Seq(S)
  PROVE  /\ \A x \in ToSet(s) : x \in S /\ \E k \in 1 .. Len(s) : s[k] = x
         /\ \A k \in 1 .. Len(s) : s[k] \in ToSet(s)
         /\ s = <<>> <=> Len(s) = 0
BY DEF ToSet

\* An empty queue has no member.
LEMMA NoPlaces == ToSet(<<>>) = {}
BY DEF ToSet

-----------------------------------------------------------------------------
(* Types.                                                                  *)

HostType == [pc : {"idle", "send", "wait"}, op : {"pdi", "fpt", "copy"}, part : Parts,
             src : Parts, image : Images \cup {NoImage}, fpt : Tables \cup {NoImage},
             step : 0 .. Chunks, ret : {"ok", "failed"}]
ApcType == [pc : {"idle", "read", "erase", "write", "readback", "verify", "refresh"},
            job : JobType, step : 0 .. Chunks, page : PageIds,
              tag : {"none", "tag", "invalid", "data", "erased"}]

\* What is written are pages.
LEMMA PiecesTyped ==
  /\ \A i \in Images \cup {OldImage}, c \in ChunkIds : Piece(i, c) \in [PageIds -> PageType]
  /\ \A f \in Tables : FptPiece(f) \in [PageIds -> PageType]
  /\ [g \in PageIds |-> Blank] \in [PageIds -> PageType]
  /\ 0 \in PageIds /\ 0 \in ChunkIds
  /\ \A d \in [PageIds -> PageType], w \in {"tag", "invalid", "data", "erased"} :
       WithWord(d, w) \in [PageIds -> PageType]
<1>1. 0 \in PageIds /\ 0 \in ChunkIds
  BY FlashAssumption DEF PageIds, ChunkIds
<1> QED
  BY <1>1 DEF Piece, FptPiece, Page, Blank, PageType, WithWord, Tables

\* The numbers of steps and chunks.
LEMMA StepChunks ==
  ASSUME NEW k \in 0 .. Chunks
  PROVE  /\ k % Chunks \in ChunkIds
         /\ k % Chunks = IF k = Chunks THEN 0 ELSE k
         /\ k > 0 => k - 1 \in ChunkIds
<1>1. Chunks \in Nat /\ Chunks > 1
  BY FlashAssumption
<1>2. k % Chunks = IF k = Chunks THEN 0 ELSE k
  BY <1>1
<1> QED BY <1>1, <1>2 DEF ChunkIds

\* A call that has had an answer has an image of more than one chunk.
LEMMA StepMade ==
  ASSUME TypeOK, JobInv, host.pc # "idle", host.step > 0
  PROVE  /\ host.image \in Images \ OneChunk /\ LastStep(host) = Chunks
         /\ host.op \in {"pdi", "fpt"} /\ ~ Invalidating(host)
<1>1. host.step \in 0 .. Chunks /\ host.op \in {"pdi", "fpt", "copy"} /\ host.step # 0
  BY DEF TypeOK
<1>2. host.step <= LastStep(host)
  BY DEF JobInv
<1>3. host.image \in Images \ OneChunk
  BY <1>1, <1>2 DEF LastStep
<1>4. host.op # "copy"
  BY <1>3, FlashAssumption DEF JobInv
<1> QED BY <1>1, <1>3, <1>4 DEF LastStep, Invalidating

\* Where the APC task works, and from where.
LEMMA JobTyped ==
  ASSUME TypeOK, JobInv, apc.pc # "idle"
  PROVE  /\ apc.job.op # "fpt" => Packet \in ChunkIds
         /\ Target \in Sectors /\ Buffer \in [PageIds -> PageType] /\ LastPage \in PageIds
         /\ apc.job \in JobType /\ apc.job \in Pending
<1>1. apc \in ApcType /\ apc.job \in JobType /\ apc.job \in Pending
  BY DEF TypeOK, ApcType, Pending, Admitted
<1>2. apc.step % Chunks \in ChunkIds
  BY <1>1, StepChunks DEF ApcType
<1>3. apc.job.op # "fpt" => Packet \in ChunkIds
  BY <1>1, <1>2 DEF Packet, JobInv, JobType
<1>4. apc.job.op = "fpt" => Packet = apc.job.chunk /\ Packet \in 0 .. Chunks
  BY <1>1 DEF Packet, JobType
<1>5. Target \in Sectors
  BY <1>1, <1>3, <1>4, FlashAssumption, StepChunks DEF Target, Sectors, JobType
<1>6. Buffer \in [PageIds -> PageType]
  BY <1>3, <1>4, PiecesTyped DEF Buffer, TypeOK
<1>7. LastPage \in PageIds
  BY FlashAssumption DEF LastPage, PageIds
<1> QED BY <1>1, <1>3, <1>5, <1>6, <1>7

\* An answer ends the call, or lets it go on, or is of no interest.
LEMMA Answered ==
  ASSUME TypeOK, JobInv, NEW job, NEW ok \in BOOLEAN, Answer(job, ok)
  PROVE  /\ host' \in HostType /\ promised' \in [Parts -> Images \cup {OldImage, NoImage}]
         /\ \/ ~ Waits(job) /\ host' = host /\ promised' = promised
            \/ /\ Waits(job) /\ host'.pc = "idle" /\ ok /\ host.step = LastStep(host)
               /\ promised' = [promised EXCEPT ![host.part] =
                                IF host.op = "copy" THEN promised[host.src] ELSE host.image]
            \/ /\ Waits(job) /\ host'.pc = "idle" /\ ~ ok /\ promised' = promised
            \/ /\ Waits(job) /\ ok /\ host.step < LastStep(host) /\ promised' = promised
               /\ host' = [host EXCEPT !.pc = "send", !.step = host.step + 1]
<1>1. host \in HostType /\ LastStep(host) \in 0 .. Chunks
  BY FlashAssumption DEF TypeOK, HostType, LastStep
<1>2. Returned("ok") \in HostType /\ Returned("failed") \in HostType
      /\ Returned("ok").pc = "idle" /\ Returned("failed").pc = "idle"
  BY FlashAssumption DEF Returned, IdleHost, HostType
<1>3. CASE ~ Waits(job)
  BY <1>1, <1>3 DEF Answer, TypeOK
<1>4. CASE Waits(job) /\ ok /\ host.step < LastStep(host)
  <2>1. host.step + 1 \in 0 .. Chunks
    BY <1>1, <1>4, FlashAssumption DEF HostType
  <2>2. host' = [host EXCEPT !.pc = "send", !.step = host.step + 1]
    BY <1>4 DEF Answer
  <2>3. host' \in HostType
    BY <1>1, <2>1, <2>2 DEF HostType
  <2>4. promised' = promised
    <3>1. host.step # LastStep(host)
      BY <1>1, <1>4
    <3> QED BY <1>4, <3>1 DEF Answer
  <2> QED BY <1>4, <2>2, <2>3, <2>4 DEF TypeOK
<1>5. CASE Waits(job) /\ ok /\ ~ (host.step < LastStep(host))
  <2>1. host.step = LastStep(host)
    BY <1>1, <1>5, FlashAssumption DEF HostType, JobInv, LastStep, Waits
  <2>2. host' = Returned("ok")
    BY <1>5 DEF Answer
  <2>3. promised' = [promised EXCEPT ![host.part] =
                      IF host.op = "copy" THEN promised[host.src] ELSE host.image]
    BY <1>5, <2>1 DEF Answer
  <2>4. promised' \in [Parts -> Images \cup {OldImage, NoImage}]
    BY <1>1, <2>3 DEF TypeOK, HostType
  <2> QED BY <1>2, <1>5, <2>1, <2>2, <2>3, <2>4
<1>6. CASE Waits(job) /\ ~ ok
  BY <1>1, <1>2, <1>6 DEF Answer, TypeOK
<1> QED BY <1>3, <1>4, <1>5, <1>6

\* A returned call is a call, and an idle task a task.
LEMMA IdleTyped ==
  /\ IdleApc \in ApcType /\ IdleApc.pc = "idle"
  /\ \A r \in {"ok", "failed"} : Returned(r) \in HostType /\ Returned(r).pc = "idle"
BY FlashAssumption, PiecesTyped
DEF IdleApc, NoJob, ApcType, JobType, Returned, IdleHost, HostType

\* The driver keeps the types.
LEMMA HostTypes ==
  ASSUME TypeOK, JobInv, HostNext
  PROVE  TypeOK'
<1>1. host \in HostType
  BY DEF TypeOK, HostType
<1>2. ASSUME NEW op \in {"pdi", "fpt", "copy"}, NEW q \in Parts, NEW s \in Parts,
             NEW i \in Images \cup {NoImage}, NEW f \in Tables \cup {NoImage},
             Start(op, q, s, i, f)
      PROVE  TypeOK'
  <2>1. host' \in HostType
    BY <1>2, FlashAssumption DEF Start, HostType
  <2>2. calls' \in 0 .. MaxCalls
    BY <1>2, FlashAssumption DEF Start, TypeOK
  <2>3. promised' \in [Parts -> Images \cup {OldImage, NoImage}]
    BY <1>2 DEF Start, TypeOK
  <2>4. clean' \in BOOLEAN
    BY <1>2 DEF Start, TypeOK
  <2> QED BY <1>2, <2>1, <2>2, <2>3, <2>4 DEF Start, TypeOK, HostType
<1>3. CASE HostCall
  BY <1>2, <1>3, FlashAssumption DEF HostCall
<1>4. CASE HostSend
  <2>1. host' \in HostType
    BY <1>1, <1>4 DEF HostSend, HostType
  <2>2. host.step \in 0 .. Chunks /\ host.step % Chunks \in ChunkIds
        /\ (host.step > 0 => host.step - 1 \in ChunkIds)
    BY <1>1, StepChunks DEF HostType
  <2>3. Request(host) \in JobType
    <3>1. Invalidating(host) \in BOOLEAN
      BY DEF Invalidating
    <3> QED BY <1>1, <2>2, <3>1, FlashAssumption DEF HostType, Request, JobType, TypeOK, ChunkIds
  <2>4. Sent(host) \in [PageIds -> PageType]
    <3>1. host.op \in {"pdi", "fpt", "copy"} /\ ram[0] \in [PageIds -> PageType]
      BY <1>1, PiecesTyped DEF HostType, TypeOK
    <3>2. host.step = 0 \/ host.step > 0
      BY <2>2, FlashAssumption
    <3>3. /\ host.op = "pdi" => host.image \in Images
          /\ host.op = "fpt" => host.fpt \in Tables
          /\ host.step > 0 => host.image \in Images
      BY <1>4, <2>2, StepMade DEF JobInv, HostSend
    <3>4. CASE host.op = "pdi"
      <4>1. Sent(host) = WithWord(ram[0], "invalid") \/ Sent(host) = Piece(host.image, host.step % Chunks)
        BY <3>4 DEF Sent
      <4> QED BY <2>2, <3>1, <3>3, <3>4, <4>1, PiecesTyped
    <3>5. CASE host.op = "fpt"
      <4>1. Sent(host) = IF host.step = 0 THEN FptPiece(host.fpt) ELSE Piece(host.image, host.step - 1)
        BY <3>2, <3>5, FlashAssumption DEF Sent, Invalidating
      <4> QED BY <2>2, <3>2, <3>3, <3>5, <4>1, PiecesTyped
    <3>6. CASE host.op = "copy"
      BY <3>1, <3>6 DEF Sent, Invalidating
    <3> QED BY <3>1, <3>4, <3>5, <3>6
  <2>5. ram' \in [ChunkIds -> [PageIds -> PageType]]
    BY <1>4, <2>4, PiecesTyped DEF HostSend, TypeOK
  <2>6. sq' \in Seq(JobType)
    BY <1>4, <2>3 DEF HostSend, TypeOK
  <2> QED BY <1>4, <2>1, <2>5, <2>6 DEF HostSend, TypeOK, HostType
<1>5. CASE HostAbandon \/ HostTimeout
  BY <1>5, IdleTyped DEF HostAbandon, HostTimeout, TypeOK, HostType
<1> QED BY <1>3, <1>4, <1>5 DEF HostNext

\* Accepting a request keeps the types.
LEMMA AcceptTypes ==
  ASSUME TypeOK, JobInv, AmiAccept
  PROVE  TypeOK'
<1>1. Head(sq) \in JobType /\ sq' \in Seq(JobType)
  BY Taken DEF AmiAccept, TypeOK
<1>2. CASE Accepted(Head(sq))
  <2>1. mbox' \in Seq(JobType) /\ Len(mbox') <= MboxSize
    <3>1. /\ mbox' = Append(mbox, Head(sq)) /\ mbox \in Seq(JobType)
          /\ Len(mbox) < MboxSize /\ MboxSize \in Nat
      BY <1>2, FlashAssumption DEF AmiAccept, Accepted, TypeOK
    <3>2. Len(mbox') = Len(mbox) + 1 /\ mbox' \in Seq(JobType)
      BY <1>1, <3>1, Posted
    <3> QED BY <3>1, <3>2
  <2> QED BY <1>1, <1>2, <2>1 DEF AmiAccept, TypeOK
<1>3. CASE ~ Accepted(Head(sq))
  <2>1. Answer(Head(sq), FALSE)
    BY <1>3 DEF AmiAccept
  <2>2. host' \in HostType /\ promised' \in [Parts -> Images \cup {OldImage, NoImage}]
    BY <2>1, Answered
  <2>3. clean' \in BOOLEAN
    BY <1>3 DEF AmiAccept
  <2> QED BY <1>1, <1>3, <2>2, <2>3 DEF AmiAccept, TypeOK, HostType
<1> QED BY <1>2, <1>3

\* The end of a job keeps the types of what it changes.
LEMMA FinishTypes ==
  ASSUME TypeOK, JobInv, NEW ok \in BOOLEAN, Finish(ok)
  PROVE  /\ apc' \in ApcType /\ host' \in HostType
         /\ promised' \in [Parts -> Images \cup {OldImage, NoImage}]
BY Answered, IdleTyped DEF Finish

\* The APC task keeps the types.
LEMMA ApcTypes ==
  ASSUME TypeOK, JobInv, ApcNext
  PROVE  TypeOK'
<1>0. apc \in ApcType /\ host \in HostType
  BY DEF TypeOK, ApcType, HostType
<1>1. CASE ApcPend
  <2>1. Head(mbox) \in JobType /\ mbox' \in Seq(JobType) /\ Len(mbox') <= MboxSize
    BY <1>1, Taken, FlashAssumption DEF ApcPend, TypeOK
  <2>2. dead' \in BOOLEAN /\ clean' \in BOOLEAN
    BY <1>1 DEF ApcPend, Found, TypeOK
  <2>3. apc' \in ApcType
    BY <1>0, <1>1, <2>1, IdleTyped DEF ApcPend, ApcType
  <2>4. host' \in HostType /\ promised' \in [Parts -> Images \cup {OldImage, NoImage}]
    BY <1>0, <1>1, Answered DEF ApcPend, TypeOK
  <2> QED BY <1>1, <2>1, <2>2, <2>3, <2>4 DEF ApcPend, TypeOK, ApcType, HostType
<1>2. CASE CopyRead
  <2>1. apc.job \in JobType /\ apc.step \in ChunkIds
    BY <1>0, <1>2, FlashAssumption DEF CopyRead, ApcType, ChunkIds
  <2>2. flash[<<apc.job.src, apc.step>>] \in [PageIds -> PageType]
        /\ flash[<<apc.job.src, apc.step>>][0].word \in {"tag", "invalid", "data", "erased"}
    BY <2>1, PiecesTyped DEF TypeOK, Sectors, JobType, PageType
  <2>3. ram' \in [ChunkIds -> [PageIds -> PageType]]
    BY <1>2, <2>1, <2>2, PiecesTyped DEF CopyRead, TypeOK
  <2>4. apc' \in ApcType
    BY <1>0, <1>2, <2>2 DEF CopyRead, ApcType
  <2>5. UNCHANGED <<flash, tableVars, hostVars, mbox, dead, faults, history>>
    BY <1>2 DEF CopyRead
  <2> QED BY <2>3, <2>4, <2>5 DEF TypeOK, ApcType, tableVars, hostVars, history
<1>3. CASE CopyRetag
  <2>1. apc.tag \in {"tag", "invalid", "data", "erased"}
    BY <1>0, <1>3, FlashAssumption DEF CopyRetag, JobInv, ApcType
  <2>2. ram' \in [ChunkIds -> [PageIds -> PageType]]
    BY <1>3, <2>1, PiecesTyped DEF CopyRetag, TypeOK
  <2>3. CASE ram'[0] = flash[<<apc.job.src, 0>>]
    <3>1. apc' \in ApcType
      BY <1>0, <1>3, <2>3 DEF CopyRetag, ApcType
    <3> QED BY <1>3, <2>2, <2>3, <3>1 DEF CopyRetag, TypeOK, ApcType
  <2>4. CASE ram'[0] # flash[<<apc.job.src, 0>>]
    BY <1>3, <2>2, <2>4, FinishTypes DEF CopyRetag, TypeOK, ApcType, HostType
  <2> QED BY <2>3, <2>4
<1>4. CASE Erase
  <2>1. flash' \in [Sectors -> [PageIds -> PageType]]
    BY <1>4, JobTyped, PiecesTyped DEF Erase, TypeOK
  <2>2. apc' \in ApcType
    BY <1>0, <1>4, PiecesTyped DEF Erase, ApcType
  <2>3. unguarded' \subseteq Parts
    <3>1. apc.job \in JobType /\ P0 \in Parts
      BY <1>0, FlashAssumption DEF ApcType
    <3> QED BY <1>4, <3>1 DEF Erase, Guarded, TypeOK, JobType
  <2> QED BY <1>4, <2>1, <2>2, <2>3 DEF Erase, TypeOK, ApcType
<1>5. CASE FlashFails
  <2>1. faults' \in 0 .. MaxFaults /\ clean' \in BOOLEAN
    <3>1. /\ faults \in 0 .. MaxFaults /\ faults < MaxFaults /\ MaxFaults \in Nat
          /\ faults' = faults + 1
      BY <1>5, FlashAssumption DEF FlashFails, TypeOK
    <3>2. clean' \in BOOLEAN
      BY <1>5 DEF FlashFails
    <3> QED BY <3>1, <3>2
  <2> QED BY <1>5, <2>1, FinishTypes DEF FlashFails, TypeOK, ApcType, HostType
<1>6. CASE WritePage
  <2>1. /\ apc.page \in PageIds /\ Target \in Sectors
        /\ Buffer[apc.page] \in PageType /\ LastPage \in PageIds
    BY <1>0, <1>6, JobTyped DEF WritePage, ApcType
  <2>2. flash' \in [Sectors -> [PageIds -> PageType]]
    BY <1>6, <2>1 DEF WritePage, TypeOK
  <2>3. apc' \in ApcType
    <3>1. apc.page < LastPage => apc.page + 1 \in PageIds
      BY <2>1, FlashAssumption DEF PageIds
    <3> QED BY <1>0, <1>6, <3>1 DEF WritePage, ApcType
  <2> QED BY <1>6, <2>2, <2>3 DEF WritePage, TypeOK, ApcType
<1>7. CASE WritePageFails
  <2>1. faults' \in 0 .. MaxFaults /\ clean' \in BOOLEAN
    <3>1. /\ faults \in 0 .. MaxFaults /\ faults < MaxFaults /\ MaxFaults \in Nat
          /\ faults' = faults + 1
      BY <1>7, FlashAssumption DEF WritePageFails, TypeOK
    <3>2. clean' \in BOOLEAN
      BY <1>7 DEF WritePageFails
    <3> QED BY <3>1, <3>2
  <2>2. apc' \in ApcType /\ host' \in HostType
        /\ promised' \in [Parts -> Images \cup {OldImage, NoImage}]
    <3>1. CASE apc.page < LastPage
      <4>1. apc.page + 1 \in PageIds
        BY <1>0, <1>7, <3>1, JobTyped, FlashAssumption DEF WritePageFails, ApcType, PageIds
      <4> QED BY <1>0, <1>7, <3>1, <4>1 DEF WritePageFails, ApcType, TypeOK
    <3>2. CASE ~ (apc.page < LastPage)
      BY <1>7, <3>2, FinishTypes DEF WritePageFails
    <3> QED BY <3>1, <3>2
  <2> QED BY <1>7, <2>1, <2>2 DEF WritePageFails, TypeOK, ApcType, HostType
<1>10. CASE ReadBack
  <2>1. apc' \in ApcType /\ host' \in HostType
        /\ promised' \in [Parts -> Images \cup {OldImage, NoImage}]
    <3>1. CASE Finish(FALSE)
      BY <3>1, FinishTypes
    <3>2. CASE apc' = [apc EXCEPT !.pc = "verify"] /\ UNCHANGED <<host, promised>>
      BY <1>0, <3>2 DEF ApcType, TypeOK
    <3> QED BY <1>10, <3>1, <3>2 DEF ReadBack
  <2> QED BY <1>10, <2>1 DEF ReadBack, TypeOK, ApcType, HostType
<1>8. CASE Verify
  <2>1. valid' \in BOOLEAN
    BY <1>8 DEF Verify, TypeOK
  <2>2. apc' \in ApcType /\ host' \in HostType
        /\ promised' \in [Parts -> Images \cup {OldImage, NoImage}]
    <3>1. CASE Finish(TRUE) \/ Finish(FALSE)
      BY <3>1, FinishTypes
    <3>2. CASE apc.step < Chunks /\ apc' = [apc EXCEPT !.pc = "read", !.step = @ + 1]
               /\ UNCHANGED <<host, promised>>
      <4>1. apc.step + 1 \in 0 .. Chunks
        BY <1>0, <3>2, FlashAssumption DEF ApcType
      <4> QED BY <1>0, <3>2, <4>1 DEF ApcType, TypeOK
    <3>3. CASE apc' = [apc EXCEPT !.pc = "refresh"] /\ UNCHANGED <<host, promised>>
      BY <1>0, <3>3 DEF ApcType, TypeOK
    <3> QED BY <1>8, <3>1, <3>2, <3>3 DEF Verify
  <2> QED BY <1>8, <2>1, <2>2 DEF Verify, TypeOK, ApcType, HostType
<1>9. CASE Refresh
  <2>1. valid' \in BOOLEAN /\ table' \in {"none", "good", "few", "torn"}
    BY <1>9 DEF Refresh, TypeOK, TableOf
  <2>2. HeaderValid(flash[FptSector]) \in BOOLEAN
    BY DEF HeaderValid
  <2>3. apc' \in ApcType /\ host' \in HostType
        /\ promised' \in [Parts -> Images \cup {OldImage, NoImage}]
    BY <1>9, <2>2, FinishTypes DEF Refresh
  <2> QED BY <1>9, <2>1, <2>3 DEF Refresh, TypeOK, ApcType, HostType
<1> QED
  BY <1>1, <1>2, <1>3, <1>4, <1>5, <1>6, <1>7, <1>8, <1>9, <1>10 DEF ApcNext

\* A step keeps the types.
LEMMA TypesKept ==
  ASSUME TypeOK, JobInv, [Next]_vars
  PROVE  TypeOK'
<1>1. CASE AmcReset
  <2>1. faults' \in 0 .. MaxFaults /\ clean' \in BOOLEAN /\ valid' \in BOOLEAN
        /\ table' \in {"none", "good", "few", "torn"}
    <3>1. /\ faults \in 0 .. MaxFaults /\ faults < MaxFaults /\ MaxFaults \in Nat
          /\ faults' = faults + 1
      BY <1>1, FlashAssumption DEF AmcReset, TypeOK
    <3>2. clean' \in BOOLEAN /\ valid' \in BOOLEAN
      <4>1. HeaderValid(flash[FptSector]) \in BOOLEAN
        BY DEF HeaderValid
      <4> QED BY <1>1, <4>1 DEF AmcReset
    <3>3. table' \in {"none", "good", "few", "torn"}
      BY <1>1 DEF AmcReset, TableOf
    <3> QED BY <3>1, <3>2, <3>3
  <2>2. sq' \in Seq(JobType) /\ mbox' \in Seq(JobType) /\ Len(mbox') <= MboxSize
    BY <1>1, FlashAssumption DEF AmcReset
  <2> QED BY <1>1, <2>1, <2>2, IdleTyped DEF AmcReset, TypeOK, ApcType
<1>2. CASE UNCHANGED vars
  BY <1>2 DEF vars, TypeOK
<1> QED BY <1>1, <1>2, HostTypes, AcceptTypes, ApcTypes DEF Next

-----------------------------------------------------------------------------
(* The order of the requests.                                              *)

OrderInv == JobInv /\ OwnInv /\ HeadInv

\* The parts of a request.
LEMMA RequestMade ==
  ASSUME TypeOK
  PROVE  /\ Request(host).call = calls /\ Request(host).op = host.op
         /\ Request(host).part = host.part /\ Request(host).src = host.src
         /\ Request(host).short <=> Invalidating(host)
         /\ Request(host).last <=> host.op # "copy" /\ host.step = LastStep(host)
         /\ host.op = "pdi" => /\ Request(host).chunk \in ChunkIds
                               /\ Request(host).chunk = IF host.step = Chunks THEN 0 ELSE host.step
         /\ host.op # "pdi" => Request(host).chunk = host.step
         /\ host.step \in 0 .. Chunks /\ Chunks > 0
         /\ Later(Request(host)) <=> host.step > 0
         /\ Invalidating(host) => host.op = "pdi" /\ host.step = 0
<1>1. host.step \in 0 .. Chunks /\ Chunks \in Nat /\ Chunks > 0
  BY FlashAssumption DEF TypeOK
<1>2. host.step % Chunks \in ChunkIds /\ host.step % Chunks = IF host.step = Chunks THEN 0 ELSE host.step
  BY <1>1, StepChunks
<1>3. /\ Request(host).call = calls /\ Request(host).op = host.op
      /\ Request(host).part = host.part /\ Request(host).src = host.src
      /\ Request(host).short <=> Invalidating(host)
      /\ Request(host).first <=> host.step = 0
      /\ Request(host).last <=> host.op # "copy" /\ host.step = LastStep(host)
      /\ Request(host).chunk = IF host.op = "pdi" THEN host.step % Chunks ELSE host.step
  BY DEF Request
<1>4. Later(Request(host)) <=> host.step > 0
  BY <1>1, <1>3 DEF Later
<1>5. Invalidating(host) => host.op = "pdi" /\ host.step = 0
  BY DEF Invalidating
<1> QED BY <1>1, <1>2, <1>3, <1>4, <1>5

\* A request that is sent joins those that are pending.
LEMMA SentIsPending ==
  ASSUME TypeOK, JobInv, HostSend
  PROVE  Request(host) \in JobType /\ Pending' = Pending \cup {Request(host)}
<1>1. host.step \in 0 .. Chunks /\ host.step % Chunks \in ChunkIds /\ host \in HostType
  BY StepChunks DEF HostType, TypeOK
<1>2. Request(host) \in JobType
  <2>1. Invalidating(host) \in BOOLEAN
    BY DEF Invalidating
  <2> QED BY <1>1, <2>1, FlashAssumption DEF HostType, Request, JobType, TypeOK, ChunkIds
<1>3. ToSet(sq') = ToSet(sq) \cup {Request(host)}
  BY <1>2, Posted DEF HostSend, TypeOK
<1> QED BY <1>2, <1>3 DEF HostSend, Pending, Admitted

\* The driver keeps the order: a call starts with a number of its own, and its
\* later requests meet empty queues.
LEMMA HostOrder ==
  ASSUME TypeOK, OrderInv, HostNext
  PROVE  OrderInv'
<1>0. host \in HostType /\ sq \in Seq(JobType) /\ mbox \in Seq(JobType) /\ calls \in Nat
  BY FlashAssumption DEF TypeOK, HostType
<1>1. CASE HostCall
  <2>1. PICK op \in {"pdi", "fpt", "copy"}, q \in Parts, s \in Parts,
             i \in Images \cup {NoImage}, f \in Tables \cup {NoImage} :
          /\ Start(op, q, s, i, f)
          /\ op = "pdi" => i \in Images /\ s = q
          /\ op = "fpt" => i \in (Images \ OneChunk) \cup {NoImage} /\ f \in Tables /\ q = P0
          /\ op = "copy" => q # s /\ i = NoImage
    BY <1>1, FlashAssumption DEF HostCall
  <2>2. Pending' = Pending
    BY <2>1 DEF Start, Pending, Admitted
  <2>3. \A j \in Pending : j.call <= calls /\ j \in JobType
    BY Places DEF OrderInv, JobInv, Pending, Admitted, TypeOK
  <2>4. \A j \in Pending : j.call <= calls' /\ j.call # calls'
    BY <1>0, <2>1, <2>3, FlashAssumption DEF Start, JobType
  <2>5. JobInv'
    <3>1. host'.step = 0 /\ LastStep(host') \in {0, Chunks} /\ Chunks \in Nat
      BY <2>1, FlashAssumption DEF Start, LastStep
    <3>2. host'.step <= LastStep(host')
      BY <3>1
    <3>3. /\ host'.op = op /\ host'.part = q /\ host'.src = s /\ host'.image = i /\ host'.fpt = f
          /\ UNCHANGED apc
      BY <2>1 DEF Start
    <3> QED BY <2>1, <2>2, <2>4, <3>2, <3>3 DEF OrderInv, JobInv, Later
  <2>6. OwnInv'
    BY <2>1, <2>2, <2>4 DEF Start, OwnInv
  <2>7. HeadInv'
    BY <2>1 DEF Start, OrderInv, HeadInv
  <2> QED BY <2>5, <2>6, <2>7 DEF OrderInv
<1>2. CASE HostSend
  <2>0. Pending' = Pending \cup {Request(host)} /\ Request(host) \in JobType
    BY <1>2, SentIsPending DEF OrderInv
  <2>1. Request(host)' = Request(host) /\ calls' = calls
    BY <1>0, <1>2 DEF HostSend, Request, Invalidating, LastStep, HostType
  <2>2. host.step \in 0 .. Chunks /\ host.step % Chunks \in ChunkIds /\ 0 % Chunks = 0
    BY <1>0, StepChunks, FlashAssumption DEF HostType
  <2>3. JobInv'
    <3>0. host.pc = "send"
      BY <1>2 DEF HostSend
    <3>1. calls <= calls
      BY <1>0
    <3>2. /\ Request(host).call <= calls
          /\ Request(host).short => Request(host).op = "pdi" /\ Request(host).chunk = 0
      BY <3>1, RequestMade
    <3>3. Request(host).op = "pdi" =>
            /\ Request(host).chunk \in ChunkIds /\ Request(host).src = Request(host).part
            /\ Request(host).chunk > 0 => Later(Request(host))
            /\ Later(Request(host)) => ~ Request(host).short
      BY <3>0, RequestMade DEF OrderInv, JobInv
    <3>4. Request(host).op = "fpt" =>
            Request(host).part = P0 /\ (Later(Request(host)) <=> Request(host).chunk > 0)
      BY <3>0, RequestMade DEF OrderInv, JobInv
    <3>5. Request(host).op = "copy" => Request(host).part # Request(host).src /\ ~ Later(Request(host))
      <4>1. host.op = "copy" => ~ (host.step > 0)
        BY <3>0, StepMade DEF OrderInv
      <4> QED BY <3>0, <4>1, RequestMade DEF OrderInv, JobInv
    <3>6. LastStep(host') = LastStep(host)
      BY <1>0, <1>2 DEF HostSend, HostType, LastStep
    <3> QED
      BY <1>0, <1>2, <2>0, <3>2, <3>3, <3>4, <3>5, <3>6 DEF OrderInv, JobInv, HostSend, HostType, Later
  <2>4. OwnInv'
    <3>1. \A j \in Pending : j.call # calls
      BY <1>2 DEF OrderInv, OwnInv, HostSend
    <3>2. \A k \in 1 .. Len(mbox) : mbox[k].call # calls
      BY <1>0, <3>1, Places DEF Pending, Admitted
    <3>3. \A k \in 1 .. Len(sq) : sq[k].call # calls
      BY <1>0, <3>1, Places DEF Pending, Admitted
    <3>4. \A k \in 1 .. Len(sq') : sq'[k].call = calls => k = Len(sq')
      BY <1>0, <1>2, <2>0, <3>3, Posted DEF HostSend
    <3>5. apc.pc # "idle" => apc.job.call # calls
      BY <3>1 DEF Pending, Admitted
    <3>6. host'.step = host.step /\ host'.pc = "wait"
      BY <1>0, <1>2 DEF HostSend, HostType
    <3>7. host.step > 0 => \A j \in Pending : j.call = calls
      BY <1>2 DEF OrderInv, OwnInv, HostSend
    <3>8. UNCHANGED <<mbox, apc, calls>>
      BY <1>2 DEF HostSend
    <3>9. \A j \in Pending' : j.call = calls' => j = Request(host)'
      BY <2>0, <2>1, <3>1
    <3>10. host'.step > 0 => \A j \in Pending' : j.call = calls'
      BY <2>0, <2>1, <3>6, <3>7, RequestMade
    <3> QED
      BY <3>2, <3>4, <3>5, <3>6, <3>8, <3>9, <3>10 DEF OwnInv
  <2>5. HeadInv'
    <3>1. CASE host.step > 0
      <4>1. Pending = {}
        BY <1>2, <3>1 DEF OrderInv, OwnInv, HostSend
      <4>2. sq = <<>> /\ mbox = <<>> /\ apc.pc = "idle"
        BY <1>0, <4>1, Places DEF Pending, Admitted
      <4> QED BY <1>0, <1>2, <2>0, <4>2, Posted DEF HeadInv, HostSend
    <3>2. CASE host.step = 0
      <4>1. ~ Later(Request(host))
        BY <3>2, RequestMade
      <4>2. \A k \in 1 .. Len(sq') : Later(sq'[k]) => k \in 1 .. Len(sq) /\ sq'[k] = sq[k]
        BY <1>0, <1>2, <2>0, <4>1, Posted DEF HostSend
      <4> QED BY <1>2, <4>2 DEF HeadInv, HostSend, OrderInv
    <3> QED BY <2>2, <3>1, <3>2, FlashAssumption
  <2> QED BY <2>3, <2>4, <2>5 DEF OrderInv
<1>3. CASE HostAbandon \/ HostTimeout
  <2>1. host'.pc = "idle" /\ UNCHANGED <<sq, mbox, apc, calls>>
    BY <1>3, IdleTyped DEF HostAbandon, HostTimeout
  <2> QED
    BY <2>1 DEF OrderInv, JobInv, OwnInv, HeadInv, Pending, Admitted
<1> QED BY <1>1, <1>2, <1>3 DEF HostNext

\* What an answer makes of the call, when the queues keep their order.
LEMMA AnsweredOrder ==
  ASSUME TypeOK, OrderInv, NEW job, NEW ok \in BOOLEAN, Answer(job, ok), calls' = calls,
         Pending' \subseteq Pending, HeadInv',
         apc'.pc = "idle" \/ apc' = apc,
         Waits(job) /\ ok => Pending' = {},
         host' = host => OwnInv'
  PROVE  OrderInv'
<1>0. host \in HostType
  BY DEF TypeOK, HostType
<1>1. JobInv'
  <2>1. \A j \in Pending' : j \in Pending
    OBVIOUS
  <2>2. host'.pc # "idle" =>
          /\ host'.step <= LastStep(host')
          /\ host'.op = "pdi" => host'.image \in Images /\ host'.src = host'.part
          /\ host'.op = "fpt" => /\ host'.image \in (Images \ OneChunk) \cup {NoImage}
                                 /\ host'.fpt \in Tables /\ host'.part = P0
          /\ host'.op = "copy" => host'.part # host'.src /\ host'.image = NoImage
    <3>1. host.pc # "idle" =>
          /\ host.step <= LastStep(host)
          /\ host.op = "pdi" => host.image \in Images /\ host.src = host.part
          /\ host.op = "fpt" => /\ host.image \in (Images \ OneChunk) \cup {NoImage}
                                /\ host.fpt \in Tables /\ host.part = P0
          /\ host.op = "copy" => host.part # host.src /\ host.image = NoImage
      BY DEF OrderInv, JobInv
    <3>2. CASE host' = host
      BY <3>1, <3>2 DEF LastStep
    <3>3. CASE /\ Waits(job) /\ host.step < LastStep(host)
               /\ host' = [host EXCEPT !.pc = "send", !.step = host.step + 1]
      <4>1. /\ host'.step = host.step + 1 /\ LastStep(host') = LastStep(host)
            /\ LastStep(host) \in Nat /\ host.step \in Nat
        BY <1>0, <3>3, FlashAssumption DEF HostType, LastStep
      <4>2. host'.step <= LastStep(host')
        BY <3>3, <4>1
      <4> QED BY <1>0, <3>1, <3>3, <4>2 DEF HostType, Waits
    <3> QED BY <3>2, <3>3, Answered DEF OrderInv
  <2> QED BY <2>1, <2>2 DEF OrderInv, JobInv, Later
<1>2. OwnInv'
  <2>1. CASE /\ Waits(job) /\ ok /\ host' = [host EXCEPT !.pc = "send", !.step = host.step + 1]
    BY <1>0, <2>1 DEF OwnInv, HostType
  <2>2. CASE host'.pc = "idle"
    BY <2>2 DEF OwnInv
  <2> QED BY <2>1, <2>2, Answered DEF OrderInv
<1> QED BY <1>1, <1>2 DEF OrderInv

\* Accepting a request, or refusing it, keeps the order.
LEMMA AcceptOrder ==
  ASSUME TypeOK, OrderInv, AmiAccept
  PROVE  OrderInv' /\ Pending' \subseteq Pending
<1>0. /\ sq \in Seq(JobType) /\ mbox \in Seq(JobType) /\ sq # <<>> /\ sq' = Tail(sq)
      /\ UNCHANGED <<calls, apc>>
  BY DEF AmiAccept, TypeOK
<1>1. /\ Head(sq) \in JobType /\ Head(sq) = sq[1] /\ Len(sq') = Len(sq) - 1
      /\ Len(sq) \in Nat \ {0} /\ sq' \in Seq(JobType)
      /\ Head(sq) \in ToSet(sq) /\ ToSet(sq') \subseteq ToSet(sq)
      /\ \A k \in 1 .. Len(sq') : sq'[k] = sq[k + 1]
  BY <1>0, Taken
<1>2. \A k \in 1 .. Len(sq') : ~ Later(sq'[k])
  <2>1. \A k \in 1 .. Len(sq') : k + 1 \in 1 .. Len(sq) /\ k + 1 # 1
    BY <1>1
  <2> QED BY <1>1, <2>1 DEF OrderInv, HeadInv
<1>3. host.pc = "wait" => \A k \in 1 .. Len(sq') : sq'[k].call = calls => k = Len(sq')
  <2>1. ASSUME host.pc = "wait", NEW k \in 1 .. Len(sq'), sq'[k].call = calls
        PROVE  k = Len(sq')
    <3>1. k + 1 \in 1 .. Len(sq) /\ sq[k + 1].call = calls
      BY <1>1, <2>1
    <3>2. k + 1 = Len(sq)
      BY <2>1, <3>1 DEF OrderInv, OwnInv
    <3> QED BY <1>1, <2>1, <3>2
  <2> QED BY <2>1
<1>4. host.pc = "wait" => /\ ~ (apc.pc # "idle" /\ apc.job.call = calls)
                          /\ \A k \in 1 .. Len(mbox) : mbox[k].call # calls
  BY <1>0 DEF OrderInv, OwnInv
<1>5. CASE Accepted(Head(sq))
  <2>0. mbox' = Append(mbox, Head(sq)) /\ host' = host
    BY <1>5 DEF AmiAccept
  <2>1. /\ ToSet(mbox') = ToSet(mbox) \cup {Head(sq)} /\ Len(mbox') = Len(mbox) + 1
        /\ \A k \in 1 .. Len(mbox) : mbox'[k] = mbox[k]
        /\ mbox'[Len(mbox) + 1] = Head(sq) /\ Len(mbox) \in Nat
    BY <1>0, <1>1, <2>0, Posted
  <2>2. Pending' \subseteq Pending
    BY <1>0, <1>1, <2>1 DEF Pending, Admitted
  <2>3. JobInv'
    BY <1>0, <2>0, <2>2 DEF OrderInv, JobInv
  <2>4. \A k \in 1 .. Len(mbox') : k \in 1 .. Len(mbox) \/ k = Len(mbox) + 1
    BY <2>1
  <2>5. ASSUME host.pc = "wait", NEW k \in 1 .. Len(mbox'), mbox'[k].call = calls
        PROVE  k = Len(mbox') /\ sq' = <<>>
    <3>1. k = Len(mbox) + 1 /\ sq[1].call = calls
      BY <1>1, <1>4, <2>1, <2>4, <2>5
    <3>2. 1 = Len(sq)
      BY <1>1, <2>5, <3>1 DEF OrderInv, OwnInv
    <3>3. sq' \in Seq(JobType)
      BY <1>1
    <3>4. Len(sq') = Len(sq) - 1
      BY <1>1
    <3>5. Len(sq') = 0
      BY <3>2, <3>4
    <3>6. sq' = <<>>
      BY <3>3, <3>5
    <3> QED BY <2>1, <3>1, <3>6
  <2>6. OwnInv'
    <3>1. Request(host)' = Request(host)
      BY <1>0, <2>0 DEF Request
    <3> QED BY <1>0, <1>3, <1>4, <2>0, <2>2, <2>5, <3>1 DEF OrderInv, OwnInv
  <2>7. ASSUME NEW k \in 1 .. Len(mbox'), Later(mbox'[k])
        PROVE  k = 1 /\ apc.pc = "idle"
    <3>1. CASE k \in 1 .. Len(mbox)
      BY <2>1, <2>7, <3>1 DEF OrderInv, HeadInv
    <3>2. CASE k = Len(mbox) + 1
      <4>1. mbox = <<>> /\ apc.pc = "idle"
        BY <1>1, <2>1, <2>7, <3>2 DEF OrderInv, HeadInv
      <4> QED BY <3>2, <4>1
    <3> QED BY <2>4, <3>1, <3>2
  <2>8. HeadInv'
    BY <1>0, <1>2, <2>7 DEF HeadInv
  <2> QED BY <2>2, <2>3, <2>6, <2>8 DEF OrderInv
<1>6. CASE ~ Accepted(Head(sq))
  <2>0. Answer(Head(sq), FALSE) /\ mbox' = mbox
    BY <1>6 DEF AmiAccept
  <2>1. Pending' \subseteq Pending
    BY <1>0, <1>1, <2>0 DEF Pending, Admitted
  <2>2. HeadInv'
    BY <1>0, <1>2, <2>0 DEF OrderInv, HeadInv
  <2>3. host' = host => OwnInv'
    <3>1. ASSUME host' = host PROVE OwnInv'
      <4>1. Request(host)' = Request(host)
        BY <1>0, <3>1 DEF Request
      <4> QED BY <1>0, <1>3, <1>4, <2>0, <2>1, <3>1, <4>1 DEF OrderInv, OwnInv
    <3> QED BY <3>1
  <2> QED BY <1>0, <2>0, <2>1, <2>2, <2>3, AnsweredOrder
<1> QED BY <1>5, <1>6

\* Taking a request from the mailbox keeps the order.
LEMMA PendOrder ==
  ASSUME TypeOK, OrderInv, ApcPend
  PROVE  OrderInv' /\ Pending' \subseteq Pending
<1>0. /\ sq \in Seq(JobType) /\ mbox \in Seq(JobType) /\ mbox # <<>> /\ mbox' = Tail(mbox)
      /\ UNCHANGED <<calls, sq>> /\ apc.pc = "idle"
  BY DEF ApcPend, TypeOK
<1>1. /\ Head(mbox) \in JobType /\ Head(mbox) = mbox[1] /\ Len(mbox') = Len(mbox) - 1
      /\ Len(mbox) \in Nat \ {0} /\ mbox' \in Seq(JobType)
      /\ Head(mbox) \in ToSet(mbox) /\ ToSet(mbox') \subseteq ToSet(mbox)
      /\ \A k \in 1 .. Len(mbox') : mbox'[k] = mbox[k + 1]
  BY <1>0, Taken
<1>2. /\ \A k \in 1 .. Len(mbox') : ~ Later(mbox'[k])
      /\ \A k \in 1 .. Len(sq) : ~ Later(sq[k])
  <2>1. \A k \in 1 .. Len(mbox') : k + 1 \in 1 .. Len(mbox) /\ k + 1 # 1
    BY <1>1
  <2> QED BY <1>0, <1>1, <2>1 DEF OrderInv, HeadInv
<1>3. HeadInv'
  BY <1>0, <1>2 DEF HeadInv
<1>4. host.pc = "wait" =>
        \A k \in 1 .. Len(mbox') : mbox'[k].call = calls => k = Len(mbox') /\ sq = <<>>
  <2>1. ASSUME host.pc = "wait", NEW k \in 1 .. Len(mbox'), mbox'[k].call = calls
        PROVE  k = Len(mbox') /\ sq = <<>>
    <3>1. k + 1 \in 1 .. Len(mbox) /\ mbox[k + 1].call = calls
      BY <1>1, <2>1
    <3>2. k + 1 = Len(mbox) /\ sq = <<>>
      BY <2>1, <3>1 DEF OrderInv, OwnInv
    <3> QED BY <1>1, <2>1, <3>2
  <2> QED BY <2>1
<1>5. host.pc = "wait" /\ Head(mbox).call = calls => mbox' = <<>> /\ sq = <<>>
  <2>1. ASSUME host.pc = "wait", Head(mbox).call = calls
        PROVE  mbox' = <<>> /\ sq = <<>>
    <3>1. 1 = Len(mbox) /\ sq = <<>>
      BY <1>1, <2>1 DEF OrderInv, OwnInv
    <3>2. mbox' \in Seq(JobType)
      BY <1>1
    <3>3. Len(mbox') = Len(mbox) - 1
      BY <1>1
    <3>4. Len(mbox') = 0
      BY <3>1, <3>3
    <3> QED BY <3>1, <3>2, <3>4
  <2> QED BY <2>1
<1>6. CASE Head(mbox).op # "fpt" /\ table = "torn"
  <2>0. Answer(Head(mbox), FALSE) /\ apc' = apc
    BY <1>6 DEF ApcPend
  <2>1. Pending' \subseteq Pending
    BY <1>0, <1>1, <2>0 DEF Pending, Admitted
  <2>2. host' = host => OwnInv'
    <3>1. ASSUME host' = host PROVE OwnInv'
      <4>1. Request(host)' = Request(host)
        BY <1>0, <3>1 DEF Request
      <4> QED BY <1>0, <1>4, <2>0, <2>1, <3>1, <4>1 DEF OrderInv, OwnInv
    <3> QED BY <3>1
  <2> QED BY <1>0, <1>3, <2>0, <2>1, <2>2, AnsweredOrder
<1>8. CASE ~ (Head(mbox).op # "fpt" /\ table = "torn") /\ ~ Found(Head(mbox))
  <2>0. host' = host /\ apc' = apc
    BY <1>8 DEF ApcPend
  <2>1. Pending' \subseteq Pending
    BY <1>0, <1>1, <2>0 DEF Pending, Admitted
  <2>2. JobInv'
    BY <1>0, <2>0, <2>1 DEF OrderInv, JobInv
  <2>3. OwnInv'
    <3>1. Request(host)' = Request(host)
      BY <1>0, <2>0 DEF Request
    <3> QED BY <1>0, <1>4, <2>0, <2>1, <3>1 DEF OrderInv, OwnInv
  <2> QED BY <1>3, <2>1, <2>2, <2>3 DEF OrderInv
<1>7. CASE ~ (Head(mbox).op # "fpt" /\ table = "torn") /\ Found(Head(mbox))
  <2>0. /\ apc' = [IdleApc EXCEPT !.pc = IF Head(mbox).op = "copy" THEN "read" ELSE "erase",
                                  !.job = Head(mbox)]
        /\ host' = host
    BY <1>7 DEF ApcPend
  <2>1. /\ apc'.pc = (IF Head(mbox).op = "copy" THEN "read" ELSE "erase")
        /\ apc'.job = Head(mbox) /\ apc'.step = 0
    BY <2>0 DEF IdleApc
  <2>2. Pending' \subseteq Pending
    BY <1>0, <1>1, <2>1 DEF Pending, Admitted
  <2>3. JobInv'
    BY <1>0, <2>0, <2>1, <2>2 DEF OrderInv, JobInv
  <2>4. OwnInv'
    <3>1. Request(host)' = Request(host)
      BY <1>0, <2>0 DEF Request
    <3> QED BY <1>0, <1>4, <1>5, <2>0, <2>1, <2>2, <3>1 DEF OrderInv, OwnInv
  <2> QED BY <1>3, <2>2, <2>3, <2>4 DEF OrderInv
<1> QED BY <1>6, <1>7, <1>8

\* So does the work on a request, as long as it is not over.
LEMMA WorkOrder ==
  ASSUME OrderInv, apc.pc # "idle", apc'.pc # "idle", apc'.job = apc.job,
         UNCHANGED <<host, sq, mbox, calls>>,
         apc'.pc = "refresh" => apc.job.op = "fpt" /\ apc.job.last,
         apc'.pc = "read" => apc.job.op = "copy",
         apc.job.op = "copy" /\ apc'.tag = "none" => apc'.pc = "read" /\ apc'.step = 0
  PROVE  OrderInv' /\ Pending' = Pending
<1>1. Pending' = Pending
  BY DEF Pending, Admitted
<1>2. Request(host)' = Request(host)
  BY DEF Request
<1>3. JobInv'
  BY <1>1 DEF OrderInv, JobInv
<1>4. OwnInv'
  BY <1>1, <1>2 DEF OrderInv, OwnInv
<1>5. HeadInv'
  BY DEF OrderInv, HeadInv
<1> QED BY <1>1, <1>3, <1>4, <1>5 DEF OrderInv

\* A request that is over was the last of its call: while the call waits for
\* it there are no others.
LEMMA FinishOrder ==
  ASSUME TypeOK, OrderInv, apc.pc # "idle", NEW ok \in BOOLEAN, Finish(ok),
         UNCHANGED <<sq, mbox, calls>>
  PROVE  /\ OrderInv' /\ Pending' \subseteq Pending
         /\ Waits(apc.job) => Pending' = {} /\ sq = <<>> /\ mbox = <<>>
<1>0. apc'.pc = "idle" /\ Answer(apc.job, ok)
  BY IdleTyped DEF Finish
<1>1. Pending' = ToSet(sq) \cup ToSet(mbox)
  BY <1>0 DEF Pending, Admitted
<1>2. Waits(apc.job) => sq = <<>> /\ mbox = <<>>
  BY DEF Waits, OrderInv, OwnInv
<1>3. HeadInv'
  BY <1>0 DEF OrderInv, HeadInv
<1>4. host' = host => OwnInv'
  <2>1. ASSUME host' = host PROVE OwnInv'
    <3>1. Request(host)' = Request(host)
      BY <2>1 DEF Request
    <3>2. Pending' \subseteq Pending
      BY <1>1 DEF Pending, Admitted
    <3> QED BY <1>0, <2>1, <3>1, <3>2 DEF OrderInv, OwnInv
  <2> QED BY <2>1
<1>5. Pending' \subseteq Pending
  BY <1>1 DEF Pending, Admitted
<1>6. Waits(apc.job) => Pending' = {}
  BY <1>1, <1>2, NoPlaces
<1> QED BY <1>0, <1>2, <1>3, <1>4, <1>5, <1>6, AnsweredOrder

\* The APC task keeps the order.
LEMMA ApcOrder ==
  ASSUME TypeOK, OrderInv, ApcNext
  PROVE  OrderInv' /\ Pending' \subseteq Pending
<1>0. apc \in ApcType
  BY DEF TypeOK, ApcType
<1>1. CASE ApcPend
  BY <1>1, PendOrder
<1>2. CASE CopyRead
  <2>1. apc'.pc = "erase" /\ apc'.job = apc.job
        /\ (apc'.tag = "none" => apc.step # 0 /\ apc.tag = "none")
    <3>1. apc.step = 0 => flash[<<apc.job.src, apc.step>>][0].word # "none"
      <4>1. <<apc.job.src, 0>> \in Sectors
        BY <1>0, PiecesTyped DEF Sectors, ApcType, JobType
      <4>2. flash[<<apc.job.src, 0>>] \in [PageIds -> PageType]
        BY <4>1 DEF TypeOK
      <4>3. flash[<<apc.job.src, 0>>][0].word \in {"tag", "invalid", "data", "erased"}
        BY <4>2, PiecesTyped DEF PageType
      <4> QED BY <4>3
    <3> QED BY <1>0, <1>2, <3>1 DEF CopyRead, ApcType
  <2>2. apc.tag = "none" => apc.step = 0
    BY <1>2 DEF OrderInv, JobInv, CopyRead
  <2> QED BY <1>2, <2>1, <2>2, WorkOrder DEF CopyRead
<1>3. CASE CopyRetag
  <2>1. CASE ram'[0] = flash[<<apc.job.src, 0>>]
    <3>1. apc'.pc = "erase" /\ apc'.job = apc.job /\ apc'.tag = apc.tag
      BY <1>0, <1>3, <2>1 DEF CopyRetag, ApcType
    <3>2. apc.tag # "none"
      BY <1>0, <1>3, FlashAssumption DEF OrderInv, JobInv, CopyRetag, ApcType
    <3> QED BY <1>3, <2>1, <3>1, <3>2, WorkOrder DEF CopyRetag
  <2>2. CASE ram'[0] # flash[<<apc.job.src, 0>>]
    BY <1>3, <2>2, FinishOrder DEF CopyRetag
  <2> QED BY <2>1, <2>2
<1>4. CASE Erase
  <2>1. apc'.pc = "write" /\ apc'.job = apc.job /\ apc'.tag = apc.tag
    BY <1>0, <1>4 DEF Erase, ApcType
  <2>2. apc.job.op = "copy" => apc.tag # "none"
    BY <1>4 DEF OrderInv, JobInv, Erase
  <2> QED BY <1>4, <2>1, <2>2, WorkOrder DEF Erase
<1>5. CASE FlashFails
  BY <1>5, FinishOrder DEF FlashFails
<1>6. CASE WritePage \/ (WritePageFails /\ apc.page < LastPage)
  <2>1. apc'.pc \in {"write", "readback"} /\ apc'.job = apc.job /\ apc'.tag = apc.tag
    BY <1>0, <1>6 DEF WritePage, WritePageFails, ApcType
  <2>2. apc.job.op = "copy" => apc.tag # "none"
    BY <1>6 DEF OrderInv, JobInv, WritePage, WritePageFails
  <2> QED BY <1>6, <2>1, <2>2, WorkOrder DEF WritePage, WritePageFails
<1>7. CASE WritePageFails /\ ~ (apc.page < LastPage)
  BY <1>7, FinishOrder DEF WritePageFails
<1>8. CASE Verify
  <2>0. apc.job.op = "copy" => apc.tag # "none"
    BY <1>8 DEF OrderInv, JobInv, Verify
  <2>1. CASE Finish(TRUE) \/ Finish(FALSE)
    BY <1>8, <2>1, FinishOrder DEF Verify
  <2>2. CASE /\ apc.job.op = "copy" /\ apc.step < Chunks
             /\ apc' = [apc EXCEPT !.pc = "read", !.step = @ + 1]
             /\ UNCHANGED <<host, promised>>
    <3>1. apc'.pc = "read" /\ apc'.job = apc.job /\ apc'.tag = apc.tag
      BY <1>0, <2>2 DEF ApcType
    <3> QED BY <1>8, <2>0, <2>2, <3>1, WorkOrder DEF Verify
  <2>3. CASE /\ apc.job.op = "fpt" /\ apc.job.last /\ apc' = [apc EXCEPT !.pc = "refresh"]
             /\ UNCHANGED <<host, promised>>
    <3>1. apc'.pc = "refresh" /\ apc'.job = apc.job /\ apc'.tag = apc.tag
      BY <1>0, <2>3 DEF ApcType
    <3> QED BY <1>8, <2>0, <2>3, <3>1, WorkOrder DEF Verify
  <2> QED BY <1>8, <2>1, <2>2, <2>3 DEF Verify
<1>9. CASE Refresh
  <2>1. HeaderValid(flash[FptSector]) \in BOOLEAN
    BY DEF HeaderValid
  <2> QED BY <1>9, <2>1, FinishOrder DEF Refresh
<1>10. CASE ReadBack
  <2>0. apc.job.op = "copy" => apc.tag # "none"
    BY <1>10 DEF OrderInv, JobInv, ReadBack
  <2>1. CASE Finish(FALSE)
    BY <1>10, <2>1, FinishOrder DEF ReadBack
  <2>2. CASE apc' = [apc EXCEPT !.pc = "verify"] /\ UNCHANGED <<host, promised>>
    <3>1. apc'.pc = "verify" /\ apc'.job = apc.job /\ apc'.tag = apc.tag
      BY <1>0, <2>2 DEF ApcType
    <3> QED BY <1>10, <2>0, <2>2, <3>1, WorkOrder DEF ReadBack
  <2> QED BY <1>10, <2>1, <2>2 DEF ReadBack
<1> QED
  BY <1>1, <1>2, <1>3, <1>4, <1>5, <1>6, <1>7, <1>8, <1>9, <1>10 DEF ApcNext

\* After a reset nothing is pending.
LEMMA ResetOrder ==
  ASSUME TypeOK, OrderInv, AmcReset
  PROVE  /\ OrderInv' /\ Pending' = {} /\ Admitted' = {}
         /\ sq' = <<>> /\ mbox' = <<>> /\ apc'.pc = "idle" /\ host' = host
<1>1. /\ sq' = <<>> /\ mbox' = <<>> /\ apc'.pc = "idle" /\ host' = host /\ calls' = calls
  BY IdleTyped DEF AmcReset
<1>2. Pending' = {} /\ Admitted' = {}
  BY <1>1, NoPlaces DEF Pending, Admitted
<1>3. JobInv'
  BY <1>1, <1>2 DEF OrderInv, JobInv
<1>4. OwnInv'
  BY <1>1, <1>2 DEF OrderInv, OwnInv
<1>5. HeadInv'
  BY <1>1 DEF OrderInv, HeadInv
<1> QED BY <1>1, <1>2, <1>3, <1>4, <1>5 DEF OrderInv

\* Every step keeps the order.
LEMMA OrderKept ==
  ASSUME TypeOK, OrderInv, [Next]_vars
  PROVE  OrderInv'
<1>1. CASE UNCHANGED vars
  BY <1>1 DEF vars, OrderInv, JobInv, OwnInv, HeadInv, Pending, Admitted, Later, Request
<1> QED BY <1>1, HostOrder, AcceptOrder, ApcOrder, ResetOrder DEF Next

-----------------------------------------------------------------------------
(* The partition table.                                                    *)

\* The sector of the FPT is written by the first request of an update alone.
LEMMA TargetIs ==
  ASSUME TypeOK, apc.pc # "idle"
  PROVE  Target = FptSector <=> apc.job.op = "fpt" /\ apc.job.chunk = 0
<1>1. apc.job.part \in Parts /\ apc.job.chunk \in 0 .. Chunks /\ P0 # NoPart
      /\ apc.job.part # NoPart
  BY FlashAssumption DEF TypeOK, JobType
<1> QED BY <1>1 DEF Target, FptSector, Packet

\* While an update is beyond it nothing works on that sector.
LEMMA FptUntouched ==
  ASSUME TypeOK, OrderInv, apc.pc # "idle",
         \/ \E j \in Pending : LaterFpt(j)
         \/ host.pc # "idle" /\ host.op = "fpt" /\ host.step > 0
  PROVE  Target # FptSector
<1>0. host \in HostType /\ sq \in Seq(JobType) /\ mbox \in Seq(JobType) /\ apc.job \in Pending
      /\ apc.job \in JobType
  BY DEF TypeOK, HostType, Pending, Admitted
<1>1. CASE \E j \in Pending : LaterFpt(j)
  <2>1. PICK j \in Pending : LaterFpt(j)
    BY <1>1
  <2>2. j \notin ToSet(sq) /\ j \notin ToSet(mbox)
    <3>1. \A k \in 1 .. Len(sq) : ~ Later(sq[k])
      BY DEF OrderInv, HeadInv
    <3>2. \A k \in 1 .. Len(mbox) : ~ Later(mbox[k])
      BY DEF OrderInv, HeadInv
    <3> QED BY <1>0, <2>1, <3>1, <3>2, Places DEF LaterFpt
  <2>3. LaterFpt(apc.job)
    BY <2>1, <2>2 DEF Pending, Admitted
  <2>4. apc.job.chunk > 0
    BY <1>0, <2>3 DEF LaterFpt, OrderInv, JobInv
  <2> QED BY <2>4, TargetIs
<1>2. CASE host.pc # "idle" /\ host.op = "fpt" /\ host.step > 0
  <2>1. apc.job.call = calls
    BY <1>0, <1>2 DEF OrderInv, OwnInv
  <2>2. host.pc = "wait"
    BY <1>0, <1>2, <2>1 DEF OrderInv, OwnInv, HostType
  <2>3. apc.job = Request(host)
    BY <1>0, <2>1, <2>2 DEF OrderInv, OwnInv
  <2>4. apc.job.chunk > 0
    BY <1>2, <2>3, RequestMade
  <2> QED BY <2>4, TargetIs
<1> QED BY <1>1, <1>2

\* A step that neither accepts a request nor loads the table keeps it true to
\* the flash if it leaves the sector alone where that matters.
LEMMA TableKept ==
  ASSUME TypeOK, QueueInv, table' = table, valid' = valid,
         Pending' \subseteq Pending, Admitted' \subseteq Admitted,
         ToSet(mbox') \subseteq ToSet(mbox), apc'.pc # "refresh" \/ apc.pc = "refresh",
         host'.pc = "idle" \/ host' = host,
         \/ apc.pc = "refresh" \/ \E j \in Pending : LaterFpt(j)
         \/ host.pc # "idle" /\ host.op = "fpt" /\ host.step > 0
         => flash'[FptSector] = flash[FptSector]
  PROVE  TableInv'
<1>1. /\ valid => table # "none"
      /\ \/ apc.pc = "refresh" \/ \E j \in Pending : LaterFpt(j)
         \/ host.pc # "idle" /\ host.op = "fpt" /\ host.step > 0
         => (valid => HeaderValid(flash[FptSector]) /\ table = TableOf(flash[FptSector]))
      /\ ~ valid /\ (\E j \in Admitted : LaterFpt(j)) => \A j \in ToSet(mbox) : j.op = "fpt"
  BY DEF QueueInv, TableInv
<1>2. \/ apc'.pc = "refresh" \/ \E j \in Pending' : LaterFpt(j)
      \/ host'.pc # "idle" /\ host'.op = "fpt" /\ host'.step > 0
      => (valid' => HeaderValid(flash'[FptSector]) /\ table' = TableOf(flash'[FptSector]))
  BY <1>1
<1>3. ~ valid' /\ (\E j \in Admitted' : LaterFpt(j)) => \A j \in ToSet(mbox') : j.op = "fpt"
  BY <1>1
<1> QED BY <1>1, <1>2, <1>3 DEF TableInv

\* A step that neither takes nor accepts a request leaves the mailbox in order.
LEMMA BareKept ==
  ASSUME QueueInv, UNCHANGED <<table, mbox, dead, bare>>,
         apc'.pc = "idle" \/ (apc.pc # "idle" /\ apc'.job = apc.job)
  PROVE  BareInv'
<1>1. Admitted' \subseteq Admitted
  BY DEF Admitted
<1>2. \A j \in Admitted' : Found(j)' <=> Found(j)
  BY DEF Found, HasEntry
<1> QED BY <1>1, <1>2 DEF QueueInv, BareInv

\* The driver leaves the table alone.
LEMMA HostTable ==
  ASSUME TypeOK, QueueInv, HostNext
  PROVE  TableInv' /\ BareInv'
<1>0. host \in HostType /\ table' = table /\ valid' = valid /\ flash' = flash
      /\ mbox' = mbox /\ apc' = apc
  BY DEF TypeOK, HostType, HostNext, HostCall, Start, HostSend, HostAbandon, HostTimeout
<1>1. Admitted' = Admitted /\ ToSet(mbox') = ToSet(mbox)
  BY <1>0 DEF Admitted
<1>5. BareInv'
  <2>1. dead' = dead /\ bare' = bare
    BY DEF HostNext, HostCall, Start, HostSend, HostAbandon, HostTimeout
  <2> QED BY <1>0, <2>1, BareKept
<1>2. CASE HostCall
  <2>1. sq' = sq /\ host'.step = 0
    <3>1. ASSUME NEW op, NEW q, NEW s, NEW i, NEW f, Start(op, q, s, i, f)
          PROVE  sq' = sq /\ host'.step = 0
      BY <3>1 DEF Start
    <3> QED BY <1>2, <3>1 DEF HostCall
  <2>2. Pending' = Pending
    BY <1>0, <2>1 DEF Pending, Admitted
  <2> QED BY <1>0, <1>1, <1>5, <2>1, <2>2 DEF QueueInv, TableInv
<1>3. CASE HostSend
  <2>1. Pending' = Pending \cup {Request(host)}
    BY <1>3, SentIsPending DEF QueueInv
  <2>2. LaterFpt(Request(host)) => host.pc # "idle" /\ host.op = "fpt" /\ host.step > 0
    BY <1>3, RequestMade DEF LaterFpt, HostSend
  <2>3. host'.op = host.op /\ host'.step = host.step /\ host.pc # "idle"
    BY <1>0, <1>3 DEF HostSend, HostType
  <2>4. \/ apc'.pc = "refresh" \/ \E j \in Pending' : LaterFpt(j)
        \/ host'.pc # "idle" /\ host'.op = "fpt" /\ host'.step > 0
        => \/ apc.pc = "refresh" \/ \E j \in Pending : LaterFpt(j)
           \/ host.pc # "idle" /\ host.op = "fpt" /\ host.step > 0
    BY <1>0, <2>1, <2>2, <2>3
  <2> QED BY <1>0, <1>1, <1>5, <2>4 DEF QueueInv, TableInv
<1>4. CASE HostAbandon \/ HostTimeout
  <2>1. host'.pc = "idle" /\ sq' = sq
    BY <1>4, IdleTyped DEF HostAbandon, HostTimeout
  <2>2. Pending' = Pending
    BY <1>0, <2>1 DEF Pending, Admitted
  <2> QED BY <1>0, <1>1, <1>5, <2>1, <2>2, TableKept
<1> QED BY <1>2, <1>3, <1>4, <1>5 DEF HostNext

\* What is accepted while the table is invalid is an update of it.
LEMMA AcceptTable ==
  ASSUME TypeOK, QueueInv, AmiAccept
  PROVE  TableInv' /\ BareInv'
<1>0. /\ UNCHANGED <<flash, table, valid, apc>> /\ Pending' \subseteq Pending
      /\ sq \in Seq(JobType) /\ mbox \in Seq(JobType) /\ sq # <<>>
      /\ Head(sq) \in JobType /\ Head(sq) = sq[1] /\ 1 \in 1 .. Len(sq)
  <2>1. /\ UNCHANGED <<flash, table, valid, apc>>
        /\ sq \in Seq(JobType) /\ mbox \in Seq(JobType) /\ sq # <<>>
    BY DEF AmiAccept, TypeOK
  <2>2. Pending' \subseteq Pending
    BY AcceptOrder DEF QueueInv, OrderInv
  <2>3. Head(sq) \in JobType /\ Head(sq) = sq[1] /\ Len(sq) \in Nat \ {0}
    BY <2>1, Taken
  <2>4. 1 \in 1 .. Len(sq)
    BY <2>3
  <2> QED BY <2>1, <2>2, <2>3, <2>4
<1>1. CASE Accepted(Head(sq))
  <2>1. mbox' = Append(mbox, Head(sq)) /\ host' = host
        /\ (Head(sq).op # "fpt" => valid) /\ Found(Head(sq)) /\ dead' = dead
        /\ bare' = (bare \/ (Head(sq).op # "fpt" /\ \E j \in Admitted : Single(j)))
    BY <1>1 DEF AmiAccept, Accepted, Wanted
  <2>2. ToSet(mbox') = ToSet(mbox) \cup {Head(sq)}
    BY <1>0, <2>1, Posted
  <2>3. Admitted' = Admitted \cup {Head(sq)}
    BY <1>0, <2>2 DEF Admitted
  <2>4. BareInv'
    <3>1. ASSUME ~ bare' PROVE ~ bare /\ ~ dead /\ (Head(sq).op = "fpt" \/ \A j \in Admitted : ~ Single(j))
      BY <2>1, <3>1 DEF QueueInv, BareInv
    <3>2. ASSUME ~ bare' PROVE \A j \in Admitted' : Found(j)'
      <4>1. \A j : Found(j)' <=> Found(j)
        BY <1>0 DEF Found, HasEntry
      <4> QED BY <2>1, <2>3, <3>1, <3>2, <4>1 DEF QueueInv, BareInv
    <3>3. ASSUME ~ bare', apc'.pc # "idle", Single(apc'.job)
          PROVE  \A j \in ToSet(mbox') : j.op = "fpt"
      <4>1. apc.job \in Admitted /\ apc' = apc
        BY <1>0, <3>3 DEF Admitted
      <4> QED BY <2>2, <3>1, <3>3, <4>1 DEF QueueInv, BareInv
    <3>4. ASSUME ~ bare', NEW k \in 1 .. Len(mbox'), NEW l \in 1 .. Len(mbox'), k < l, Single(mbox'[k])
          PROVE  mbox'[l].op = "fpt"
      <4>1. /\ Len(mbox') = Len(mbox) + 1 /\ Len(mbox) \in Nat /\ mbox'[Len(mbox) + 1] = Head(sq)
            /\ \A i \in 1 .. Len(mbox) : mbox'[i] = mbox[i] /\ mbox[i] \in ToSet(mbox)
        BY <1>0, <2>1, Posted, Places
      <4>2. k \in 1 .. Len(mbox) /\ mbox[k] \in Admitted /\ Single(mbox[k])
        BY <3>4, <4>1 DEF Admitted
      <4>3. CASE l \in 1 .. Len(mbox)
        BY <3>1, <3>4, <4>1, <4>2, <4>3 DEF QueueInv, BareInv
      <4>4. CASE l = Len(mbox) + 1
        BY <3>1, <3>4, <4>1, <4>2, <4>4
      <4> QED BY <4>1, <4>3, <4>4
    <3>5. dead' => bare' /\ apc'.pc = "idle"
      BY <1>0, <2>1 DEF QueueInv, BareInv
    <3> QED BY <3>2, <3>3, <3>4, <3>5 DEF BareInv
  <2>5. ASSUME ~ valid, NEW j \in Admitted', LaterFpt(j)
        PROVE  \A i \in ToSet(mbox') : i.op = "fpt"
    <3>1. CASE j \in Admitted
      BY <2>1, <2>2, <2>5, <3>1 DEF QueueInv, TableInv
    <3>2. CASE j = Head(sq)
      <4>1. mbox = <<>>
        BY <1>0, <2>5, <3>2 DEF QueueInv, HeadInv, LaterFpt
      <4> QED BY <2>2, <2>5, <3>2, <4>1, NoPlaces DEF LaterFpt
    <3> QED BY <2>3, <3>1, <3>2
  <2>6. valid' => table' # "none"
    BY <1>0 DEF QueueInv, TableInv
  <2>7. \/ apc'.pc = "refresh" \/ \E j \in Pending' : LaterFpt(j)
        \/ host'.pc # "idle" /\ host'.op = "fpt" /\ host'.step > 0
        => (valid' => HeaderValid(flash'[FptSector]) /\ table' = TableOf(flash'[FptSector]))
    BY <1>0, <2>1 DEF QueueInv, TableInv
  <2> QED BY <1>0, <2>4, <2>5, <2>6, <2>7 DEF TableInv
<1>2. CASE ~ Accepted(Head(sq))
  <2>1. mbox' = mbox /\ Answer(Head(sq), FALSE) /\ dead' = dead /\ bare' = bare
    BY <1>2 DEF AmiAccept
  <2>2. host'.pc = "idle" \/ host' = host
    BY <2>1, Answered DEF QueueInv
  <2>3. Admitted' = Admitted
    BY <1>0, <2>1 DEF Admitted
  <2> QED BY <1>0, <2>1, <2>2, <2>3, TableKept, BareKept
<1> QED BY <1>1, <1>2

\* What is taken from the mailbox has its entries, and the others move up.
LEMMA PendBare ==
  ASSUME TypeOK, QueueInv, ApcPend
  PROVE  BareInv'
<1>1. /\ mbox \in Seq(JobType) /\ mbox # <<>> /\ mbox' = Tail(mbox) /\ apc.pc = "idle"
      /\ table' = table /\ bare' = bare /\ (dead' <=> ~ Found(Head(mbox)))
  BY DEF ApcPend, TypeOK, Found
<1>2. /\ Head(mbox) = mbox[1] /\ Len(mbox) \in Nat \ {0} /\ Len(mbox') = Len(mbox) - 1
      /\ Head(mbox) \in ToSet(mbox) /\ ToSet(mbox') \subseteq ToSet(mbox)
      /\ \A k \in 1 .. Len(mbox') : mbox'[k] = mbox[k + 1]
      /\ mbox' \in Seq(JobType)
  BY <1>1, Taken
<1>3. apc'.pc = "idle" \/ apc'.job = Head(mbox)
  BY <1>1 DEF ApcPend, IdleApc
<1>11. dead' => apc'.pc = "idle"
  BY <1>1 DEF ApcPend, Found
<1>4. SUFFICES ASSUME ~ bare PROVE BareInv'
  BY <1>1, <1>11 DEF BareInv
<1>5. /\ \A j \in ToSet(mbox) : Found(j)
      /\ \A k, l \in 1 .. Len(mbox) : k < l /\ Single(mbox[k]) => mbox[l].op = "fpt"
  BY <1>4 DEF QueueInv, BareInv, Admitted
<1>6. \A j \in Admitted' : Found(j)'
  <2>1. Admitted' \subseteq ToSet(mbox)
    BY <1>2, <1>3 DEF Admitted
  <2> QED BY <1>1, <1>5, <2>1 DEF Found, HasEntry
<1>7. \A k \in 1 .. Len(mbox') : k + 1 \in 1 .. Len(mbox) /\ 1 < k + 1 /\ 1 \in 1 .. Len(mbox)
  BY <1>2
<1>8. ASSUME apc'.pc # "idle", Single(apc'.job)
      PROVE  \A j \in ToSet(mbox') : j.op = "fpt"
  <2>1. Single(mbox[1])
    BY <1>2, <1>3, <1>8
  <2>2. \A k \in 1 .. Len(mbox') : mbox'[k].op = "fpt"
    BY <1>2, <1>5, <1>7, <2>1
  <2> QED BY <1>2, <2>2, Places
<1>9. ASSUME NEW k \in 1 .. Len(mbox'), NEW l \in 1 .. Len(mbox'), k < l, Single(mbox'[k])
      PROVE  mbox'[l].op = "fpt"
  <2>1. k + 1 < l + 1
    BY <1>9
  <2> QED BY <1>2, <1>5, <1>7, <1>9, <2>1
<1>10. ~ dead'
  BY <1>1, <1>2, <1>5
<1> QED BY <1>6, <1>8, <1>9, <1>10 DEF BareInv

\* The APC task loads the table, and makes it invalid, as the flash is.
LEMMA ApcTable ==
  ASSUME TypeOK, QueueInv, ApcNext
  PROVE  TableInv' /\ BareInv'
<1>0. /\ apc \in ApcType /\ mbox \in Seq(JobType) /\ OrderInv /\ JobInv
      /\ Pending' \subseteq Pending
      /\ \A ok \in BOOLEAN : Finish(ok) => apc'.pc = "idle"
  BY ApcOrder, IdleTyped DEF TypeOK, ApcType, QueueInv, OrderInv, Finish
<1>1. ASSUME mbox' = mbox, apc.pc # "idle",
             apc'.pc = "idle" \/ apc'.job = apc.job
      PROVE  ToSet(mbox') \subseteq ToSet(mbox) /\ Admitted' \subseteq Admitted
  BY <1>1 DEF Admitted
<1>2. ASSUME NEW job, Answer(job, FALSE) \/ host' = host
      PROVE  host'.pc = "idle" \/ host' = host
  <2>1. CASE Answer(job, FALSE)
    BY <1>0, <2>1, Answered
  <2> QED BY <1>2, <2>1
<1>3. CASE ApcPend
  <2>1. /\ Head(mbox) \in ToSet(mbox) /\ ToSet(mbox') \subseteq ToSet(mbox)
    BY <1>0, <1>3, Taken DEF ApcPend
  <2>2. apc' = apc \/ apc'.job = Head(mbox)
    BY <1>3 DEF ApcPend, IdleApc
  <2>3. Admitted' \subseteq Admitted
    BY <1>3, <2>1, <2>2 DEF Admitted, ApcPend
  <2>4. host'.pc = "idle" \/ host' = host
    BY <1>2, <1>3 DEF ApcPend
  <2>5. apc'.pc # "refresh"
    BY <1>3, IdleTyped DEF ApcPend, IdleApc
  <2> QED BY <1>0, <1>3, <2>1, <2>3, <2>4, <2>5, PendBare, TableKept DEF ApcPend
<1>4. CASE CopyRead
  <2>1. apc'.job = apc.job /\ apc'.pc # "refresh"
    BY <1>0, <1>4 DEF CopyRead, ApcType
  <2> QED BY <1>0, <1>1, <1>4, <2>1, TableKept, BareKept DEF CopyRead
<1>5. CASE CopyRetag
  <2>1. apc'.pc = "idle" \/ (apc'.job = apc.job /\ apc'.pc # "refresh")
    BY <1>0, <1>5 DEF CopyRetag, ApcType
  <2>2. host'.pc = "idle" \/ host' = host
    BY <1>2, <1>5 DEF CopyRetag, Finish
  <2> QED BY <1>0, <1>1, <1>5, <2>1, <2>2, TableKept, BareKept DEF CopyRetag
<1>10. CASE ReadBack
  <2>1. apc'.pc = "idle" \/ (apc'.job = apc.job /\ apc'.pc # "refresh")
    BY <1>0, <1>10 DEF ReadBack, ApcType
  <2>2. host'.pc = "idle" \/ host' = host
    BY <1>2, <1>10 DEF ReadBack, Finish
  <2> QED BY <1>0, <1>1, <1>10, <2>1, <2>2, TableKept, BareKept DEF ReadBack
<1>6. CASE FlashFails \/ WritePageFails
  <2>1. apc'.pc = "idle" \/ (apc'.job = apc.job /\ apc'.pc # "refresh")
    BY <1>0, <1>6 DEF FlashFails, WritePageFails, ApcType
  <2>2. host'.pc = "idle" \/ host' = host
    BY <1>2, <1>6 DEF FlashFails, WritePageFails, Finish
  <2> QED BY <1>0, <1>1, <1>6, <2>1, <2>2, TableKept, BareKept DEF FlashFails, WritePageFails
<1>7. CASE Erase \/ WritePage
  <2>0. /\ apc.pc # "idle" /\ apc.pc # "refresh" /\ mbox' = mbox
        /\ UNCHANGED <<table, valid, host, dead, bare>>
    BY <1>7 DEF Erase, WritePage
  <2>1. apc'.job = apc.job /\ apc'.pc # "refresh"
    BY <1>0, <1>7 DEF Erase, WritePage, ApcType
  <2>2. FptSector \in Sectors
    BY DEF Sectors
  <2>3. Target # FptSector => flash'[FptSector] = flash[FptSector]
    BY <1>7, <2>2 DEF Erase, WritePage, TypeOK
  <2> QED BY <1>0, <1>1, <2>0, <2>1, <2>3, FptUntouched, TableKept, BareKept
<1>8. CASE Verify
  <2>0. /\ apc.pc = "verify" /\ mbox' = mbox /\ table' = table /\ flash' = flash
        /\ valid' = (valid /\ Target # FptSector) /\ UNCHANGED <<calls, dead, bare>>
    BY <1>8 DEF Verify, InvalidatesFpt
  <2>1. apc'.pc = "idle" \/ apc'.job = apc.job
    BY <1>0, <1>8 DEF Verify, ApcType
  <2>2. /\ ToSet(mbox') \subseteq ToSet(mbox) /\ Admitted' \subseteq Admitted
        /\ apc.job \in Pending
    BY <1>0, <1>1, <2>0, <2>1, JobTyped
  <2>3. /\ valid => table # "none"
        /\ \/ \E j \in Pending : LaterFpt(j)
           \/ host.pc # "idle" /\ host.op = "fpt" /\ host.step > 0
           => (valid => HeaderValid(flash[FptSector]) /\ table = TableOf(flash[FptSector]))
        /\ ~ valid /\ (\E j \in Admitted : LaterFpt(j)) => \A j \in ToSet(mbox) : j.op = "fpt"
    BY DEF QueueInv, TableInv
  <2>4. Admitted \subseteq Pending
    BY DEF Admitted, Pending
  <2>5. ~ valid' /\ (\E j \in Admitted' : LaterFpt(j)) => \A j \in ToSet(mbox') : j.op = "fpt"
    <3>1. (\E j \in Admitted' : LaterFpt(j)) => Target # FptSector
      BY <1>0, <2>0, <2>2, <2>4, FptUntouched
    <3> QED BY <2>0, <2>2, <2>3, <3>1
  <2>6. host'.pc # "idle" /\ host'.op = "fpt" /\ host'.step > 0
          => (valid' => HeaderValid(flash'[FptSector]) /\ table' = TableOf(flash'[FptSector]))
    <3>1. CASE host'.pc = "idle" \/ host' = host
      <4>1. valid' => valid
        BY <2>0
      <4> QED BY <2>3, <3>1, <4>1, <2>0
    <3>2. CASE /\ Waits(apc.job) /\ host' = [host EXCEPT !.pc = "send", !.step = host.step + 1]
      <4>1. host \in HostType /\ host'.op = host.op
        BY <3>2 DEF TypeOK, HostType
      <4>2. apc.job = Request(host) /\ host.pc # "idle"
        BY <1>0, <2>2, <3>2 DEF OrderInv, OwnInv, Waits
      <4>3. host.op = "fpt" /\ host.step = 0 => Target = FptSector
        BY <2>0, <4>2, TargetIs, RequestMade
      <4>4. host.step = 0 \/ host.step > 0
        BY RequestMade
      <4> QED BY <2>0, <2>3, <4>1, <4>2, <4>3, <4>4
    <3>3. CASE Finish(TRUE) \/ Finish(FALSE)
      BY <1>0, <3>1, <3>2, <3>3, Answered DEF Finish
    <3> QED BY <1>8, <3>1, <3>3 DEF Verify
  <2>7. (\E j \in Pending' : LaterFpt(j))
          => (valid' => HeaderValid(flash'[FptSector]) /\ table' = TableOf(flash'[FptSector]))
    BY <1>0, <2>0, <2>3
  <2>8. apc'.pc = "refresh"
          => (valid' => HeaderValid(flash'[FptSector]) /\ table' = TableOf(flash'[FptSector]))
    <3>1. SUFFICES ASSUME apc'.pc = "refresh", Target # FptSector
                   PROVE  \E j \in Pending : LaterFpt(j)
      BY <2>0, <2>3
    <3>2. apc.job.op = "fpt" /\ apc.job.chunk # 0
      <4>1. apc'.job = apc.job /\ apc.pc # "idle"
        BY <2>0, <2>1, <3>1
      <4>2. apc.job.op = "fpt"
        BY <1>0, <2>0, <3>1, <4>1, ApcOrder DEF OrderInv, JobInv
      <4> QED BY <3>1, <4>1, <4>2, TargetIs
    <3>3. apc.job.chunk > 0
      BY <1>0, <3>2, FlashAssumption DEF ApcType, JobType
    <3> QED BY <1>0, <2>2, <3>2, <3>3 DEF JobInv, LaterFpt
  <2>9. BareInv'
    BY <2>0, <2>1, BareKept
  <2> QED BY <2>0, <2>2, <2>3, <2>5, <2>6, <2>7, <2>8, <2>9 DEF TableInv
<1>9. CASE Refresh
  <2>0. /\ apc.pc = "refresh" /\ mbox' = mbox /\ flash' = flash
        /\ table' = TableOf(flash[FptSector])
        /\ valid' = (valid \/ HeaderValid(flash[FptSector]))
        /\ apc'.pc = "idle" /\ UNCHANGED <<dead, bare>>
    <3>1. HeaderValid(flash[FptSector]) \in BOOLEAN
      BY DEF HeaderValid
    <3> QED BY <1>0, <1>9, <3>1 DEF Refresh
  <2>1. /\ apc.job \in Pending /\ apc.job \in Admitted
        /\ apc.job.op = "fpt" /\ apc.job.last
    <3>1. apc.job \in Pending /\ apc.job \in Admitted
      BY <2>0 DEF Admitted, Pending
    <3> QED BY <1>0, <2>0, <3>1 DEF JobInv
  <2>2. valid => HeaderValid(flash[FptSector]) /\ table = TableOf(flash[FptSector])
    BY <2>0 DEF QueueInv, TableInv
  <2>3. Admitted' = ToSet(mbox)
    BY <2>0 DEF Admitted
  <2>4. HeaderValid(flash[FptSector]) => table' # "none"
    BY <2>0 DEF TableOf
  <2>5. \A k \in 1 .. Len(mbox) : ~ Later(mbox[k])
    BY <2>0 DEF QueueInv, HeadInv
  <2>6. \A j \in ToSet(mbox) : ~ LaterFpt(j)
    BY <1>0, <2>5, Places DEF LaterFpt
  <2>7. BareInv'
    <3>1. ASSUME ~ bare PROVE \A j \in ToSet(mbox) : Found(j)'
      <4>1. CASE table' = table
        BY <2>0, <3>1, <4>1 DEF QueueInv, BareInv, Admitted, Found, HasEntry
      <4>2. CASE \A j \in ToSet(mbox) : j.op = "fpt"
        BY <4>2 DEF Found
      <4>3. CASE Single(apc.job)
        BY <2>0, <3>1, <4>2, <4>3 DEF QueueInv, BareInv
      <4>4. CASE ~ Single(apc.job)
        <5>1. LaterFpt(apc.job)
          BY <2>1, <4>4 DEF Single, LaterFpt, Later
        <5> QED BY <2>0, <2>1, <2>2, <4>1, <4>2, <5>1 DEF QueueInv, TableInv
      <4> QED BY <4>3, <4>4
    <3> QED BY <2>0, <2>3, <3>1 DEF QueueInv, BareInv
  <2> QED BY <2>0, <2>2, <2>3, <2>4, <2>6, <2>7 DEF TableInv
<1> QED
  BY <1>3, <1>4, <1>5, <1>6, <1>7, <1>8, <1>9, <1>10 DEF ApcNext

-----------------------------------------------------------------------------
(* What holds always.                                                      *)

\* The first state.
LEMMA QueueInit == Init => TypeOK /\ QueueInv
<1>1. SUFFICES ASSUME Init PROVE TypeOK /\ QueueInv
  OBVIOUS
<1>2. Pending = {} /\ Admitted = {} /\ apc.pc = "idle" /\ host.pc = "idle"
      /\ sq = <<>> /\ mbox = <<>>
  BY <1>1, NoPlaces, IdleTyped DEF Init, Pending, Admitted, IdleHost
<1>3. JobInv /\ OwnInv /\ HeadInv
  BY <1>2 DEF JobInv, OwnInv, HeadInv
<1>4. TableInv /\ BareInv
  BY <1>1, <1>2 DEF TableInv, BareInv, Init
<1>5. flash \in [Sectors -> [PageIds -> PageType]]
  <2>1. \A s \in Sectors : s # FptSector => s[2] \in ChunkIds
    BY DEF Sectors
  <2> QED BY <1>1, <2>1, PiecesTyped DEF Init, Tables
<1>6. ram \in [ChunkIds -> [PageIds -> PageType]]
  BY <1>1, PiecesTyped DEF Init
<1>7. host \in HostType /\ apc \in ApcType
  BY <1>1, IdleTyped, FlashAssumption DEF Init, IdleHost, HostType
<1>8. sq \in Seq(JobType) /\ mbox \in Seq(JobType) /\ Len(mbox) <= MboxSize
  BY <1>2, FlashAssumption
<1>9. calls \in 0 .. MaxCalls /\ faults \in 0 .. MaxFaults
  BY <1>1, FlashAssumption DEF Init
<1>10. /\ promised \in [Parts -> Images \cup {OldImage, NoImage}]
       /\ unguarded \subseteq Parts /\ dead \in BOOLEAN /\ bare \in BOOLEAN /\ clean \in BOOLEAN
       /\ valid \in BOOLEAN /\ table \in {"none", "good", "few", "torn"}
  BY <1>1 DEF Init
<1> QED
  BY <1>3, <1>4, <1>5, <1>6, <1>7, <1>8, <1>9, <1>10
  DEF TypeOK, QueueInv, HostType, ApcType

\* A step.
LEMMA QueueKept == TypeOK /\ QueueInv /\ [Next]_vars => TypeOK' /\ QueueInv'
<1>1. SUFFICES ASSUME TypeOK, QueueInv, [Next]_vars PROVE TypeOK' /\ QueueInv'
  OBVIOUS
<1>2. OrderInv /\ JobInv
  BY <1>1 DEF OrderInv, QueueInv
<1>3. TypeOK'
  BY <1>1, <1>2, TypesKept
<1>4. OrderInv'
  BY <1>1, <1>2, OrderKept
<1>5. TableInv' /\ BareInv'
  <2>1. CASE AmcReset
    <3>1. /\ Pending' = {} /\ Admitted' = {}
          /\ table' = TableOf(flash[FptSector]) /\ valid' = HeaderValid(flash[FptSector])
          /\ flash' = flash /\ ~ dead' /\ mbox' = <<>> /\ apc'.pc = "idle"
      BY <1>1, <1>2, <2>1, ResetOrder DEF AmcReset
    <3> QED BY <3>1 DEF TableInv, BareInv, TableOf
  <2>2. CASE UNCHANGED vars
    <3>1. Pending' = Pending /\ Admitted' = Admitted
      BY <2>2 DEF vars, Pending, Admitted
    <3> QED BY <1>1, <2>2, <3>1 DEF vars, TableInv, BareInv, Found, HasEntry, QueueInv
  <2> QED BY <1>1, <2>1, <2>2, HostTable, AcceptTable, ApcTable DEF Next
<1> QED BY <1>3, <1>4, <1>5 DEF OrderInv, QueueInv

\* The order of the queues and the state of the table, for every number of
\* calls and faults, and whatever calls may be abandoned.
THEOREM QueueCorrect == Spec => [](TypeOK /\ QueueInv)
BY QueueInit, QueueKept, PTL DEF Spec

\* The variables keep their types.
THEOREM TypeCorrect == Spec => []TypeOK
BY QueueCorrect, PTL

\* The table that a job uses has its entries, for every number of partitions,
\* chunks, calls and faults, unless the job was accepted behind an update with
\* the table alone: any other update clears piValidFpt with its first chunk, and
\* until its last one nothing is accepted behind it that needs a table.
THEOREM TableLoaded == Spec => []JobsUseLoadedTable
<1>1. QueueInv => JobsUseLoadedTable
  BY DEF QueueInv, BareInv, JobsUseLoadedTable
<1> QED BY <1>1, QueueCorrect, PTL

-----------------------------------------------------------------------------
(* Lemmas about the request at hand.                                       *)

\* What is pending are requests.
LEMMA PendingTyped ==
  ASSUME TypeOK
  PROVE  Pending \subseteq JobType
<1>1. sq \in Seq(JobType) /\ mbox \in Seq(JobType)
  BY DEF TypeOK
<1>2. apc.job \in JobType
  BY DEF TypeOK
<1> QED BY <1>1, <1>2, Places DEF Pending, Admitted

\* A later request is the one that the APC task works on, if it works.
LEMMA LaterAtHand ==
  ASSUME TypeOK, QueueInv, apc.pc # "idle", NEW j \in Pending, Later(j)
  PROVE  j = apc.job
<1>1. sq \in Seq(JobType) /\ mbox \in Seq(JobType)
  BY DEF TypeOK
<1>2. \A k \in 1 .. Len(sq) : ~ Later(sq[k])
  BY DEF QueueInv, HeadInv
<1>3. \A k \in 1 .. Len(mbox) : ~ Later(mbox[k])
  BY DEF QueueInv, HeadInv
<1> QED BY <1>1, <1>2, <1>3, Places DEF Pending, Admitted

\* The request of the call that waits is alone when it is at hand.
LEMMA OwnAtHand ==
  ASSUME TypeOK, QueueInv, apc.pc # "idle", Waits(apc.job)
  PROVE  apc.job = Request(host) /\ Pending = {apc.job} /\ host.pc = "wait"
<1>1. apc.job \in Pending /\ host.pc = "wait" /\ apc.job.call = calls
  BY DEF Pending, Admitted, Waits
<1>2. mbox = <<>> /\ sq = <<>>
  BY <1>1 DEF QueueInv, OwnInv
<1>3. apc.job = Request(host)
  BY <1>1 DEF QueueInv, OwnInv
<1> QED BY <1>1, <1>2, <1>3, NoPlaces DEF Pending, Admitted

\* A call with an answer waits for all that is pending.
LEMMA StepAtHand ==
  ASSUME TypeOK, QueueInv, apc.pc # "idle", host.pc # "idle", host.step > 0
  PROVE  Waits(apc.job)
<1>1. apc.job \in Pending /\ host \in HostType
  BY DEF Pending, Admitted, TypeOK, HostType
<1>2. apc.job.call = calls
  BY <1>1 DEF QueueInv, OwnInv
<1>3. host.pc = "wait"
  BY <1>1, <1>2 DEF QueueInv, OwnInv, HostType
<1> QED BY <1>2, <1>3 DEF Waits

\* A copy at hand is that of the call.
LEMMA CopyAtHand ==
  ASSUME TypeOK, QueueInv, CopyWaited, apc.pc # "idle", apc.job.op = "copy"
  PROVE  /\ Waits(apc.job) /\ host.op = "copy" /\ host.pc = "wait" /\ host.step = 0
         /\ host.part = apc.job.part /\ host.src = apc.job.src /\ apc.job.part # apc.job.src
         /\ ~ apc.job.short /\ Pending = {apc.job}
<1>1. apc.job \in Pending /\ ~ dead
  BY DEF Pending, Admitted, QueueInv, BareInv
<1>2. Waits(apc.job)
  BY <1>1 DEF CopyWaited, Waits
<1>3. apc.job = Request(host) /\ Pending = {apc.job} /\ host.pc = "wait"
  BY <1>2, OwnAtHand
<1>4. ~ apc.job.short /\ apc.job.part # apc.job.src
  BY <1>1 DEF QueueInv, JobInv
<1>5. host.op = "copy"
  BY <1>3, RequestMade
<1>6. host.step = 0
  BY <1>3, <1>5, StepMade, RequestMade DEF QueueInv
<1> QED BY <1>2, <1>3, <1>4, <1>5, <1>6, RequestMade

\* The sector at hand, and the area of shared memory for it.
LEMMA AtHand ==
  ASSUME TypeOK, QueueInv, apc.pc # "idle"
  PROVE  /\ apc.job.op = "pdi" => /\ Target = <<apc.job.part, apc.job.chunk>>
                                  /\ apc.job.chunk \in ChunkIds /\ Buffer = ram[0]
         /\ apc.job.op = "fpt" => /\ Buffer = ram[0] /\ ~ apc.job.short
                                  /\ apc.job.chunk > 0 => Target = <<P0, apc.job.chunk - 1>>
                                  /\ apc.job.chunk = 0 => Target = FptSector
         /\ apc.job.op = "copy" =>
              LET c == IF apc.step = Chunks THEN 0 ELSE apc.step
              IN Target = <<apc.job.part, c>> /\ Buffer = ram[c] /\ c \in ChunkIds
         /\ \A p \in Parts, c \in ChunkIds : Target = <<p, c>> => p = apc.job.part
         /\ Target \in Sectors /\ apc.job \in JobType /\ apc.job \in Pending
         /\ FptSector \in Sectors /\ \A p \in Parts, c \in ChunkIds : <<p, c>> \in Sectors
         /\ \A p \in Parts, c \in ChunkIds : <<p, c>> # FptSector
<1>1. apc \in ApcType /\ apc.job \in JobType /\ apc.job \in Pending /\ Target \in Sectors
  BY JobTyped DEF TypeOK, ApcType, QueueInv
<1>2. apc.job.op = "pdi" => /\ Target = <<apc.job.part, apc.job.chunk>>
                            /\ apc.job.chunk \in ChunkIds /\ Buffer = ram[0]
  BY <1>1 DEF Target, Packet, Buffer, QueueInv, JobInv
<1>3. apc.job.op = "fpt" => /\ Buffer = ram[0] /\ ~ apc.job.short /\ apc.job.part = P0
                            /\ apc.job.chunk > 0 => Target = <<P0, apc.job.chunk - 1>>
                            /\ apc.job.chunk = 0 => Target = FptSector
  BY <1>1 DEF Target, Packet, Buffer, QueueInv, JobInv, JobType
<1>4. apc.job.op = "copy" =>
        LET c == IF apc.step = Chunks THEN 0 ELSE apc.step
        IN Target = <<apc.job.part, c>> /\ Buffer = ram[c] /\ c \in ChunkIds
  <2>1. apc.step % Chunks = (IF apc.step = Chunks THEN 0 ELSE apc.step)
        /\ apc.step % Chunks \in ChunkIds
    BY <1>1, StepChunks DEF ApcType
  <2> QED BY <2>1 DEF Target, Packet, Buffer
<1>5. /\ FptSector \in Sectors /\ \A p \in Parts, c \in ChunkIds : <<p, c>> \in Sectors
      /\ \A p \in Parts, c \in ChunkIds : <<p, c>> # FptSector
  BY FlashAssumption DEF Sectors, FptSector
<1>6. \A p \in Parts, c \in ChunkIds : Target = <<p, c>> => p = apc.job.part
  <2>1. apc.job.op \in {"pdi", "fpt", "copy"} /\ apc.job.chunk \in 0 .. Chunks
    BY <1>1 DEF JobType
  <2>2. apc.job.chunk = 0 \/ apc.job.chunk > 0
    BY <2>1, FlashAssumption
  <2>3. CASE apc.job.op = "pdi"
    BY <1>2, <2>3
  <2>4. CASE apc.job.op = "fpt"
    BY <1>3, <1>5, <2>2, <2>4
  <2>5. CASE apc.job.op = "copy"
    BY <1>4, <2>5
  <2> QED BY <2>1, <2>3, <2>4, <2>5
<1> QED BY <1>1, <1>2, <1>3, <1>4, <1>5, <1>6

\* The request that gets an answer is gone.
LEMMA AnswerTakesOwn ==
  ASSUME TypeOK, QueueInv, NEW job,
         \/ AmiAccept /\ ~ Accepted(Head(sq)) /\ job = Head(sq)
         \/ ApcPend /\ Head(mbox).op # "fpt" /\ table = "torn" /\ job = Head(mbox)
         \/ apc.pc # "idle" /\ apc'.pc = "idle" /\ job = apc.job /\ UNCHANGED <<sq, mbox>>,
         Waits(job)
  PROVE  \A j \in Pending' : j.call # calls
<1>0. /\ sq \in Seq(JobType) /\ mbox \in Seq(JobType) /\ host.pc = "wait" /\ job.call = calls
  BY DEF TypeOK, Waits
<1>1. CASE AmiAccept /\ ~ Accepted(Head(sq)) /\ job = Head(sq)
  <2>1. sq # <<>> /\ sq' = Tail(sq) /\ mbox' = mbox /\ apc' = apc
    BY <1>1 DEF AmiAccept
  <2>2. /\ Head(sq) = sq[1] /\ Len(sq) \in Nat \ {0} /\ Tail(sq) \in Seq(JobType)
        /\ Len(Tail(sq)) = Len(sq) - 1
    BY <1>0, <2>1, Taken
  <2>3. Len(sq) = 1
    <3>1. 1 \in 1 .. Len(sq) /\ sq[1].call = calls
      BY <1>0, <1>1, <2>2
    <3> QED BY <1>0, <3>1 DEF QueueInv, OwnInv
  <2>4. Len(sq') = 0 /\ sq' \in Seq(JobType)
    BY <2>1, <2>2, <2>3
  <2>5. sq' = <<>>
    BY <2>4
  <2>6. \A k \in 1 .. Len(mbox) : mbox[k].call # calls
    BY <1>0, <2>1 DEF QueueInv, OwnInv
  <2>7. apc.pc # "idle" => apc.job.call # calls
    BY <1>0, <2>1 DEF QueueInv, OwnInv
  <2>8. \A j \in ToSet(mbox) : j.call # calls
    BY <1>0, <2>6, Places
  <2>9. Pending' = ToSet(mbox) \cup (IF apc.pc = "idle" THEN {} ELSE {apc.job})
    BY <2>1, <2>5, NoPlaces DEF Pending, Admitted
  <2> QED BY <2>7, <2>8, <2>9
<1>2. CASE ApcPend /\ Head(mbox).op # "fpt" /\ table = "torn" /\ job = Head(mbox)
  <2>1. mbox # <<>> /\ mbox' = Tail(mbox) /\ sq' = sq /\ apc' = apc /\ apc.pc = "idle"
    BY <1>2 DEF ApcPend
  <2>2. /\ Head(mbox) = mbox[1] /\ Len(mbox) \in Nat \ {0} /\ Tail(mbox) \in Seq(JobType)
        /\ Len(Tail(mbox)) = Len(mbox) - 1
    BY <1>0, <2>1, Taken
  <2>3. Len(mbox) = 1 /\ sq = <<>>
    <3>1. 1 \in 1 .. Len(mbox) /\ mbox[1].call = calls
      BY <1>0, <1>2, <2>2
    <3> QED BY <1>0, <3>1 DEF QueueInv, OwnInv
  <2>4. Len(mbox') = 0 /\ mbox' \in Seq(JobType)
    BY <2>1, <2>2, <2>3
  <2>5. mbox' = <<>>
    BY <2>4
  <2> QED BY <2>1, <2>3, <2>5, NoPlaces DEF Pending, Admitted
<1>3. CASE apc.pc # "idle" /\ apc'.pc = "idle" /\ job = apc.job /\ UNCHANGED <<sq, mbox>>
  <2>1. sq = <<>> /\ mbox = <<>>
    BY <1>0, <1>3 DEF QueueInv, OwnInv
  <2> QED BY <1>3, <2>1, NoPlaces DEF Pending, Admitted
<1> QED BY <1>1, <1>2, <1>3

-----------------------------------------------------------------------------
(* What the flash holds, when a copy is not abandoned.                      *)

\* The call that waits for a copy has its answer when the copy is gone.
LEMMA CopyWaitedKept ==
  ASSUME CopyWaited, Pending' \subseteq Pending, calls' = calls, dead => dead',
         host' = host \/ \A j \in Pending' : j.call # calls
  PROVE  CopyWaited'
BY DEF CopyWaited

\* A step that changes neither flash nor shared memory.
LEMMA QuietContent ==
  ASSUME TypeOK, QueueInv, ContentInv, TypeOK', CopyWaited',
         UNCHANGED <<flash, ram, promised, unguarded, calls>>,
         Pending' \subseteq Pending, host'.pc = "idle" \/ host' = host,
         \/ apc'.pc = "idle"
         \/ apc.pc # "idle" /\ apc'.pc = apc.pc /\ apc'.job = apc.job /\ apc'.step = apc.step
         \/ apc'.pc = (IF apc'.job.op = "copy" THEN "read" ELSE "erase") /\ apc'.step = 0
  PROVE  ContentInv'
<1>1. RamInv'
  BY DEF ContentInv, RamInv
<1>2. TagInv'
  BY DEF ContentInv, TagInv, Whole
<1>3. ProgressInv'
  <2>1. CASE host'.pc = "idle"
    BY <2>1 DEF ProgressInv
  <2>2. CASE host' = host
    <3>1. apc'.pc = "refresh" => apc.pc = "refresh" /\ apc'.job = apc.job
      OBVIOUS
    <3> QED BY <2>2, <3>1 DEF ContentInv, ProgressInv, Whole
  <2> QED BY <2>1, <2>2
<1>4. CopyInv'
  <2>1. CASE apc'.pc = "idle"
    BY <2>1 DEF CopyInv
  <2>2. CASE apc.pc # "idle" /\ apc'.pc = apc.pc /\ apc'.job = apc.job /\ apc'.step = apc.step
    BY <2>2 DEF ContentInv, CopyInv
  <2>3. CASE apc'.pc = (IF apc'.job.op = "copy" THEN "read" ELSE "erase") /\ apc'.step = 0
    BY <2>3 DEF CopyInv
  <2> QED BY <2>1, <2>2, <2>3
<1>5. GuardInv'
  <2>1. apc'.pc \in {"write", "readback", "verify"} => apc'.pc = apc.pc /\ apc'.job = apc.job
    OBVIOUS
  <2> QED BY <2>1 DEF ContentInv, GuardInv
<1>6. PromiseInv'
  BY DEF ContentInv, PromiseInv
<1>7. BootTagLast' /\ SuccessIsWhole'
  BY DEF ContentInv, BootTagLast, SuccessIsWhole, Whole
<1> QED BY <1>1, <1>2, <1>3, <1>4, <1>5, <1>6, <1>7 DEF ContentInv

\* The same for the end of a job without success.
LEMMA FailedContent ==
  ASSUME TypeOK, QueueInv, ContentInv, TypeOK', NEW job,
         Answer(job, FALSE),
         UNCHANGED <<flash, ram, unguarded, calls>>, dead => dead',
         Pending' \subseteq Pending, apc'.pc = "idle",
         Waits(job) => \A j \in Pending' : j.call # calls
  PROVE  ContentInv'
<1>1. promised' = promised /\ (host'.pc = "idle" \/ host' = host)
      /\ (~ Waits(job) => host' = host)
  BY Answered DEF QueueInv
<1>2. CopyWaited'
  BY <1>1, CopyWaitedKept DEF ContentInv
<1> QED BY <1>1, <1>2, QuietContent

\* A call starts: what it may write is promised to nobody.  It is sent: the tag
\* is in shared memory when the rest of the image is in flash.
LEMMA HostContent ==
  ASSUME "copy" \notin MayAbandon, TypeOK, QueueInv, ContentInv, TypeOK', HostNext
  PROVE  ContentInv'
<1>0. /\ host \in HostType /\ UNCHANGED <<flash, mbox, apc, dead, unguarded>>
      /\ apc.pc # "idle" => ~ dead
  BY DEF TypeOK, HostType, HostNext, HostCall, Start, HostSend, HostAbandon, HostTimeout,
         QueueInv, BareInv
<1>1. ASSUME NEW op, NEW q \in Parts, NEW s, NEW i, NEW f, Start(op, q, s, i, f)
      PROVE  ContentInv'
  <2>1. /\ Pending' = Pending /\ host.pc = "idle" /\ host'.pc = "send" /\ host'.step = 0
        /\ host'.part = q /\ ram' = ram /\ promised' = [promised EXCEPT ![q] = NoImage]
    BY <1>1 DEF Start, Pending, Admitted
  <2>2. ~ dead => \A j \in Pending : j.op # "copy"
    BY <2>1 DEF ContentInv, CopyWaited
  <2>3. apc.pc # "idle" => apc.job.op # "copy"
    BY <1>0, <2>2 DEF Pending, Admitted
  <2>4. CopyWaited' /\ RamInv' /\ ProgressInv'
    BY <1>0, <2>1, <2>2 DEF CopyWaited, RamInv, ProgressInv
  <2>5. TagInv'
    BY <1>0, <2>1 DEF ContentInv, TagInv, Whole
  <2>6. CopyInv' /\ GuardInv'
    BY <1>0, <2>3 DEF ContentInv, CopyInv, GuardInv
  <2>7. \A p \in Parts : promised'[p] = NoImage \/ promised'[p] = promised[p]
    BY <2>1 DEF TypeOK
  <2>8. promised'[q] = NoImage
    BY <2>1 DEF TypeOK
  <2>9. PromiseInv'
    <3>1. \A j \in Pending : j.part \in Parts /\ promised[j.part] = NoImage
      <4>1. \A j \in Pending : j.part \in Parts
        BY PendingTyped DEF JobType
      <4> QED BY <4>1 DEF ContentInv, PromiseInv
    <3> QED BY <2>1, <2>7, <2>8, <3>1 DEF PromiseInv
  <2>10. BootTagLast' /\ SuccessIsWhole'
    BY <1>0, <2>7 DEF ContentInv, BootTagLast, SuccessIsWhole, Whole
  <2> QED BY <2>4, <2>5, <2>6, <2>9, <2>10 DEF ContentInv
<1>2. CASE HostCall
  <2>1. P0 \in Parts
    BY FlashAssumption
  <2> QED BY <1>1, <1>2, <2>1 DEF HostCall
<1>3. CASE HostSend
  <2>0. /\ host.pc = "send" /\ host' = [host EXCEPT !.pc = "wait"] /\ promised' = promised
        /\ Pending' = Pending \cup {Request(host)} /\ ram' = [ram EXCEPT ![0] = Sent(host)]
        /\ calls' = calls
    BY <1>3, SentIsPending DEF HostSend, QueueInv
  <2>1. /\ host'.pc = "wait" /\ host'.op = host.op /\ host'.step = host.step
        /\ host'.part = host.part /\ host'.image = host.image
        /\ (Invalidating(host') <=> Invalidating(host))
    BY <1>0, <2>0 DEF HostType, Invalidating, LastStep
  <2>2. \A j \in Pending : (~ dead => j.op # "copy") /\ j.call # calls
    BY <2>0 DEF ContentInv, CopyWaited, QueueInv, OwnInv
  <2>3. apc.pc # "idle" => apc.job.op # "copy" /\ apc.job.call # calls
    BY <1>0, <2>2 DEF Pending, Admitted
  <2>4. ram'[0] = Sent(host) /\ host.step \in 0 .. Chunks /\ (host.step = 0 \/ host.step > 0)
    BY <1>0, <2>0, PiecesTyped, FlashAssumption DEF TypeOK, HostType
  <2>5. host.step > 0 => Pending = {}
    BY <2>0, <2>2 DEF QueueInv, OwnInv
  <2>6. CopyWaited'
    BY <1>0, <2>0, <2>1, <2>2, RequestMade DEF CopyWaited
  <2>7. Invalidating(host) => ram'[0][0].word = "invalid"
    <3>1. WithWord(ram[0], "invalid")[0].word = "invalid"
      <4>1. ram[0] \in [PageIds -> PageType] /\ 0 \in PageIds
        BY PiecesTyped DEF TypeOK
      <4> QED BY <4>1 DEF WithWord, PageType
    <3> QED BY <2>4, <3>1, RequestMade DEF Sent
  <2>8. host.op = "pdi" /\ ~ Invalidating(host) => ram'[0] = Piece(host.image, host.step % Chunks)
    BY <2>4 DEF Sent
  <2>9. host.op = "fpt" /\ host.step > 0 => ram'[0] = Piece(host.image, host.step - 1)
    BY <2>4, RequestMade DEF Sent
  <2>10. RamInv'
    BY <2>1, <2>7, <2>8, <2>9 DEF RamInv
  <2>11. TagInv'
    <3>1. CASE host.step > 0
      <4>1. Pending' = {Request(host)}
        BY <2>0, <2>5, <3>1
      <4>2. CASE host.op = "pdi"
        <5>1. host.image \in Images \ OneChunk /\ ~ Invalidating(host)
          BY <2>0, <3>1, StepMade DEF QueueInv
        <5>2. host.step % Chunks = IF host.step = Chunks THEN 0 ELSE host.step
          BY <2>4, StepChunks
        <5>3. /\ Whole(host.part, host.image, 1 .. host.step - 1)
              /\ host.step < Chunks => flash[<<host.part, 0>>][0].word # "tag"
          BY <2>0, <3>1, <4>2 DEF ContentInv, ProgressInv
        <5>4. CASE host.step = Chunks
          <6>1. ram'[0] = Piece(host.image, 0)
            BY <2>8, <4>2, <5>1, <5>2, <5>4
          <6>2. 1 .. host.step - 1 = ChunkIds \ {0}
            BY <5>4, FlashAssumption DEF ChunkIds
          <6>3. Whole(host.part, host.image, Extent(host.image) \ {0})
            BY <5>1, <5>3, <6>2 DEF Extent
          <6>4. Request(host).chunk = 0 /\ Later(Request(host)) /\ Request(host).part = host.part
            BY <3>1, <4>2, <5>4, RequestMade
          <6> QED BY <1>0, <4>1, <5>1, <6>1, <6>3, <6>4 DEF TagInv, Whole
        <5>5. CASE host.step < Chunks
          <6>1. Request(host).chunk = host.step /\ Request(host).part = host.part
            BY <4>2, <5>5, RequestMade
          <6>2. Request(host).chunk # 0
            BY <3>1, <6>1
          <6> QED BY <1>0, <4>1, <5>3, <5>5, <6>1, <6>2 DEF TagInv
        <5> QED BY <2>4, <5>4, <5>5, FlashAssumption
      <4>3. CASE host.op # "pdi"
        BY <4>1, <4>3, RequestMade DEF TagInv
      <4> QED BY <4>2, <4>3
    <3>2. CASE host.step = 0
      <4>1. \A j \in Pending' : j.op = "pdi" /\ j.chunk > 0 => flash[<<j.part, 0>>][0].word # "tag"
        <5>1. Request(host).op = "pdi" => Request(host).chunk = 0
          BY <3>2, RequestMade, FlashAssumption
        <5>2. \A j \in Pending : j.op = "pdi" /\ j.chunk > 0 => flash[<<j.part, 0>>][0].word # "tag"
          BY DEF ContentInv, TagInv
        <5> QED BY <2>0, <5>1, <5>2
      <4>2. CASE host.op = "copy"
        <5>1. ram'[0] = ram[0]
          BY <2>4, <4>2, RequestMade DEF Sent
        <5>2. \A j \in Pending' : j.op = "pdi" => j \in Pending
          BY <2>0, <4>2, RequestMade
        <5> QED BY <1>0, <5>1, <5>2 DEF ContentInv, TagInv, Whole
      <4>3. CASE host.op = "pdi" /\ ~ Invalidating(host)
        <5>1. ram'[0] = Piece(host.image, 0)
          <6>1. host.step % Chunks = 0
            BY <2>4, <3>2, StepChunks, FlashAssumption
          <6> QED BY <2>8, <4>3, <6>1
        <5>2. host.image \in OneChunk /\ host.image \in Images
          BY <2>0, <3>2, <4>3, FlashAssumption DEF Invalidating, LastStep, QueueInv, JobInv
        <5>3. \A q : Whole(q, host.image, Extent(host.image) \ {0})'
          BY <2>1, <5>2 DEF Whole, Extent
        <5> QED BY <1>0, <2>1, <4>1, <5>1, <5>2, <5>3 DEF TagInv
      <4>4. CASE (host.op = "pdi" /\ Invalidating(host)) \/ host.op = "fpt"
        <5>1. ram'[0][0].word # "tag"
          <6>1. CASE Invalidating(host)
            BY <2>7, <6>1
          <6>2. CASE host.op = "fpt"
            <7>1. ram'[0] = FptPiece(host.fpt)
              BY <2>4, <3>2, <6>2, RequestMade DEF Sent
            <7> QED BY <7>1, PiecesTyped DEF FptPiece, Page
          <6> QED BY <4>4, <6>1, <6>2
        <5> QED BY <1>0, <4>1, <5>1 DEF TagInv
      <4> QED BY <1>0, <4>2, <4>3, <4>4 DEF HostType
    <3> QED BY <2>4, <3>1, <3>2
  <2>12. ProgressInv'
    <3>1. ~ (apc.pc = "refresh" /\ apc.job.call = calls)
      BY <2>3
    <3> QED BY <1>0, <2>0, <2>1, <3>1 DEF ContentInv, ProgressInv, Whole
  <2>13. CopyInv' /\ GuardInv'
    BY <1>0, <2>3 DEF ContentInv, CopyInv, GuardInv
  <2>14. PromiseInv'
    BY <2>0, <2>1, RequestMade DEF ContentInv, PromiseInv
  <2>15. BootTagLast' /\ SuccessIsWhole'
    BY <1>0, <2>0 DEF ContentInv, BootTagLast, SuccessIsWhole, Whole
  <2> QED
    BY <2>6, <2>10, <2>11, <2>12, <2>13, <2>14, <2>15 DEF ContentInv
<1>4. CASE HostAbandon \/ HostTimeout
  <2>1. /\ host.pc = "wait" /\ host'.pc = "idle" /\ UNCHANGED <<ram, promised, calls, sq>>
    BY <1>4, IdleTyped DEF HostAbandon, HostTimeout
  <2>2. Pending' = Pending
    BY <1>0, <2>1 DEF Pending, Admitted
  <2>3. ~ dead => \A j \in Pending : j.op # "copy"
    <3>1. ASSUME ~ dead, NEW j \in Pending, j.op = "copy" PROVE FALSE
      <4>1. j.call = calls /\ j = Request(host) /\ Waits(j)
        BY <2>1, <3>1 DEF ContentInv, CopyWaited, QueueInv, OwnInv, Waits
      <4>2. host.op = "copy"
        BY <3>1, <4>1, RequestMade
      <4>3. CASE HostAbandon
        BY <4>2, <4>3 DEF HostAbandon
      <4>4. CASE HostTimeout
        BY <3>1, <4>1, <4>4 DEF HostTimeout, Pending, Admitted
      <4> QED BY <1>4, <4>3, <4>4
    <3> QED BY <3>1
  <2>4. CopyWaited'
    BY <1>0, <2>2, <2>3 DEF CopyWaited
  <2>5. \/ apc'.pc = "idle"
        \/ apc.pc # "idle" /\ apc'.pc = apc.pc /\ apc'.job = apc.job /\ apc'.step = apc.step
    BY <1>0
  <2> QED BY <1>0, <2>1, <2>2, <2>4, <2>5, QuietContent
<1> QED BY <1>2, <1>3, <1>4 DEF HostNext

\* Writing a sector disturbs only what is said of it: neither what the call has
\* been answered for, nor what the boot tag in memory stands for, nor what was
\* promised of another partition.
LEMMA FlashStep ==
  ASSUME TypeOK, QueueInv, ContentInv,
         apc.pc \in {"erase", "write"}, apc'.pc \in {"write", "readback"},
         apc'.job = apc.job, apc'.step = apc.step,
         UNCHANGED <<ram, promised, host, sq, mbox, dead, calls>>,
         \A s \in Sectors : s # Target => flash'[s] = flash[s]
  PROVE  /\ CopyWaited' /\ RamInv' /\ TagInv' /\ ProgressInv' /\ CopyInv' /\ PromiseInv'
         /\ SuccessIsWhole' /\ Pending' = Pending
<1>0. /\ apc.pc # "idle" /\ Pending' = Pending /\ apc'.pc # "idle" /\ apc \in ApcType
      /\ host \in HostType /\ 0 \in ChunkIds
  BY PiecesTyped DEF Pending, Admitted, TypeOK, ApcType, HostType
<1>1. CopyWaited' /\ RamInv' /\ PromiseInv'
  BY <1>0 DEF ContentInv, CopyWaited, RamInv, PromiseInv
<1>2. \A p \in Parts, c \in ChunkIds : <<p, c>> # Target => flash'[<<p, c>>] = flash[<<p, c>>]
  BY <1>0, AtHand
<1>3. TagInv'
  <2>1. ASSUME NEW j \in Pending, j.op = "pdi", j.chunk > 0
        PROVE  flash'[<<j.part, 0>>][0].word # "tag"
    <3>1. Later(j)
      BY <2>1 DEF QueueInv, JobInv
    <3>2. j = apc.job
      BY <1>0, <3>1, LaterAtHand
    <3>3. <<j.part, 0>> # Target /\ j.part \in Parts
      BY <1>0, <2>1, <3>2, AtHand DEF JobType
    <3> QED BY <1>0, <1>2, <2>1, <3>3 DEF ContentInv, TagInv
  <2>2. ASSUME NEW j \in Pending, j.op = "pdi", j.chunk = 0, ram[0][0].word = "tag"
        PROVE  \E i \in Images : /\ i \in OneChunk \/ Later(j)
                                 /\ ram[0] = Piece(i, 0) /\ Whole(j.part, i, Extent(i) \ {0})'
    <3>1. PICK i \in Images : /\ i \in OneChunk \/ Later(j)
                              /\ ram[0] = Piece(i, 0) /\ Whole(j.part, i, Extent(i) \ {0})
      BY <2>2 DEF ContentInv, TagInv
    <3>2. CASE i \in OneChunk
      BY <3>1, <3>2 DEF Extent, Whole
    <3>3. CASE Later(j)
      <4>1. j = apc.job
        BY <1>0, <3>3, LaterAtHand
      <4>2. Target = <<j.part, 0>> /\ j.part \in Parts
        BY <1>0, <2>2, <4>1, AtHand DEF JobType
      <4>3. Whole(j.part, i, Extent(i) \ {0})'
        BY <1>2, <3>1, <4>2 DEF Whole, Extent
      <4> QED BY <3>1, <4>3
    <3> QED BY <3>1, <3>2, <3>3
  <2>3. \A j \in Pending : j.chunk > 0 \/ j.chunk = 0
    BY PendingTyped, FlashAssumption DEF JobType
  <2> QED BY <1>0, <2>1, <2>2 DEF TagInv
<1>4. ProgressInv'
  <2>1. ASSUME host.pc # "idle", host.op = "pdi", host.step > 0
        PROVE  /\ Whole(host.part, host.image, 1 .. host.step - 1)'
               /\ host.step < Chunks => flash'[<<host.part, 0>>][0].word # "tag"
    <3>1. apc.job = Request(host)
      BY <1>0, <2>1, StepAtHand, OwnAtHand
    <3>2. /\ Target = <<host.part, IF host.step = Chunks THEN 0 ELSE host.step>>
          /\ host.part \in Parts /\ host.step \in 0 .. Chunks
      BY <1>0, <2>1, <3>1, AtHand, RequestMade DEF HostType
    <3>3. \A c \in 1 .. host.step - 1 : c \in ChunkIds /\ <<host.part, c>> # Target
      BY <3>2, FlashAssumption DEF ChunkIds
    <3>4. host.step < Chunks => <<host.part, 0>> # Target
      BY <2>1, <3>2, FlashAssumption
    <3>5. /\ Whole(host.part, host.image, 1 .. host.step - 1)
          /\ host.step < Chunks => flash[<<host.part, 0>>][0].word # "tag"
      BY <2>1 DEF ContentInv, ProgressInv
    <3> QED BY <1>0, <1>2, <3>2, <3>3, <3>4, <3>5 DEF Whole
  <2>2. ASSUME host.pc # "idle", host.op = "fpt", host.step > 0
        PROVE  Whole(P0, host.image, 0 .. host.step - 2)'
    <3>1. apc.job = Request(host)
      BY <1>0, <2>2, StepAtHand, OwnAtHand
    <3>2. /\ Target = <<P0, host.step - 1>> /\ P0 \in Parts /\ host.step \in 0 .. Chunks
      BY <1>0, <2>2, <3>1, AtHand, RequestMade, FlashAssumption DEF HostType
    <3>3. \A c \in 0 .. host.step - 2 : c \in ChunkIds /\ <<P0, c>> # Target
      BY <3>2, FlashAssumption DEF ChunkIds
    <3>4. Whole(P0, host.image, 0 .. host.step - 2)
      BY <2>2 DEF ContentInv, ProgressInv
    <3> QED BY <1>2, <3>2, <3>3, <3>4 DEF Whole
  <2> QED BY <2>1, <2>2 DEF ProgressInv
<1>5. CopyInv'
  <2>1. ASSUME apc.job.op = "copy" PROVE CopyInv'
    <3> DEFINE p == apc.job.part
               s == apc.job.src
               c0 == IF apc.step = Chunks THEN 0 ELSE apc.step
    <3>1. p \in Parts /\ s \in Parts /\ apc.step \in 0 .. Chunks
      BY <1>0 DEF ApcType, JobType
    <3>2. p # s /\ Target = <<p, c0>>
      BY <1>0, <2>1, CopyAtHand, AtHand DEF ContentInv
    <3>3. \A c \in ChunkIds : flash'[<<s, c>>] = flash[<<s, c>>]
      BY <1>2, <3>1, <3>2
    <3>4. \A c \in ChunkIds : c # c0 => flash'[<<p, c>>] = flash[<<p, c>>]
      BY <1>2, <3>1, <3>2
    <3>5. \A c \in 1 .. apc.step - 1 : c \in ChunkIds /\ c # c0
      BY <3>1, FlashAssumption DEF ChunkIds
    <3>6. \A c \in 1 .. apc.step - 1 : flash'[<<p, c>>] = flash'[<<s, c>>]
      BY <1>0, <2>1, <3>3, <3>4, <3>5 DEF ContentInv, CopyInv
    <3>7. apc.step > 0 /\ apc.step < Chunks => flash'[<<p, 0>>][0].word # "tag"
      <4>1. apc.step > 0 /\ apc.step < Chunks => c0 # 0
        BY <3>1, FlashAssumption
      <4> QED BY <1>0, <2>1, <3>4, <4>1 DEF ContentInv, CopyInv
    <3>8. apc.pc # "read" /\ apc'.pc # "read"
      OBVIOUS
    <3>9. apc.step = 0 => ram[0][0].word = "invalid"
      BY <1>0, <2>1, <3>8 DEF ContentInv, CopyInv
    <3>10. apc.step \in 1 .. Chunks - 1 => ram[apc.step] = flash'[<<s, apc.step>>]
      <4>1. apc.step \in 1 .. Chunks - 1 => apc.step \in ChunkIds
        BY FlashAssumption DEF ChunkIds
      <4> QED BY <1>0, <2>1, <3>3, <3>8, <4>1 DEF ContentInv, CopyInv
    <3>11. apc.step = Chunks => ram[0] = flash'[<<s, 0>>]
      BY <1>0, <2>1, <3>3, <3>8 DEF ContentInv, CopyInv
    <3> QED BY <3>6, <3>7, <3>8, <3>9, <3>10, <3>11 DEF CopyInv
  <2>2. CASE apc.job.op # "copy"
    BY <2>2 DEF CopyInv
  <2> QED BY <2>1, <2>2
<1>6. SuccessIsWhole'
  <2>1. ASSUME NEW p \in Parts, promised[p] # NoImage
        PROVE  Whole(p, promised[p], Extent(promised[p]))'
    <3>1. p # apc.job.part
      BY <1>0, <2>1, AtHand DEF ContentInv, PromiseInv
    <3>2. \A c \in ChunkIds : Target # <<p, c>>
      BY <1>0, <3>1, AtHand
    <3>3. Whole(p, promised[p], Extent(promised[p]))
      BY <2>1 DEF ContentInv, SuccessIsWhole
    <3>4. 0 \in ChunkIds
      BY PiecesTyped
    <3> QED BY <1>2, <3>2, <3>3, <3>4 DEF Whole, Extent
  <2> QED BY <2>1 DEF SuccessIsWhole
<1> QED BY <1>0, <1>1, <1>3, <1>4, <1>5, <1>6

\* The first sector of a partition has no boot tag while a part behind it is
\* written, unless that part belongs to an update of the FPT.
LEMMA TaglessAtHand ==
  ASSUME TypeOK, QueueInv, ContentInv, apc.pc \in {"erase", "write"},
         NEW p \in Parts, NEW c \in ChunkIds \ {0}, Target = <<p, c>>
  PROVE  /\ apc.job.op # "fpt" => flash[<<p, 0>>][0].word # "tag"
         /\ apc.job.op = "fpt" => p = P0 /\ apc.job.chunk > 0
<1>1. apc.pc # "idle" /\ apc \in ApcType
  BY DEF TypeOK, ApcType
<1>2. p = apc.job.part /\ apc.job \in JobType /\ apc.job \in Pending
  BY <1>1, AtHand
<1>3. CASE apc.job.op = "pdi"
  <2>1. apc.job.chunk = c
    BY <1>1, <1>3, AtHand
  <2>2. c > 0
    BY DEF ChunkIds
  <2> QED BY <1>2, <1>3, <2>1, <2>2 DEF ContentInv, TagInv
<1>4. CASE apc.job.op = "copy"
  <2>1. c = IF apc.step = Chunks THEN 0 ELSE apc.step
    BY <1>1, <1>4, AtHand
  <2>2. apc.step \in 0 .. Chunks /\ c > 0
    BY <1>1 DEF ApcType, ChunkIds
  <2>3. apc.step > 0 /\ apc.step < Chunks
    BY <2>1, <2>2, FlashAssumption
  <2> QED BY <1>1, <1>2, <1>4, <2>3 DEF ContentInv, CopyInv
<1>5. CASE apc.job.op = "fpt"
  <2>1. apc.job.chunk \in 0 .. Chunks /\ apc.job.part = P0
    BY <1>2, <1>5 DEF JobType, QueueInv, JobInv
  <2>2. apc.job.chunk # 0
    <3>1. <<p, c>> # FptSector
      BY <1>1, AtHand
    <3> QED BY <1>1, <1>5, <3>1, AtHand
  <2> QED BY <1>2, <1>5, <2>1, <2>2, FlashAssumption
<1> QED BY <1>2, <1>3, <1>4, <1>5 DEF JobType

\* Erasing a sector.
LEMMA EraseContent ==
  ASSUME TypeOK, QueueInv, ContentInv, Erase
  PROVE  ContentInv'
<1>0. /\ apc.pc = "erase" /\ apc \in ApcType /\ unguarded' = Guarded(apc.job)
      /\ flash' = [flash EXCEPT ![Target] = [g \in PageIds |-> Blank]]
      /\ apc'.pc = "write" /\ apc'.job = apc.job /\ apc'.step = apc.step
  BY DEF Erase, TypeOK, ApcType
<1>1. \A s \in Sectors : s # Target => flash'[s] = flash[s]
  BY <1>0 DEF TypeOK
<1>2. flash'[Target][0].word = "erased"
  BY <1>0, AtHand, PiecesTyped DEF TypeOK, Blank, Page
<1>3. /\ CopyWaited' /\ RamInv' /\ TagInv' /\ ProgressInv' /\ CopyInv' /\ PromiseInv'
      /\ SuccessIsWhole'
  BY <1>0, <1>1, FlashStep DEF Erase
<1>4. apc.job \in JobType /\ apc.job \in Pending
  BY <1>0, AtHand
<1>5. apc.job.op = "copy" => apc.job.part # apc.job.src
  BY <1>4 DEF QueueInv, JobInv
<1>6. GuardInv'
  <2>1. apc.job.op = "fpt" /\ apc.job.chunk > 0 => P0 \in unguarded'
    BY <1>0 DEF Guarded
  <2>2. apc.job.op = "copy" /\ apc.job.src \in unguarded' => apc.job.part \in unguarded'
    BY <1>0, <1>5 DEF Guarded
  <2> QED BY <1>0, <2>1, <2>2 DEF GuardInv
<1>7. ASSUME NEW p \in Parts \ unguarded', flash'[<<p, 0>>][0].word = "tag"
      PROVE  Whole(p, flash[<<p, 0>>][0].image, Extent(flash[<<p, 0>>][0].image) \ {0})'
  <2>1. <<p, 0>> # Target /\ flash'[<<p, 0>>] = flash[<<p, 0>>]
    BY <1>0, <1>1, <1>2, <1>7, AtHand, PiecesTyped
  <2>2. \A c \in ChunkIds \ {0} : Target # <<p, c>>
    <3>1. ASSUME NEW c \in ChunkIds \ {0}, Target = <<p, c>> PROVE FALSE
      <4>1. CASE apc.job.op = "fpt"
        BY <1>0, <1>7, <3>1, <4>1, TaglessAtHand DEF Guarded
      <4>2. CASE apc.job.op # "fpt"
        BY <1>0, <1>7, <2>1, <3>1, <4>2, TaglessAtHand
      <4> QED BY <4>1, <4>2
    <3> QED BY <3>1
  <2>3. p \notin unguarded
    <3>1. CASE apc.job.op = "pdi" /\ apc.job.short /\ p = apc.job.part
      <4>1. apc.job.chunk = 0
        BY <1>4, <3>1 DEF QueueInv, JobInv
      <4> QED BY <1>0, <2>1, <3>1, <4>1, AtHand
    <3>2. CASE apc.job.op = "copy" /\ apc.job.src \notin unguarded /\ p = apc.job.part
      <4>1. PICK c \in ChunkIds : Target = <<p, c>>
        BY <1>0, <3>2, AtHand
      <4>2. c = 0
        BY <2>2, <4>1
      <4> QED BY <2>1, <4>1, <4>2
    <3> QED BY <1>0, <1>4, <1>7, <3>1, <3>2 DEF Guarded, JobType
  <2>4. Whole(p, flash[<<p, 0>>][0].image, Extent(flash[<<p, 0>>][0].image) \ {0})
    BY <1>7, <2>1, <2>3 DEF ContentInv, BootTagLast
  <2>5. \A c \in ChunkIds \ {0} : flash'[<<p, c>>] = flash[<<p, c>>]
    BY <1>0, <1>1, <2>2, AtHand
  <2> QED BY <2>1, <2>4, <2>5 DEF Whole, Extent
<1> QED BY <1>3, <1>6, <1>7 DEF ContentInv, BootTagLast

\* Writing a page.  The first page of a partition brings a boot tag only when
\* the rest of the partition is what belongs to it.
LEMMA WriteContent ==
  ASSUME TypeOK, QueueInv, ContentInv, WritePage
  PROVE  ContentInv'
<1>0. /\ apc.pc = "write" /\ apc \in ApcType /\ unguarded' = unguarded
      /\ flash' = [flash EXCEPT ![Target][apc.page] = Buffer[apc.page]]
      /\ apc'.pc \in {"write", "readback"} /\ apc'.job = apc.job /\ apc'.step = apc.step
  BY DEF WritePage, TypeOK, ApcType
<1>1. \A s \in Sectors : s # Target => flash'[s] = flash[s]
  BY <1>0 DEF TypeOK
<1>2. flash'[Target][0] = flash[Target][0] \/ flash'[Target][0] = Buffer[0]
  <2>1. /\ Target \in Sectors /\ flash[Target] \in [PageIds -> PageType]
        /\ 0 \in PageIds /\ apc.page \in PageIds
    BY <1>0, AtHand, PiecesTyped DEF TypeOK, ApcType
  <2>2. flash'[Target] = [flash[Target] EXCEPT ![apc.page] = Buffer[apc.page]]
    BY <1>0, <2>1 DEF TypeOK
  <2> QED BY <2>1, <2>2
<1>3. /\ CopyWaited' /\ RamInv' /\ TagInv' /\ ProgressInv' /\ CopyInv' /\ PromiseInv'
      /\ SuccessIsWhole'
  BY <1>0, <1>1, FlashStep DEF WritePage
<1>4. apc.job \in JobType /\ apc.job \in Pending
  BY <1>0, AtHand
<1>5. GuardInv'
  BY <1>0 DEF ContentInv, GuardInv
<1>6. ASSUME NEW p \in Parts \ unguarded, flash'[<<p, 0>>][0].word = "tag"
      PROVE  Whole(p, flash[<<p, 0>>][0].image, Extent(flash[<<p, 0>>][0].image) \ {0})'
  <2>0. /\ <<p, 0>> \in Sectors /\ 0 \in ChunkIds
        /\ \A c \in ChunkIds : <<p, c>> # Target => flash'[<<p, c>>] = flash[<<p, c>>]
    BY <1>0, <1>1, AtHand, PiecesTyped
  <2>1. \A c \in ChunkIds \ {0} : Target # <<p, c>>
    <3>1. ASSUME NEW c \in ChunkIds \ {0}, Target = <<p, c>> PROVE FALSE
      <4>1. CASE apc.job.op = "fpt"
        BY <1>0, <1>6, <3>1, <4>1, TaglessAtHand DEF ContentInv, GuardInv
      <4>2. CASE apc.job.op # "fpt"
        <5>1. <<p, 0>> # Target
          BY <3>1
        <5> QED BY <1>0, <1>6, <2>0, <3>1, <4>2, <5>1, TaglessAtHand
      <4> QED BY <4>1, <4>2
    <3> QED BY <3>1
  <2>2. \A c \in ChunkIds \ {0} : flash'[<<p, c>>] = flash[<<p, c>>]
    BY <2>0, <2>1
  <2>3. CASE flash'[<<p, 0>>][0] = flash[<<p, 0>>][0]
    BY <1>6, <2>2, <2>3 DEF ContentInv, BootTagLast, Whole, Extent
  <2>4. CASE flash'[<<p, 0>>][0] # flash[<<p, 0>>][0]
    <3>1. Target = <<p, 0>> /\ flash'[<<p, 0>>][0] = Buffer[0] /\ p = apc.job.part
      BY <1>0, <1>2, <2>0, <2>4, AtHand
    <3>2. CASE apc.job.op = "pdi"
      <4>1. apc.job.chunk = 0 /\ Buffer = ram[0]
        BY <1>0, <3>1, <3>2, AtHand
      <4>2. PICK i \in Images : ram[0] = Piece(i, 0) /\ Whole(p, i, Extent(i) \ {0})
        BY <1>4, <1>6, <3>1, <3>2, <4>1 DEF ContentInv, TagInv
      <4>3. ram[0][0].image = i
        BY <4>2, PiecesTyped DEF Piece, Page
      <4> QED BY <2>2, <3>1, <4>1, <4>2, <4>3 DEF Whole, Extent
    <3>3. CASE apc.job.op = "fpt"
      <4>1. apc.job.chunk > 0 /\ p = P0
        <5>1. <<p, 0>> # FptSector
          BY <1>0, <2>0, AtHand
        <5>2. apc.job.chunk # 0
          BY <1>0, <3>1, <3>3, <5>1, AtHand
        <5>3. p = P0
          BY <1>4, <3>1, <3>3 DEF QueueInv, JobInv
        <5> QED BY <1>4, <5>2, <5>3, FlashAssumption DEF JobType
      <4> QED BY <1>0, <1>6, <3>3, <4>1 DEF ContentInv, GuardInv
    <3>4. CASE apc.job.op = "copy"
      <4> DEFINE s == apc.job.src
      <4>1. 0 = (IF apc.step = Chunks THEN 0 ELSE apc.step) /\ Buffer = ram[0]
        BY <1>0, <3>1, <3>4, AtHand
      <4>2. apc.step = Chunks
        BY <1>0, <1>6, <3>1, <3>4, <4>1 DEF ContentInv, CopyInv
      <4>3. ram[0] = flash[<<s, 0>>] /\ \A c \in 1 .. Chunks - 1 : flash[<<p, c>>] = flash[<<s, c>>]
        BY <1>0, <3>1, <3>4, <4>2 DEF ContentInv, CopyInv
      <4>4. s \in Parts \ unguarded
        BY <1>0, <1>4, <1>6, <3>1, <3>4 DEF ContentInv, GuardInv, JobType
      <4>5. Whole(s, flash[<<s, 0>>][0].image, Extent(flash[<<s, 0>>][0].image) \ {0})
        BY <1>6, <3>1, <4>1, <4>3, <4>4 DEF ContentInv, BootTagLast
      <4>6. ChunkIds \ {0} = 1 .. Chunks - 1
        BY FlashAssumption DEF ChunkIds
      <4>7. \A i, c : c \in Extent(i) \ {0} => c \in ChunkIds \ {0}
        BY DEF Extent
      <4>8. flash'[<<p, 0>>][0].image = flash[<<s, 0>>][0].image
        BY <3>1, <4>1, <4>3
      <4> QED BY <2>2, <4>3, <4>5, <4>6, <4>7, <4>8 DEF Whole
    <3> QED BY <1>4, <3>2, <3>3, <3>4 DEF JobType
  <2> QED BY <2>3, <2>4
<1> QED BY <1>0, <1>3, <1>5, <1>6 DEF ContentInv, BootTagLast

\* Reading a packet of a copy, or restoring its tag, changes shared memory, of
\* which no download has anything to say then: nothing else is pending.
LEMMA ReadContent ==
  ASSUME TypeOK, QueueInv, ContentInv, TypeOK', CopyRead \/ CopyRetag
  PROVE  ContentInv'
<1>0. /\ apc.pc = "read" /\ apc.job.op = "copy" /\ apc \in ApcType /\ apc.job \in Pending
      /\ UNCHANGED <<flash, sq, mbox, dead, calls, unguarded>> /\ OrderInv
  BY DEF CopyRead, CopyRetag, QueueInv, JobInv, TypeOK, ApcType, OrderInv, Pending, Admitted
<1>1. /\ Waits(apc.job) /\ host.op = "copy" /\ Pending = {apc.job}
      /\ sq = <<>> /\ mbox = <<>>
  BY <1>0, CopyAtHand, FinishOrder DEF ContentInv, QueueInv, OwnInv, Waits
<1>2. CASE CopyRetag /\ ram'[0] # flash[<<apc.job.src, 0>>]
  <2>0. Finish(FALSE) /\ promised' = promised /\ host'.pc = "idle" /\ apc'.pc = "idle"
    BY <1>1, <1>2, Answered, IdleTyped DEF CopyRetag, Finish, QueueInv
  <2>1. Pending' = {}
    BY <1>0, <1>1, <2>0, NoPlaces DEF Pending, Admitted
  <2>2. CopyWaited' /\ RamInv' /\ TagInv' /\ ProgressInv' /\ CopyInv' /\ GuardInv' /\ PromiseInv'
    BY <2>0, <2>1
    DEF CopyWaited, RamInv, TagInv, ProgressInv, CopyInv, GuardInv, PromiseInv
  <2>3. BootTagLast' /\ SuccessIsWhole'
    BY <1>0, <2>0 DEF ContentInv, BootTagLast, SuccessIsWhole, Whole
  <2> QED BY <2>2, <2>3 DEF ContentInv
<1>3. ASSUME apc'.pc = "erase", apc'.job = apc.job, apc'.step = apc.step,
             host' = host, promised' = promised,
             apc.step = 0 => ram'[0][0].word = "invalid",
             apc.step \in 1 .. Chunks - 1 => ram'[apc.step] = flash[<<apc.job.src, apc.step>>],
             apc.step = Chunks => ram'[0] = flash[<<apc.job.src, 0>>]
      PROVE  ContentInv'
  <2>1. Pending' = Pending
    BY <1>0, <1>3 DEF Pending, Admitted
  <2>2. CopyWaited' /\ RamInv' /\ TagInv' /\ GuardInv' /\ PromiseInv'
    BY <1>0, <1>1, <1>3, <2>1
    DEF ContentInv, CopyWaited, RamInv, TagInv, GuardInv, PromiseInv, Invalidating
  <2>3. ProgressInv'
    BY <1>1, <1>3 DEF ProgressInv
  <2>4. CopyInv'
    BY <1>0, <1>3 DEF ContentInv, CopyInv
  <2>5. BootTagLast' /\ SuccessIsWhole'
    BY <1>0, <1>3 DEF ContentInv, BootTagLast, SuccessIsWhole, Whole
  <2> QED BY <2>2, <2>3, <2>4, <2>5 DEF ContentInv
<1>4. CASE CopyRead
  <2>1. /\ apc.step \in 0 .. Chunks - 1 /\ apc.step \in ChunkIds
        /\ apc'.pc = "erase" /\ apc'.job = apc.job /\ apc'.step = apc.step
        /\ host' = host /\ promised' = promised
    BY <1>0, <1>4, FlashAssumption DEF CopyRead, ApcType, ChunkIds
  <2>2. ram'[apc.step] = IF apc.step = 0 THEN WithWord(flash[<<apc.job.src, apc.step>>], "invalid")
                         ELSE flash[<<apc.job.src, apc.step>>]
    BY <1>4, <2>1 DEF CopyRead, TypeOK
  <2>3. apc.step = 0 => ram'[0][0].word = "invalid"
    <3>1. WithWord(flash[<<apc.job.src, 0>>], "invalid")[0].word = "invalid"
      <4>1. <<apc.job.src, 0>> \in Sectors
        BY <1>0, PiecesTyped DEF Sectors, ApcType, JobType
      <4>2. flash[<<apc.job.src, 0>>] \in [PageIds -> PageType] /\ 0 \in PageIds
        BY <4>1, PiecesTyped DEF TypeOK
      <4> QED BY <4>2 DEF WithWord, PageType
    <3> QED BY <2>2, <3>1
  <2>4. apc.step \in 1 .. Chunks - 1 => ram'[apc.step] = flash[<<apc.job.src, apc.step>>]
    BY <2>2
  <2>5. apc.step # Chunks
    BY <2>1, FlashAssumption
  <2> QED BY <1>3, <2>1, <2>3, <2>4, <2>5
<1>5. CASE CopyRetag /\ ram'[0] = flash[<<apc.job.src, 0>>]
  <2>1. /\ apc.step = Chunks /\ host' = host /\ promised' = promised
        /\ apc'.pc = "erase" /\ apc'.job = apc.job /\ apc'.step = apc.step
    BY <1>0, <1>5 DEF CopyRetag, ApcType
  <2>2. apc.step # 0 /\ apc.step \notin 1 .. Chunks - 1
    BY <2>1, FlashAssumption
  <2> QED BY <1>3, <1>5, <2>1, <2>2
<1> QED BY <1>2, <1>4, <1>5

\* Reading pages back changes nothing, but may end the job.
LEMMA ReadBackContent ==
  ASSUME TypeOK, QueueInv, ContentInv, TypeOK', ReadBack
  PROVE  ContentInv'
<1>0. /\ apc.pc = "readback" /\ apc \in ApcType /\ OrderInv
      /\ UNCHANGED <<flash, ram, sq, mbox, dead, calls, unguarded>>
  BY DEF ReadBack, QueueInv, TypeOK, ApcType, OrderInv
<1>1. Pending' \subseteq Pending
  BY <1>0, ApcOrder DEF ApcNext
<1>2. CASE Finish(FALSE)
  <2>1. Answer(apc.job, FALSE) /\ apc'.pc = "idle"
    BY <1>2, IdleTyped DEF Finish
  <2>2. Waits(apc.job) => \A j \in Pending' : j.call # calls
    BY <1>0, <2>1, AnswerTakesOwn
  <2> QED BY <1>0, <1>1, <2>1, <2>2, FailedContent
<1>3. CASE apc' = [apc EXCEPT !.pc = "verify"] /\ UNCHANGED <<host, promised>>
  <2>1. apc'.pc = "verify" /\ apc'.job = apc.job /\ apc'.step = apc.step /\ Pending' = Pending
    BY <1>0, <1>3 DEF ApcType, Pending, Admitted
  <2>2. CopyWaited' /\ RamInv' /\ TagInv' /\ ProgressInv'
    BY <1>0, <1>3, <2>1 DEF ContentInv, CopyWaited, RamInv, TagInv, ProgressInv, Whole
  <2>3. CopyInv' /\ GuardInv' /\ PromiseInv'
    BY <1>0, <1>3, <2>1 DEF ContentInv, CopyInv, GuardInv, PromiseInv
  <2>4. BootTagLast' /\ SuccessIsWhole'
    BY <1>0, <1>3 DEF ContentInv, BootTagLast, SuccessIsWhole, Whole
  <2> QED BY <2>2, <2>3, <2>4 DEF ContentInv
<1> QED BY <1>2, <1>3 DEF ReadBack

\* Verifying what is written: it is in flash when the request is over, and with
\* the last request of its call the whole image is.
LEMMA VerifyContent ==
  ASSUME TypeOK, QueueInv, ContentInv, TypeOK', Verify
  PROVE  ContentInv'
<1>0. /\ apc.pc = "verify" /\ apc.pc # "idle" /\ apc \in ApcType /\ host \in HostType
      /\ UNCHANGED <<flash, ram, sq, mbox, dead, calls, unguarded>> /\ OrderInv
      /\ apc.job \in Pending /\ apc.job \in JobType
  BY DEF Verify, QueueInv, TypeOK, ApcType, HostType, OrderInv, Pending, Admitted
<1>1. Pending' \subseteq Pending
  BY <1>0, ApcOrder DEF ApcNext
<1>2. CASE Finish(FALSE)
  <2>1. Answer(apc.job, FALSE) /\ apc'.pc = "idle"
    BY <1>2, IdleTyped DEF Finish
  <2>2. Waits(apc.job) => \A j \in Pending' : j.call # calls
    BY <1>0, <2>1, AnswerTakesOwn
  <2> QED BY <1>0, <1>1, <2>1, <2>2, FailedContent
<1>3. CASE /\ Verified /\ apc.job.op = "copy" /\ apc.step < Chunks
           /\ apc' = [apc EXCEPT !.pc = "read", !.step = @ + 1]
           /\ UNCHANGED <<host, promised>>
  <2>1. /\ apc'.pc = "read" /\ apc'.job = apc.job /\ apc'.step = apc.step + 1
        /\ apc.step \in 0 .. Chunks - 1 /\ Pending' = Pending
    BY <1>0, <1>3, FlashAssumption DEF ApcType, Pending, Admitted
  <2>2. CopyWaited' /\ RamInv' /\ TagInv' /\ PromiseInv'
    BY <1>0, <1>3, <2>1 DEF ContentInv, CopyWaited, RamInv, TagInv, PromiseInv, Whole
  <2>3. ProgressInv' /\ GuardInv'
    BY <1>0, <1>3, <2>1 DEF ContentInv, ProgressInv, GuardInv, Whole
  <2>4. CopyInv'
    <3> DEFINE p == apc.job.part
               s == apc.job.src
    <3>1. /\ Target = <<p, apc.step>> /\ Buffer = ram[apc.step]
      BY <1>0, <1>3, <2>1, AtHand
    <3>2. ~ apc.job.short
      BY <1>0, <1>3, CopyAtHand DEF ContentInv
    <3>3. flash[<<p, apc.step>>] = ram[apc.step]
      BY <1>3, <3>1, <3>2 DEF Verified
    <3>4. apc.step # 0 => apc.step \in 1 .. Chunks - 1
      BY <2>1
    <3>5. \A c \in 1 .. apc.step : flash[<<p, c>>] = flash[<<s, c>>]
      <4>1. \A c \in 1 .. apc.step : c \in 1 .. apc.step - 1 \/ (c = apc.step /\ apc.step # 0)
        BY <2>1
      <4> QED BY <1>0, <1>3, <3>3, <3>4, <4>1 DEF ContentInv, CopyInv
    <3>6. flash[<<p, 0>>][0].word # "tag"
      <4>1. CASE apc.step = 0
        BY <1>0, <1>3, <3>3, <4>1 DEF ContentInv, CopyInv
      <4>2. CASE apc.step # 0
        <5>1. apc.step > 0
          BY <2>1, <4>2
        <5> QED BY <1>0, <1>3, <5>1 DEF ContentInv, CopyInv
      <4> QED BY <4>1, <4>2
    <3>7. apc'.step - 1 = apc.step
      BY <2>1
    <3> QED BY <1>0, <2>1, <3>5, <3>6, <3>7 DEF CopyInv
  <2>5. BootTagLast' /\ SuccessIsWhole'
    BY <1>0, <1>3 DEF ContentInv, BootTagLast, SuccessIsWhole, Whole
  <2> QED BY <2>2, <2>3, <2>4, <2>5 DEF ContentInv
<1>4. CASE /\ Verified /\ apc.job.op = "fpt" /\ apc.job.last /\ apc' = [apc EXCEPT !.pc = "refresh"]
           /\ UNCHANGED <<host, promised>>
  <2>1. apc'.pc = "refresh" /\ apc'.job = apc.job /\ apc'.step = apc.step /\ Pending' = Pending
    BY <1>0, <1>4 DEF ApcType, Pending, Admitted
  <2>2. CopyWaited' /\ RamInv' /\ TagInv' /\ PromiseInv' /\ CopyInv' /\ GuardInv'
    BY <1>0, <1>4, <2>1
    DEF ContentInv, CopyWaited, RamInv, TagInv, PromiseInv, CopyInv, GuardInv, Whole
  <2>3. host.pc = "wait" /\ host.image # NoImage /\ apc.job.call = calls
          => Whole(P0, host.image, ChunkIds)
    <3>1. SUFFICES ASSUME Waits(apc.job), host.image # NoImage
                   PROVE  Whole(P0, host.image, ChunkIds)
      BY DEF Waits
    <3>2. apc.job = Request(host) /\ host.pc = "wait"
      BY <1>0, <3>1, OwnAtHand
    <3>3. host.op = "fpt" /\ host.step = Chunks /\ apc.job.chunk = Chunks /\ host.step > 0
      <4>1. host.op = "fpt" /\ host.step = LastStep(host)
        BY <1>4, <3>2, RequestMade
      <4>2. host.image \in Images \ OneChunk
        BY <3>1, <3>2, <4>1 DEF QueueInv, JobInv
      <4>3. host.step = Chunks
        BY <4>1, <4>2 DEF LastStep
      <4> QED BY <3>2, <4>1, <4>3, RequestMade
    <3>4. Target = <<P0, Chunks - 1>> /\ Buffer = ram[0] /\ ~ apc.job.short
      BY <1>0, <1>4, <3>3, AtHand
    <3>5. flash[<<P0, Chunks - 1>>] = Piece(host.image, Chunks - 1)
      BY <1>4, <3>2, <3>3, <3>4 DEF Verified, ContentInv, RamInv
    <3>6. Whole(P0, host.image, 0 .. Chunks - 2)
      BY <3>2, <3>3 DEF ContentInv, ProgressInv
    <3>7. \A c \in ChunkIds : c \in 0 .. Chunks - 2 \/ c = Chunks - 1
      BY FlashAssumption DEF ChunkIds
    <3> QED BY <3>5, <3>6, <3>7 DEF Whole
  <2>4. ProgressInv'
    BY <1>0, <1>4, <2>1, <2>3 DEF ContentInv, ProgressInv, Whole
  <2>5. BootTagLast' /\ SuccessIsWhole'
    BY <1>0, <1>4 DEF ContentInv, BootTagLast, SuccessIsWhole, Whole
  <2> QED BY <2>2, <2>4, <2>5 DEF ContentInv
<1>5. CASE /\ Verified /\ Finish(TRUE) /\ ~ (apc.job.op = "copy" /\ apc.step < Chunks)
           /\ ~ (apc.job.op = "fpt" /\ apc.job.last)
  <2>0. Answer(apc.job, TRUE) /\ apc'.pc = "idle"
    BY <1>5, IdleTyped DEF Finish
  <2>1. CASE ~ Waits(apc.job)
    <3>1. host' = host /\ promised' = promised
      BY <2>0, <2>1, Answered DEF QueueInv
    <3>2. CopyWaited'
      BY <1>0, <1>1, <3>1, CopyWaitedKept DEF ContentInv
    <3> QED BY <1>0, <1>1, <2>0, <3>1, <3>2, QuietContent
  <2>2. CASE Waits(apc.job)
    <3>0. /\ apc.job = Request(host) /\ host.pc = "wait" /\ Pending' = {}
      BY <1>0, <1>5, <2>2, OwnAtHand, FinishOrder
    <3>1. CopyWaited' /\ TagInv' /\ CopyInv' /\ GuardInv'
      BY <2>0, <3>0 DEF CopyWaited, TagInv, CopyInv, GuardInv
    <3>2. BootTagLast'
      BY <1>0 DEF ContentInv, BootTagLast, Whole
    <3>3. /\ host.op \in {"pdi", "fpt", "copy"} /\ host.step \in 0 .. Chunks /\ host.part \in Parts
          /\ apc.job.op = host.op /\ apc.job.part = host.part
          /\ host.op = "pdi" => host.image \in Images
      BY <1>0, <3>0, RequestMade DEF HostType, QueueInv, JobInv
    \* What the request was about is in flash.
    <3>4. ~ apc.job.short => flash[Target] = Buffer
      BY <1>5 DEF Verified
    <3>5. host.op = "pdi" =>
            /\ Target = <<host.part, IF host.step = Chunks THEN 0 ELSE host.step>>
            /\ Buffer = ram[0] /\ (apc.job.short <=> Invalidating(host))
      BY <1>0, <3>0, <3>3, AtHand, RequestMade
    <3>6. host.op = "pdi" /\ ~ Invalidating(host) =>
            flash[Target] = Piece(host.image, IF host.step = Chunks THEN 0 ELSE host.step)
      <4>1. host.step % Chunks = IF host.step = Chunks THEN 0 ELSE host.step
        BY <3>3, StepChunks
      <4> QED BY <3>0, <3>3, <3>4, <3>5, <4>1 DEF ContentInv, RamInv
    <3>7. CASE /\ host.step < LastStep(host) /\ promised' = promised
               /\ host' = [host EXCEPT !.pc = "send", !.step = host.step + 1]
      <4>1. /\ host'.pc = "send" /\ host'.op = host.op /\ host'.step = host.step + 1
            /\ host'.part = host.part /\ host'.image = host.image
            /\ host'.step - 1 = host.step /\ host'.step - 2 = host.step - 1
        BY <1>0, <3>3, <3>7 DEF HostType
      <4>2. host.step < Chunks /\ (host.op = "pdi" => (Invalidating(host) <=> host.step = 0))
        <5>1. LastStep(host) = Chunks
          BY <3>3, <3>7 DEF LastStep
        <5> QED BY <3>7, <5>1, FlashAssumption DEF Invalidating
      <4>3. RamInv' /\ PromiseInv' /\ SuccessIsWhole'
        BY <1>0, <3>0, <3>7, <4>1
        DEF ContentInv, RamInv, PromiseInv, SuccessIsWhole, Whole
      <4>4. host.op = "pdi" => /\ Whole(host.part, host.image, 1 .. host.step)
                               /\ flash[<<host.part, 0>>][0].word # "tag"
        <5>1. SUFFICES ASSUME host.op = "pdi"
                       PROVE  /\ Whole(host.part, host.image, 1 .. host.step)
                              /\ flash[<<host.part, 0>>][0].word # "tag"
          OBVIOUS
        <5>2. CASE host.step = 0
          <6>1. Target = <<host.part, 0>> /\ apc.job.short /\ Buffer = ram[0]
            BY <3>3, <3>5, <4>2, <5>1, <5>2
          <6>2. flash[<<host.part, 0>>][0].word = ram[0][0].word
            BY <1>5, <6>1 DEF Verified
          <6>3. ram[0][0].word = "invalid"
            BY <3>0, <4>2, <5>1, <5>2 DEF ContentInv, RamInv
          <6> QED BY <5>2, <6>2, <6>3 DEF Whole
        <5>3. CASE host.step > 0
          <6>1. flash[<<host.part, host.step>>] = Piece(host.image, host.step)
            BY <3>3, <3>5, <3>6, <4>2, <5>1, <5>3
          <6>2. /\ Whole(host.part, host.image, 1 .. host.step - 1)
                /\ flash[<<host.part, 0>>][0].word # "tag"
            BY <3>0, <4>2, <5>1, <5>3 DEF ContentInv, ProgressInv
          <6>3. \A c \in 1 .. host.step : c \in 1 .. host.step - 1 \/ c = host.step
            BY <3>3
          <6> QED BY <6>1, <6>2, <6>3 DEF Whole
        <5> QED BY <3>3, <5>2, <5>3
      <4>5. host.op = "fpt" => Whole(P0, host.image, 0 .. host.step - 1)
        <5>1. SUFFICES ASSUME host.op = "fpt" PROVE Whole(P0, host.image, 0 .. host.step - 1)
          OBVIOUS
        <5>2. CASE host.step = 0
          <6>1. 0 .. host.step - 1 = {}
            BY <5>2
          <6> QED BY <6>1 DEF Whole
        <5>3. CASE host.step > 0
          <6>1. Target = <<P0, host.step - 1>> /\ Buffer = ram[0] /\ ~ apc.job.short
            BY <1>0, <3>0, <5>1, <5>3, AtHand, RequestMade
          <6>2. flash[<<P0, host.step - 1>>] = Piece(host.image, host.step - 1)
            BY <3>0, <3>4, <5>1, <5>3, <6>1 DEF ContentInv, RamInv
          <6>3. Whole(P0, host.image, 0 .. host.step - 2)
            BY <3>0, <5>1, <5>3 DEF ContentInv, ProgressInv
          <6>4. \A c \in 0 .. host.step - 1 : c \in 0 .. host.step - 2 \/ c = host.step - 1
            BY <3>3
          <6> QED BY <6>2, <6>3, <6>4 DEF Whole
        <5> QED BY <3>3, <5>2, <5>3
      <4>6. ProgressInv'
        BY <1>0, <2>0, <4>1, <4>4, <4>5 DEF ProgressInv, Whole
      <4> QED BY <3>1, <3>2, <4>3, <4>6 DEF ContentInv
    <3>8. CASE /\ host.step = LastStep(host) /\ host'.pc = "idle"
               /\ promised' = [promised EXCEPT ![host.part] =
                                IF host.op = "copy" THEN promised[host.src] ELSE host.image]
      <4>1. RamInv' /\ ProgressInv' /\ PromiseInv'
        BY <3>0, <3>8 DEF RamInv, ProgressInv, PromiseInv
      <4>2. host.op # "fpt"
        BY <1>5, <3>0, <3>8, RequestMade
      <4>3. promised'[host.part] # NoImage
              => Whole(host.part, promised'[host.part], Extent(promised'[host.part]))
        <5>1. CASE host.op = "pdi"
          <6>1. promised'[host.part] = host.image
            BY <3>3, <3>8, <5>1 DEF TypeOK
          <6>2. CASE host.image \in OneChunk
            <7>1. host.step = 0 /\ ~ Invalidating(host)
              BY <3>8, <6>2 DEF LastStep, Invalidating
            <7>2. flash[<<host.part, 0>>] = Piece(host.image, 0)
              BY <3>5, <3>6, <5>1, <7>1, FlashAssumption
            <7> QED BY <6>1, <6>2, <7>2 DEF Whole, Extent
          <6>3. CASE host.image \notin OneChunk
            <7>1. host.step = Chunks /\ host.step > 0 /\ ~ Invalidating(host)
              BY <3>3, <3>8, <5>1, <6>3, FlashAssumption DEF LastStep, Invalidating
            <7>2. flash[<<host.part, 0>>] = Piece(host.image, 0)
              BY <3>5, <3>6, <5>1, <7>1
            <7>3. Whole(host.part, host.image, 1 .. Chunks - 1)
              BY <3>0, <5>1, <7>1 DEF ContentInv, ProgressInv
            <7>4. \A c \in ChunkIds : c = 0 \/ c \in 1 .. Chunks - 1
              BY FlashAssumption DEF ChunkIds
            <7> QED BY <6>1, <6>3, <7>2, <7>3, <7>4 DEF Whole, Extent
          <6> QED BY <6>2, <6>3
        <5>2. CASE host.op = "copy"
          <6>1. /\ apc.job.op = "copy" /\ host.part = apc.job.part /\ host.src = apc.job.src
                /\ ~ apc.job.short
            BY <1>0, <3>3, <5>2, CopyAtHand DEF ContentInv
          <6>2. apc.step = Chunks
            BY <1>0, <1>5, <6>1, FlashAssumption DEF ApcType
          <6>3. Target = <<host.part, 0>> /\ Buffer = ram[0]
            BY <1>0, <6>1, <6>2, AtHand
          <6>4. flash[<<host.part, 0>>] = flash[<<host.src, 0>>]
            BY <1>0, <3>4, <6>1, <6>2, <6>3 DEF ContentInv, CopyInv
          <6>5. \A c \in 1 .. Chunks - 1 : flash[<<host.part, c>>] = flash[<<host.src, c>>]
            BY <1>0, <6>1, <6>2 DEF ContentInv, CopyInv
          <6>6. \A c \in ChunkIds : c = 0 \/ c \in 1 .. Chunks - 1
            BY FlashAssumption DEF ChunkIds
          <6>7. promised'[host.part] = promised[host.src] /\ host.src \in Parts
            BY <1>0, <3>3, <3>8, <5>2 DEF TypeOK, HostType
          <6>8. promised[host.src] # NoImage
                  => Whole(host.src, promised[host.src], Extent(promised[host.src]))
            BY <6>7 DEF ContentInv, SuccessIsWhole
          <6>9. \A c \in Extent(promised[host.src]) : c \in ChunkIds
            BY PiecesTyped DEF Extent
          <6> QED BY <6>4, <6>5, <6>6, <6>7, <6>8, <6>9 DEF Whole
        <5> QED BY <3>3, <4>2, <5>1, <5>2
      <4>4. \A p \in Parts : p # host.part => promised'[p] = promised[p]
        BY <3>8 DEF TypeOK
      <4>5. SuccessIsWhole'
        BY <1>0, <4>3, <4>4 DEF ContentInv, SuccessIsWhole, Whole
      <4> QED BY <3>1, <3>2, <4>1, <4>5 DEF ContentInv
    <3> QED BY <2>0, <2>2, <3>7, <3>8, Answered DEF QueueInv
  <2> QED BY <2>1, <2>2
<1> QED BY <1>2, <1>3, <1>4, <1>5 DEF Verify

\* Loading the table again ends an update of the FPT.
LEMMA RefreshContent ==
  ASSUME TypeOK, QueueInv, ContentInv, TypeOK', Refresh
  PROVE  ContentInv'
<1>0. /\ apc.pc = "refresh" /\ apc.pc # "idle" /\ host \in HostType
      /\ UNCHANGED <<flash, ram, sq, mbox, dead, calls, unguarded>> /\ OrderInv
      /\ apc.job.op = "fpt" /\ apc.job.last
  BY DEF Refresh, QueueInv, JobInv, TypeOK, HostType, OrderInv
<1>1. Pending' \subseteq Pending
  BY <1>0, ApcOrder DEF ApcNext
<1>2. CASE Finish(FALSE)
  <2>1. Answer(apc.job, FALSE) /\ apc'.pc = "idle"
    BY <1>2, IdleTyped DEF Finish
  <2>2. Waits(apc.job) => \A j \in Pending' : j.call # calls
    BY <1>0, <2>1, AnswerTakesOwn
  <2> QED BY <1>0, <1>1, <2>1, <2>2, FailedContent
<1>3. CASE Finish(TRUE)
  <2>0. Answer(apc.job, TRUE) /\ apc'.pc = "idle"
    BY <1>3, IdleTyped DEF Finish
  <2>1. CASE ~ Waits(apc.job)
    <3>1. host' = host /\ promised' = promised
      BY <2>0, <2>1, Answered DEF QueueInv
    <3>2. CopyWaited'
      BY <1>0, <1>1, <3>1, CopyWaitedKept DEF ContentInv
    <3> QED BY <1>0, <1>1, <2>0, <3>1, <3>2, QuietContent
  <2>2. CASE Waits(apc.job)
    <3>1. apc.job = Request(host) /\ host.pc = "wait" /\ apc.job.call = calls /\ Pending' = {}
      BY <1>0, <1>3, <2>2, OwnAtHand, FinishOrder DEF Waits
    <3>2. host.op = "fpt" /\ host.step = LastStep(host) /\ host.part = P0
      BY <1>0, <3>1, RequestMade DEF QueueInv, JobInv
    <3>3. /\ host'.pc = "idle"
          /\ promised' = [promised EXCEPT ![P0] = host.image]
      <4>1. host.step \in 0 .. Chunks /\ ~ (host.step < LastStep(host))
        BY <1>0, <3>2, FlashAssumption DEF HostType
      <4> QED BY <2>0, <2>2, <3>2, <4>1, Answered DEF QueueInv
    <3>4. host.image # NoImage => Whole(P0, host.image, Extent(host.image))
      <4>1. host.image # NoImage => Whole(P0, host.image, ChunkIds)
        BY <1>0, <3>1 DEF ContentInv, ProgressInv
      <4> QED BY <4>1, PiecesTyped DEF Whole, Extent
    <3>5. CopyWaited' /\ RamInv' /\ TagInv' /\ ProgressInv' /\ CopyInv' /\ GuardInv' /\ PromiseInv'
      BY <2>0, <3>1, <3>3
      DEF CopyWaited, RamInv, TagInv, ProgressInv, CopyInv, GuardInv, PromiseInv
    <3>6. BootTagLast'
      BY <1>0 DEF ContentInv, BootTagLast, Whole
    <3>7. \A p \in Parts : promised'[p] = IF p = P0 THEN host.image ELSE promised[p]
      BY <3>3 DEF TypeOK
    <3>8. SuccessIsWhole'
      <4>1. ASSUME NEW p \in Parts, promised'[p] # NoImage
            PROVE  Whole(p, promised'[p], Extent(promised'[p]))
        <5>1. CASE p = P0
          BY <3>4, <3>7, <4>1, <5>1
        <5>2. CASE p # P0
          BY <3>7, <4>1, <5>2 DEF ContentInv, SuccessIsWhole
        <5> QED BY <5>1, <5>2
      <4> QED BY <1>0, <4>1 DEF SuccessIsWhole, Whole
    <3> QED BY <3>5, <3>6, <3>8 DEF ContentInv
  <2> QED BY <2>1, <2>2
<1>4. PICK ok \in BOOLEAN : Finish(ok)
  <2>1. HeaderValid(flash[FptSector]) \in BOOLEAN
    BY DEF HeaderValid
  <2> QED BY <2>1 DEF Refresh
<1> QED BY <1>2, <1>3, <1>4

\* What the APC task does.
LEMMA ApcContent ==
  ASSUME TypeOK, QueueInv, ContentInv, TypeOK', ApcNext
  PROVE  ContentInv'
<1>0. OrderInv /\ Pending' \subseteq Pending /\ apc \in ApcType
  BY ApcOrder DEF QueueInv, OrderInv, TypeOK, ApcType
<1>1. CASE ApcPend
  <2>0. UNCHANGED <<flash, ram, calls, unguarded>> /\ apc.pc = "idle" /\ ~ dead
    BY <1>1 DEF ApcPend
  <2>1. CASE Head(mbox).op # "fpt" /\ table = "torn"
    <3>1. Answer(Head(mbox), FALSE) /\ apc' = apc
      BY <1>1, <2>1 DEF ApcPend
    <3>2. Waits(Head(mbox)) => \A j \in Pending' : j.call # calls
      BY <1>1, <2>1, AnswerTakesOwn
    <3> QED BY <1>0, <2>0, <3>1, <3>2, FailedContent
  <2>2. CASE ~ Found(Head(mbox)) /\ ~ (Head(mbox).op # "fpt" /\ table = "torn")
    <3>1. apc' = apc /\ host' = host /\ promised' = promised
      BY <1>1, <2>2 DEF ApcPend
    <3>2. CopyWaited'
      BY <1>0, <2>0, <3>1, CopyWaitedKept DEF ContentInv
    <3> QED BY <1>0, <2>0, <3>1, <3>2, QuietContent
  <2>3. CASE Found(Head(mbox)) /\ ~ (Head(mbox).op # "fpt" /\ table = "torn")
    <3>1. /\ apc' = [IdleApc EXCEPT !.pc = IF Head(mbox).op = "copy" THEN "read" ELSE "erase",
                                    !.job = Head(mbox)]
          /\ host' = host /\ promised' = promised
      BY <1>1, <2>3 DEF ApcPend
    <3>2. /\ apc'.pc = (IF Head(mbox).op = "copy" THEN "read" ELSE "erase")
          /\ apc'.job = Head(mbox) /\ apc'.step = 0
      BY <3>1 DEF IdleApc
    <3>3. CopyWaited'
      BY <1>0, <2>0, <3>1, CopyWaitedKept DEF ContentInv
    <3> QED BY <1>0, <2>0, <3>1, <3>2, <3>3, QuietContent
  <2> QED BY <2>1, <2>2, <2>3
<1>2. CASE FlashFails \/ (WritePageFails /\ ~ (apc.page < LastPage))
  <2>1. /\ Finish(FALSE) /\ UNCHANGED <<flash, ram, sq, mbox, dead, calls, unguarded>>
        /\ apc.pc # "idle"
    BY <1>2 DEF FlashFails, WritePageFails
  <2>2. Answer(apc.job, FALSE) /\ apc'.pc = "idle"
    BY <2>1, IdleTyped DEF Finish
  <2>3. Waits(apc.job) => \A j \in Pending' : j.call # calls
    BY <2>1, <2>2, AnswerTakesOwn
  <2> QED BY <1>0, <2>1, <2>2, <2>3, FailedContent
<1>3. CASE WritePageFails /\ apc.page < LastPage
  <2>1. /\ apc' = [apc EXCEPT !.page = @ + 1] /\ apc.pc # "idle"
        /\ UNCHANGED <<flash, ram, dead, calls, unguarded, host, promised>>
    BY <1>3 DEF WritePageFails
  <2>2. apc'.pc = apc.pc /\ apc'.job = apc.job /\ apc'.step = apc.step
    BY <1>0, <2>1 DEF ApcType
  <2>3. CopyWaited'
    BY <1>0, <2>1, CopyWaitedKept DEF ContentInv
  <2> QED BY <1>0, <2>1, <2>2, <2>3, QuietContent
<1> QED
  BY <1>1, <1>2, <1>3, ReadContent, EraseContent, WriteContent, ReadBackContent, VerifyContent,
     RefreshContent
  DEF ApcNext

\* Accepting or refusing a request.
LEMMA AcceptContent ==
  ASSUME TypeOK, QueueInv, ContentInv, TypeOK', AmiAccept
  PROVE  ContentInv'
<1>0. /\ OrderInv /\ Pending' \subseteq Pending
      /\ UNCHANGED <<flash, ram, calls, apc, dead, unguarded>>
  BY AcceptOrder DEF QueueInv, OrderInv, AmiAccept
<1>1. \/ apc'.pc = "idle"
      \/ apc.pc # "idle" /\ apc'.pc = apc.pc /\ apc'.job = apc.job /\ apc'.step = apc.step
  BY <1>0
<1>2. \E job : \/ host' = host /\ promised' = promised
               \/ Answer(job, FALSE) /\ (Waits(job) => \A j \in Pending' : j.call # calls)
  <2>1. CASE Accepted(Head(sq))
    BY <2>1 DEF AmiAccept
  <2>2. CASE ~ Accepted(Head(sq))
    <3>1. Answer(Head(sq), FALSE)
      BY <2>2 DEF AmiAccept
    <3>2. Waits(Head(sq)) => \A j \in Pending' : j.call # calls
      BY <2>2, AnswerTakesOwn
    <3> QED BY <3>1, <3>2
  <2> QED BY <2>1, <2>2
<1>3. PICK job : \/ host' = host /\ promised' = promised
                 \/ Answer(job, FALSE) /\ (Waits(job) => \A j \in Pending' : j.call # calls)
  BY <1>2
<1>4. /\ promised' = promised /\ (host'.pc = "idle" \/ host' = host)
      /\ host' = host \/ \A j \in Pending' : j.call # calls
  BY <1>3, Answered DEF QueueInv
<1>5. CopyWaited'
  BY <1>0, <1>4, CopyWaitedKept DEF ContentInv
<1> QED BY <1>0, <1>1, <1>4, <1>5, QuietContent

\* The first state: every partition holds the old image.
LEMMA ContentInit == Init => ContentInv
<1>1. SUFFICES ASSUME Init PROVE ContentInv
  OBVIOUS
<1>2. Pending = {} /\ apc.pc = "idle" /\ host.pc = "idle"
  BY <1>1, NoPlaces, IdleTyped DEF Init, Pending, Admitted, IdleHost
<1>3. CopyWaited /\ RamInv /\ TagInv /\ ProgressInv /\ CopyInv /\ GuardInv /\ PromiseInv
  BY <1>2 DEF CopyWaited, RamInv, TagInv, ProgressInv, CopyInv, GuardInv, PromiseInv
<1>4. \A p \in Parts, c \in ChunkIds : flash[<<p, c>>] = Piece(OldImage, c)
  <2>1. \A p \in Parts, c \in ChunkIds : <<p, c>> \in Sectors /\ <<p, c>> # FptSector
    BY FlashAssumption DEF Sectors, FptSector
  <2> QED BY <1>1, <2>1, Zenon DEF Init
<1>5. \A p \in Parts : flash[<<p, 0>>][0].image = OldImage
  <2>1. Piece(OldImage, 0)[0].image = OldImage
    BY PiecesTyped DEF Piece, Page
  <2> QED BY <1>4, <2>1, PiecesTyped
<1>6. BootTagLast
  BY <1>4, <1>5, PiecesTyped DEF BootTagLast, Whole, Extent
<1>7. SuccessIsWhole
  BY <1>1, <1>4, PiecesTyped DEF SuccessIsWhole, Whole, Extent, Init
<1> QED BY <1>3, <1>6, <1>7 DEF ContentInv

\* A step.
LEMMA ContentKept ==
  "copy" \notin MayAbandon /\ TypeOK /\ QueueInv /\ ContentInv /\ [Next]_vars => ContentInv'
<1>1. SUFFICES ASSUME "copy" \notin MayAbandon, TypeOK, QueueInv, ContentInv, [Next]_vars
               PROVE  ContentInv'
  OBVIOUS
<1>2. TypeOK'
  BY <1>1, QueueKept
<1>3. CASE AmcReset
  <2>1. /\ Pending' = {} /\ apc'.pc = "idle" /\ host' = host
        /\ UNCHANGED <<flash, ram, calls, promised, unguarded>>
    BY <1>1, <1>3, ResetOrder DEF AmcReset, OrderInv, QueueInv
  <2>2. CopyWaited'
    BY <2>1 DEF CopyWaited
  <2> QED BY <1>1, <1>2, <2>1, <2>2, QuietContent
<1>4. CASE UNCHANGED vars
  <2>1. Pending' = Pending /\ UNCHANGED <<flash, ram, dead, calls, promised, unguarded, host, apc>>
    BY <1>4 DEF vars, Pending, Admitted
  <2>2. CopyWaited'
    BY <1>1, <2>1 DEF ContentInv, CopyWaited
  <2> QED BY <1>1, <1>2, <2>1, <2>2, QuietContent
<1> QED
  BY <1>1, <1>2, <1>3, <1>4, HostContent, AcceptContent, ApcContent DEF Next

\* What flash and shared memory hold, while copies are waited for to their end.
LEMMA ContentCorrect ==
  ASSUME "copy" \notin MayAbandon
  PROVE  Spec => []ContentInv
<1>1. Init => TypeOK /\ QueueInv /\ ContentInv
  BY QueueInit, ContentInit
<1>2. TypeOK /\ QueueInv /\ ContentInv /\ [Next]_vars => (TypeOK /\ QueueInv /\ ContentInv)'
  BY QueueKept, ContentKept
<1> QED BY <1>1, <1>2, PTL DEF Spec

\* A partition with a valid boot tag holds the rest of the same image, whatever
\* downloads and updates are killed, time out, fail or are lost in a reset.
THEOREM TagIsLast ==
  ASSUME "copy" \notin MayAbandon
  PROVE  Spec => []BootTagLast
<1>1. ContentInv => BootTagLast
  BY DEF ContentInv
<1> QED BY <1>1, ContentCorrect, PTL

\* A call that returned 0 has put its whole image into flash, and no request of
\* another call spoils it.
THEOREM WholeAfterSuccess ==
  ASSUME "copy" \notin MayAbandon
  PROVE  Spec => []SuccessIsWhole
<1>1. ContentInv => SuccessIsWhole
  BY DEF ContentInv
<1> QED BY <1>1, ContentCorrect, PTL

-----------------------------------------------------------------------------
(* A call fails for a reason.                                              *)

\* Blanking the boot tag and restoring it gives the packet back.
LEMMA TagRestored ==
  ASSUME NEW d \in [PageIds -> PageType]
  PROVE  WithWord(WithWord(d, "invalid"), d[0].word) = d
<1>1. d[0] \in PageType
  BY PiecesTyped
<1>2. [[d[0] EXCEPT !.word = "invalid"] EXCEPT !.word = d[0].word] = d[0]
  BY <1>1 DEF PageType
<1> QED BY <1>2, PiecesTyped DEF WithWord

\* The request that is waited for is that of the call.
LEMMA OwnRequest ==
  ASSUME TypeOK, QueueInv, NEW j \in Pending, Waits(j)
  PROVE  /\ j = Request(host) /\ j.op = host.op /\ host.pc = "wait"
         /\ j.part = host.part /\ j.src = host.src
         /\ j.last <=> host.op # "copy" /\ host.step = LastStep(host)
         /\ host.op = "fpt" => j.chunk = host.step
<1>1. j = Request(host) /\ host.pc = "wait"
  BY DEF Waits, QueueInv, OwnInv
<1> QED BY <1>1, RequestMade

\* A request of the call is waited for.
LEMMA OwnWaits ==
  ASSUME TypeOK, QueueInv, host.pc # "idle", NEW j \in Pending, j.call = calls
  PROVE  Waits(j)
<1>1. host.pc \in {"send", "wait"}
  BY DEF TypeOK
<1>2. host.pc # "send"
  BY DEF QueueInv, OwnInv
<1> QED BY <1>1, <1>2 DEF Waits

\* The source of a copy is left alone by the copy.
LEMMA SourceKept ==
  ASSUME TypeOK, QueueInv, ContentInv, apc.pc # "idle", apc.job.op = "copy",
         \A s \in Sectors : s # Target => flash'[s] = flash[s]
  PROVE  flash'[<<apc.job.src, 0>>] = flash[<<apc.job.src, 0>>]
<1>1. apc.job.part # apc.job.src /\ apc.job \in JobType
  BY CopyAtHand, AtHand DEF ContentInv
<1>2. <<apc.job.src, 0>> \in Sectors /\ <<apc.job.src, 0>> # Target
  BY <1>1, AtHand, PiecesTyped DEF JobType
<1> QED BY <1>2

\* What a copy has put aside stays aside.
LEMMA RetagKept ==
  ASSUME TypeOK, QueueInv, ContentInv, RetagInv, Next
  PROVE  RetagInv'
<1> DEFINE src == <<apc.job.src, 0>>
<1>0. apc \in ApcType /\ host \in HostType
  BY DEF TypeOK, ApcType, HostType
<1>1. ASSUME apc'.pc # "idle", apc'.job.op = "copy", apc.pc # "idle", apc'.job = apc.job
      PROVE  <<apc'.job.src, 0>> = src /\ apc.job.op = "copy" /\ host.pc = "wait"
  BY <1>1, CopyAtHand DEF ContentInv
<1>2. CASE HostSend
  <2>1. ~ (apc.pc # "idle" /\ apc.job.op = "copy")
    BY <1>2, CopyAtHand DEF ContentInv, HostSend
  <2> QED BY <1>2, <2>1 DEF HostSend, RetagInv
<1>3. CASE UNCHANGED <<apc, flash, ram>>
  BY <1>3 DEF RetagInv
<1>4. CASE apc'.pc = "idle"
  BY <1>4 DEF RetagInv
<1>5. CASE ApcPend
  <2>1. \/ apc' = apc /\ UNCHANGED <<flash, ram>>
        \/ apc' = [IdleApc EXCEPT !.pc = IF Head(mbox).op = "copy" THEN "read" ELSE "erase",
                                  !.job = Head(mbox)]
    BY <1>5 DEF ApcPend
  <2>2. CASE apc' = [IdleApc EXCEPT !.pc = IF Head(mbox).op = "copy" THEN "read" ELSE "erase",
                                    !.job = Head(mbox)]
    <3>1. /\ apc'.pc = (IF Head(mbox).op = "copy" THEN "read" ELSE "erase")
          /\ apc'.job = Head(mbox) /\ apc'.step = 0
      BY <2>2 DEF IdleApc
    <3> QED BY <3>1 DEF RetagInv
  <2> QED BY <1>3, <2>1, <2>2
<1>6. CASE CopyRead
  <2>1. /\ apc.pc = "read" /\ apc.step \in 0 .. Chunks - 1 /\ apc.step \in ChunkIds /\ apc.job.op = "copy"
        /\ apc'.pc = "erase" /\ apc'.job = apc.job /\ apc'.step = apc.step /\ flash' = flash
        /\ apc'.tag = IF apc.step = 0 THEN flash[<<apc.job.src, apc.step>>][0].word ELSE apc.tag
        /\ ram' = [ram EXCEPT ![apc.step] = IF apc.step = 0 THEN WithWord(flash[<<apc.job.src, apc.step>>], "invalid")
                                            ELSE flash[<<apc.job.src, apc.step>>]]
    BY <1>0, <1>6, FlashAssumption DEF CopyRead, ApcType, ChunkIds, QueueInv, JobInv
  <2>2. CASE apc.step = 0
    <3>1. ram'[0] = WithWord(flash[src], "invalid") /\ apc'.tag = flash[src][0].word
      BY <2>1, <2>2, PiecesTyped DEF TypeOK
    <3> QED BY <2>1, <3>1 DEF RetagInv
  <2>3. CASE apc.step # 0
    <3>1. ram'[0] = ram[0] /\ apc'.tag = apc.tag /\ apc.step > 0
      BY <2>1, <2>3, PiecesTyped DEF TypeOK
    <3> QED BY <2>1, <3>1 DEF RetagInv
  <2> QED BY <2>2, <2>3
<1>7. CASE CopyRetag
  <2>1. \/ apc'.pc = "idle"
        \/ /\ apc'.pc = "erase" /\ apc'.job = apc.job /\ apc'.step = apc.step /\ apc'.tag = apc.tag
           /\ apc.pc = "read" /\ apc.step = Chunks /\ flash' = flash
    BY <1>0, <1>7, IdleTyped DEF CopyRetag, Finish, ApcType
  <2>2. Chunks > 0 /\ ~ (Chunks < Chunks)
    BY FlashAssumption
  <2> QED BY <1>4, <2>1, <2>2 DEF RetagInv
<1>8. CASE Erase \/ WritePage \/ (WritePageFails /\ apc.page < LastPage)
  <2>1. /\ apc.pc \in {"erase", "write"} /\ apc'.pc \in {"write", "readback"} /\ apc'.job = apc.job
        /\ apc'.step = apc.step /\ apc'.tag = apc.tag /\ ram' = ram
    BY <1>0, <1>8 DEF Erase, WritePage, WritePageFails, ApcType
  <2>2. \A s \in Sectors : s # Target => flash'[s] = flash[s]
    BY <1>8 DEF Erase, WritePage, WritePageFails, TypeOK
  <2>3. apc.job.op = "copy" => flash'[src] = flash[src]
    BY <2>1, <2>2, SourceKept
  <2> QED BY <2>1, <2>3 DEF RetagInv
<1>9. CASE Verify
  <2>1. \/ apc'.pc = "idle"
        \/ /\ apc'.pc = "read" /\ apc'.job = apc.job /\ apc'.tag = apc.tag /\ apc.step < Chunks
        \/ apc'.pc = "refresh" /\ apc'.job = apc.job /\ apc.job.op = "fpt"
    BY <1>0, <1>9, IdleTyped DEF Verify, Finish, ApcType
  <2>2. apc.pc = "verify" /\ UNCHANGED <<flash, ram>>
    BY <1>9 DEF Verify
  <2> QED BY <1>4, <2>1, <2>2 DEF RetagInv
<1>10. CASE FlashFails \/ (WritePageFails /\ ~ (apc.page < LastPage)) \/ Refresh \/ AmcReset
  <2>1. apc'.pc = "idle"
    BY <1>10, IdleTyped DEF FlashFails, WritePageFails, Refresh, AmcReset, Finish
  <2> QED BY <1>4, <2>1
<1>11. CASE ReadBack
  <2>1. \/ apc'.pc = "idle"
        \/ apc'.pc = "verify" /\ apc'.job = apc.job /\ apc'.tag = apc.tag /\ apc'.step = apc.step
    BY <1>0, <1>11, IdleTyped DEF ReadBack, Finish, ApcType
  <2>2. apc.pc = "readback" /\ UNCHANGED <<flash, ram>>
    BY <1>11 DEF ReadBack
  <2> QED BY <1>4, <2>1, <2>2 DEF RetagInv
<1>12. CASE HostCall \/ HostAbandon \/ HostTimeout \/ AmiAccept
  <2>1. UNCHANGED <<apc, flash, ram>>
    BY <1>12 DEF HostCall, Start, HostAbandon, HostTimeout, AmiAccept
  <2> QED BY <1>3, <2>1
<1> QED BY <1>2, <1>5, <1>6, <1>7, <1>8, <1>9, <1>10, <1>11, <1>12 DEF Next, HostNext, ApcNext

\* UndisturbedSucceeds of one step.
Undisturbed == CallFails => ~ clean \/ ~ clean' \/ HostAbandon

\* What a step may do to a call that goes on.
LEMMA CleanSame ==
  ASSUME TypeOK, QueueInv, CleanInv, calls' = calls, clean' => clean /\ ~ dead',
         host'.pc = "idle" \/ host' = host,
         clean /\ host.pc # "idle" /\ host' = host =>
           /\ valid' = valid /\ table' = table
           /\ Pending' \subseteq Pending /\ OnItsWay'
           /\ host.op = "fpt" /\ host.step > 0 => flash'[FptSector] = flash[FptSector]
           /\ host.op = "fpt" /\ host.pc = "wait" => ram'[0] = ram[0]
           /\ WrittenSoFar'
  PROVE  CleanInv'
<1>1. SUFFICES ASSUME clean, ~ dead', host.pc # "idle", host' = host PROVE CleanInv'
  BY DEF CleanInv
<1>2. TableFound /\ NoOtherFpt /\ HeaderSent
  BY <1>1 DEF CleanInv
<1>3. TableFound' /\ NoOtherFpt'
  BY <1>1, <1>2 DEF TableFound, NoOtherFpt, Listed, HasEntry
<1>4. HeaderSent'
  <2>1. CASE host.step > 0
    BY <1>1, <1>2, <2>1 DEF HeaderSent, HeaderValid
  <2>2. CASE ~ (host.step > 0)
    BY <1>1, <1>2, <2>2 DEF HeaderSent
  <2> QED BY <2>1, <2>2
<1> QED BY <1>1, <1>3, <1>4 DEF CleanInv

\* A call that ends well, or does not end, has not failed.
LEMMA NotFailed ==
  ASSUME host.pc = "idle" \/ host' = host \/ host'.pc # "idle" \/ host' = Returned("ok")
  PROVE  Undisturbed
BY DEF Undisturbed, CallFails, Returned, IdleHost

\* An answer without an error lets a call go on or ends it well.
LEMMA AnsweredOk ==
  ASSUME TypeOK, NEW job, Answer(job, TRUE)
  PROVE  host' = host \/ host'.pc = "send" \/ host' = Returned("ok")
<1>1. host \in HostType
  BY DEF TypeOK, HostType
<1>2. CASE Waits(job) /\ host.step < LastStep(host)
  BY <1>1, <1>2 DEF Answer, HostType
<1>3. CASE Waits(job) /\ ~ (host.step < LastStep(host))
  BY <1>3 DEF Answer
<1>4. CASE ~ Waits(job)
  BY <1>4 DEF Answer
<1> QED BY <1>2, <1>3, <1>4

\* A queue is its head and its tail.
LEMMA HeadAndTail ==
  ASSUME NEW S, NEW s \in Seq(S), s # <<>>
  PROVE  ToSet(s) = {Head(s)} \cup ToSet(Tail(s))
<1>1. /\ Len(s) \in Nat \ {0} /\ Head(s) = s[1] /\ Len(Tail(s)) = Len(s) - 1
      /\ Head(s) \in ToSet(s) /\ ToSet(Tail(s)) \subseteq ToSet(s) /\ Tail(s) \in Seq(S)
      /\ \A k \in 1 .. Len(Tail(s)) : Tail(s)[k] = s[k + 1]
  BY Taken
<1>2. ASSUME NEW x \in ToSet(s) PROVE x = Head(s) \/ x \in ToSet(Tail(s))
  <2>1. PICK k \in 1 .. Len(s) : s[k] = x
    BY Places
  <2>2. CASE k = 1
    BY <1>1, <2>1, <2>2
  <2>3. CASE k # 1
    <3>1. k - 1 \in 1 .. Len(Tail(s)) /\ (k - 1) + 1 = k
      BY <1>1, <2>3
    <3>2. Tail(s)[k - 1] = x
      BY <1>1, <2>1, <3>1
    <3> QED BY <1>1, <3>1, <3>2, Places
  <2> QED BY <2>2, <2>3
<1> QED BY <1>1, <1>2

\* The driver: a call that starts undisturbed finds a good table and no update
\* of the FPT; the request of a call that waits is not lost.
LEMMA HostClean ==
  ASSUME TypeOK, QueueInv, ContentInv, CleanInv, HostNext
  PROVE  CleanInv' /\ Undisturbed
<1>0. host \in HostType /\ OrderInv
  BY DEF TypeOK, HostType, QueueInv, OrderInv
<1>1. CASE HostCall
  <2>1. PICK op \in {"pdi", "fpt", "copy"}, q \in Parts, s \in Parts,
             i \in Images \cup {NoImage}, f \in Tables \cup {NoImage} : Start(op, q, s, i, f)
    BY <1>1, FlashAssumption DEF HostCall
  <2>2. /\ host.pc = "idle" /\ host'.pc = "send" /\ host'.step = 0 /\ host'.op = op /\ host'.fpt = f
        /\ host'.part = q /\ host'.src = s
        /\ UNCHANGED <<valid, table, sq, mbox, apc, dead>>
    BY <2>1 DEF Start
  <2>3. ASSUME clean' PROVE CleanInv'
    <3>1. Pending' = Pending
      BY <2>2 DEF Pending, Admitted
    <3>2. ~ dead /\ IF op = "fpt" THEN f # BadFpt ELSE Listed(q) /\ Listed(s)
      BY <2>1, <2>3 DEF Start
    <3>3. \A j \in Pending : j.op # "fpt"
      BY <2>1, <2>3 DEF Start
    <3>4. TableFound' /\ OnItsWay' /\ NoOtherFpt' /\ HeaderSent' /\ WrittenSoFar'
      BY <2>2, <3>1, <3>2, <3>3
      DEF TableFound, OnItsWay, NoOtherFpt, HeaderSent, WrittenSoFar, Waits, Listed, HasEntry
    <3> QED BY <2>2, <3>2, <3>4 DEF CleanInv
  <2> QED BY <2>2, <2>3, NotFailed DEF CleanInv
<1>2. CASE HostSend
  <2>1. /\ host.pc = "send" /\ host' = [host EXCEPT !.pc = "wait"] /\ calls' = calls
        /\ host'.pc = "wait" /\ host'.op = host.op /\ host'.fpt = host.fpt /\ host'.step = host.step
        /\ host'.part = host.part /\ host'.src = host.src
        /\ UNCHANGED <<flash, valid, table, mbox, apc, dead, clean>>
    BY <1>0, <1>2 DEF HostSend, HostType
  <2>2. Pending' = Pending \cup {Request(host)} /\ Request(host).call = calls
    BY <1>0, <1>2, SentIsPending, RequestMade DEF OrderInv
  <2>3. \A j \in Pending : j.call # calls
    BY <2>1 DEF QueueInv, OwnInv
  <2>4. ASSUME clean PROVE CleanInv'
    <3>1. TableFound /\ NoOtherFpt /\ HeaderSent
      BY <2>1, <2>4 DEF CleanInv
    <3>2. TableFound' /\ OnItsWay' /\ NoOtherFpt'
      BY <2>1, <2>2, <3>1 DEF TableFound, OnItsWay, NoOtherFpt, Listed, HasEntry
    <3>3. HeaderSent'
      <4>1. host.step \in 0 .. Chunks /\ Chunks \in Nat
        BY <1>0, FlashAssumption DEF HostType
      <4>2. CASE host.step > 0
        BY <2>1, <3>1, <4>2 DEF HeaderSent, HeaderValid
      <4>3. CASE host.step = 0 /\ host.op = "fpt"
        <5>1. Sent(host) = FptPiece(host.fpt)
          BY <4>3, RequestMade DEF Sent
        <5>2. ram'[0] = FptPiece(host.fpt)
          BY <1>2, <5>1, PiecesTyped DEF HostSend, TypeOK
        <5> QED BY <2>1, <4>3, <5>2, FlashAssumption DEF HeaderSent
      <4> QED BY <2>1, <4>1, <4>2, <4>3 DEF HeaderSent
    <3>4. WrittenSoFar'
      <4>1. apc.pc # "idle" => apc.job.call # calls
        BY <2>3 DEF Pending, Admitted
      <4> QED BY <2>1, <4>1 DEF WrittenSoFar, Waits
    <3> QED BY <2>1, <2>4, <3>2, <3>3, <3>4 DEF CleanInv
  <2> QED BY <2>1, <2>4, NotFailed DEF CleanInv
<1>3. CASE HostAbandon
  <2>1. host'.pc = "idle" /\ UNCHANGED <<dead, clean>>
    BY <1>3, IdleTyped DEF HostAbandon
  <2> QED BY <1>3, <2>1 DEF CleanInv, Undisturbed
<1>4. CASE HostTimeout
  <2>1. host'.pc = "idle" /\ host.pc = "wait" /\ UNCHANGED <<dead, clean>>
    BY <1>4, IdleTyped DEF HostTimeout
  <2>2. dead \/ \A j \in Pending : j.call # calls
    BY <1>4, <2>1 DEF HostTimeout, Waits, Pending, Admitted
  <2>3. ~ clean
    BY <2>1, <2>2 DEF CleanInv, OnItsWay
  <2> QED BY <2>1, <2>3 DEF CleanInv, Undisturbed
<1> QED BY <1>1, <1>2, <1>3, <1>4 DEF HostNext

\* The AMI proxy's callback refuses a call only without a table or without room.
LEMMA AcceptClean ==
  ASSUME TypeOK, QueueInv, ContentInv, CleanInv, AmiAccept
  PROVE  CleanInv' /\ Undisturbed
<1>0. /\ sq \in Seq(JobType) /\ sq # <<>> /\ sq' = Tail(sq) /\ mbox \in Seq(JobType)
      /\ UNCHANGED <<flash, ram, valid, table, apc, dead, calls>> /\ ~ dead
      /\ OrderInv /\ Pending' \subseteq Pending
  BY AcceptOrder DEF AmiAccept, TypeOK, OrderInv, QueueInv
<1>1. /\ ToSet(sq) = {Head(sq)} \cup ToSet(sq') /\ Head(sq) \in JobType /\ Head(sq) \in Pending
  BY <1>0, HeadAndTail, Taken DEF Pending, Admitted
<1>2. ASSUME clean, host.pc # "idle", host' = host
      PROVE  WrittenSoFar'
  BY <1>0, <1>2 DEF CleanInv, WrittenSoFar, Waits, Verified, Target, Buffer, Packet, HeaderValid
<1>3. CASE Accepted(Head(sq))
  <2>1. mbox' = Append(mbox, Head(sq)) /\ host' = host /\ clean' = clean
    BY <1>3 DEF AmiAccept
  <2>2. ToSet(mbox') = ToSet(mbox) \cup {Head(sq)}
    BY <1>0, <1>1, <2>1, Posted
  <2>3. Pending' = Pending
    BY <1>0, <1>1, <2>2 DEF Pending, Admitted
  <2>4. clean /\ host.pc # "idle" => OnItsWay'
    BY <1>0, <2>1, <2>3 DEF CleanInv, OnItsWay
  <2> QED BY <1>0, <1>2, <2>1, <2>3, <2>4, CleanSame, NotFailed
<1>4. CASE ~ Accepted(Head(sq))
  <2>1. Answer(Head(sq), FALSE) /\ mbox' = mbox /\ clean' = (clean /\ Len(mbox) < MboxSize)
    BY <1>4 DEF AmiAccept
  <2>2. CASE Waits(Head(sq))
    <3>1. host'.pc = "idle"
      BY <2>1, <2>2, Answered DEF QueueInv
    <3>2. /\ Head(sq).op = host.op /\ Head(sq).part = host.part /\ Head(sq).src = host.src
          /\ host.pc = "wait"
      BY <1>1, <2>2, OwnRequest
    <3>3. clean' => ~ clean
      <4>1. SUFFICES ASSUME clean', clean PROVE FALSE
        OBVIOUS
      <4>2. ~ Wanted(Head(sq))
        BY <1>4, <2>1, <4>1 DEF Accepted
      <4>3. TableFound
        BY <3>2, <4>1 DEF CleanInv
      <4> QED BY <3>2, <4>2, <4>3 DEF TableFound, Listed, Wanted, Found
    <3> QED BY <1>0, <3>1, <3>3 DEF CleanInv, Undisturbed
  <2>3. CASE ~ Waits(Head(sq))
    <3>1. host' = host
      BY <2>1, <2>3, Answered DEF QueueInv
    <3>2. Pending = Pending' \cup {Head(sq)}
      BY <1>0, <1>1, <2>1 DEF Pending, Admitted
    <3>3. clean /\ host.pc # "idle" => OnItsWay'
      BY <1>0, <2>3, <3>1, <3>2 DEF CleanInv, OnItsWay, Waits
    <3> QED BY <1>0, <1>2, <2>1, <3>1, <3>3, CleanSame, NotFailed
  <2> QED BY <2>2, <2>3
<1> QED BY <1>3, <1>4


\* The APC task takes a request: its table is good, and nothing is written yet.
LEMMA PendClean ==
  ASSUME TypeOK, QueueInv, ContentInv, CleanInv, ApcPend
  PROVE  CleanInv' /\ Undisturbed
<1>0. /\ mbox \in Seq(JobType) /\ mbox # <<>> /\ mbox' = Tail(mbox) /\ apc.pc = "idle"
      /\ UNCHANGED <<flash, ram, valid, table, sq, calls>> /\ ~ dead
      /\ clean' = (clean /\ Found(Head(mbox))) /\ dead' = ~ Found(Head(mbox))
  BY DEF ApcPend, TypeOK
<1>1. ToSet(mbox) = {Head(mbox)} \cup ToSet(mbox') /\ Head(mbox) \in Pending
  BY <1>0, HeadAndTail, Taken DEF Pending, Admitted
<1>2. CASE Head(mbox).op # "fpt" /\ table = "torn"
  <2>1. Answer(Head(mbox), FALSE) /\ apc' = apc
    BY <1>2 DEF ApcPend
  <2>2. CASE Waits(Head(mbox))
    <3>1. host'.pc = "idle"
      BY <2>1, <2>2, Answered DEF QueueInv
    <3>2. Head(mbox).op = host.op /\ host.pc = "wait"
      BY <1>1, <2>2, OwnRequest
    <3>3. ~ clean
      BY <1>2, <3>2 DEF CleanInv, TableFound, Listed
    <3> QED BY <1>0, <3>1, <3>3 DEF CleanInv, Undisturbed
  <2>3. CASE ~ Waits(Head(mbox))
    <3>1. host' = host
      BY <2>1, <2>3, Answered DEF QueueInv
    <3>2. Pending = Pending' \cup {Head(mbox)}
      BY <1>0, <1>1, <2>1 DEF Pending, Admitted
    <3>3. clean /\ host.pc # "idle" => OnItsWay'
      BY <1>0, <2>3, <3>1, <3>2 DEF CleanInv, OnItsWay, Waits
    <3>4. WrittenSoFar'
      BY <1>0, <2>1 DEF WrittenSoFar
    <3> QED BY <1>0, <3>1, <3>2, <3>3, <3>4, CleanSame, NotFailed
  <2> QED BY <2>2, <2>3
<1>3. CASE ~ Found(Head(mbox)) /\ ~ (Head(mbox).op # "fpt" /\ table = "torn")
  <2>1. host' = host
    BY <1>3 DEF ApcPend
  <2> QED BY <1>0, <1>3, <2>1, NotFailed DEF CleanInv
<1>4. CASE Found(Head(mbox)) /\ ~ (Head(mbox).op # "fpt" /\ table = "torn")
  <2>1. /\ apc' = [IdleApc EXCEPT !.pc = IF Head(mbox).op = "copy" THEN "read" ELSE "erase",
                                  !.job = Head(mbox)]
        /\ host' = host
    BY <1>4 DEF ApcPend
  <2>2. apc'.pc \in {"read", "erase"} /\ apc'.job = Head(mbox)
    BY <2>1 DEF IdleApc
  <2>3. Pending' = Pending
    BY <1>0, <1>1, <2>2 DEF Pending, Admitted
  <2>4. WrittenSoFar'
    BY <2>2 DEF WrittenSoFar
  <2>5. clean /\ host.pc # "idle" => OnItsWay'
    BY <1>0, <2>1, <2>3 DEF CleanInv, OnItsWay
  <2> QED BY <1>0, <1>4, <2>1, <2>3, <2>4, <2>5, CleanSame, NotFailed
<1> QED BY <1>2, <1>3, <1>4

\* A job in hand is worked on, while its call waits.
LEMMA WorkClean ==
  ASSUME TypeOK, QueueInv, CleanInv, apc.pc # "idle", apc'.pc # "idle", apc'.job = apc.job,
         UNCHANGED <<host, sq, mbox, calls, valid, table, dead, clean>>,
         host.op = "fpt" /\ host.pc # "idle" /\ host.step > 0 => flash'[FptSector] = flash[FptSector],
         host.op = "fpt" /\ host.pc = "wait" => ram'[0] = ram[0],
         clean /\ host.pc # "idle" => WrittenSoFar'
  PROVE  CleanInv' /\ Undisturbed
<1>1. Pending' = Pending
  BY DEF Pending, Admitted
<1>2. clean /\ host.pc # "idle" => OnItsWay'
  BY <1>1 DEF CleanInv, OnItsWay
<1>3. clean' => clean /\ ~ dead'
  BY DEF CleanInv
<1> QED BY <1>1, <1>2, <1>3, CleanSame, NotFailed

\* A copy reads and restores its boot tag.
LEMMA ReadClean ==
  ASSUME TypeOK, QueueInv, ContentInv, RetagInv, CleanInv, CopyRead \/ CopyRetag
  PROVE  CleanInv' /\ Undisturbed
<1>0. /\ apc.pc = "read" /\ apc \in ApcType /\ apc.job.op = "copy" /\ apc.job \in JobType
      /\ UNCHANGED <<flash, sq, mbox, calls, valid, table, dead, clean>>
  BY DEF CopyRead, CopyRetag, TypeOK, ApcType, QueueInv, JobInv
<1>1. host.op = "copy"
  BY <1>0, CopyAtHand DEF ContentInv
<1>2. ASSUME CopyRetag PROVE ram'[0] = flash[<<apc.job.src, 0>>]
  <2>1. flash[<<apc.job.src, 0>>] \in [PageIds -> PageType]
    BY <1>0, AtHand, PiecesTyped DEF TypeOK, JobType
  <2>2. apc.step > 0 /\ ram'[0] = WithWord(ram[0], apc.tag)
    BY <1>2, FlashAssumption, PiecesTyped DEF CopyRetag, TypeOK
  <2>3. ram[0] = WithWord(flash[<<apc.job.src, 0>>], "invalid") /\ apc.tag = flash[<<apc.job.src, 0>>][0].word
    BY <1>0, <2>2 DEF RetagInv
  <2> QED BY <2>1, <2>2, <2>3, TagRestored
<1>3. apc'.pc = "erase" /\ apc'.job = apc.job /\ host' = host
  BY <1>0, <1>2 DEF CopyRead, CopyRetag, ApcType
<1>4. WrittenSoFar'
  BY <1>3 DEF WrittenSoFar
<1> QED BY <1>0, <1>1, <1>3, <1>4, WorkClean

\* A sector is erased and written.
LEMMA WriteClean ==
  ASSUME TypeOK, QueueInv, CleanInv, Erase \/ WritePage
  PROVE  CleanInv' /\ Undisturbed
<1>0. /\ apc.pc \in {"erase", "write"} /\ apc.pc # "idle" /\ apc \in ApcType /\ apc'.job = apc.job
      /\ apc'.step = apc.step /\ apc'.pc \in {"write", "readback"}
      /\ UNCHANGED <<ram, host, sq, mbox, calls, valid, table, dead, clean>>
  BY DEF Erase, WritePage, TypeOK, ApcType
<1>1. OrderInv /\ Target \in Sectors /\ FptSector \in Sectors /\ Buffer \in [PageIds -> PageType]
  BY <1>0, JobTyped, AtHand DEF QueueInv, OrderInv
<1>2. \A s \in Sectors : s # Target => flash'[s] = flash[s]
  BY DEF Erase, WritePage, TypeOK
<1>3. host.op = "fpt" /\ host.pc # "idle" /\ host.step > 0 => flash'[FptSector] = flash[FptSector]
  BY <1>0, <1>1, <1>2, FptUntouched
<1>4. Target' = Target /\ Buffer' = Buffer /\ Waits(apc.job)' = Waits(apc.job)
  BY <1>0 DEF Target, Buffer, Packet, Waits
<1>5. CASE Erase
  <2>1. apc'.pc = "write" /\ apc'.page = 0
    BY <1>0, <1>5 DEF Erase, ApcType
  <2>2. WrittenSoFar'
    BY <2>1 DEF WrittenSoFar
  <2> QED BY <1>0, <1>3, <2>2, WorkClean
<1>6. CASE WritePage
  <2> DEFINE old == flash[Target]
             new == flash'[Target]
             p == apc.page
  <2>1. /\ old \in [PageIds -> PageType] /\ new = [old EXCEPT ![p] = Buffer[p]]
        /\ p \in 0 .. Pages - 1 /\ LastPage \in PageIds /\ Pages \in Nat
    BY <1>0, <1>1, <1>6, JobTyped, FlashAssumption DEF WritePage, TypeOK, ApcType, QueueInv, PageIds
  <2>2. ASSUME clean, host.pc # "idle", Waits(apc.job)
        PROVE  \A g \in 0 .. p : new[g] = Buffer[g]
    <3>1. apc.pc = "write"
      BY <1>6 DEF WritePage
    <3>2. \A g \in 0 .. p - 1 : old[g] = Buffer[g]
      BY <2>2, <3>1 DEF CleanInv, WrittenSoFar
    <3>3. ASSUME NEW g \in 0 .. p PROVE new[g] = Buffer[g]
      <4>1. g \in PageIds /\ p \in PageIds /\ (g = p \/ g \in 0 .. p - 1)
        BY <2>1 DEF PageIds
      <4> QED BY <2>1, <3>2, <4>1
    <3> QED BY <3>3
  <2>3. ASSUME clean, host.pc # "idle", Waits(apc.job)
        PROVE  WrittenSoFar'
    <3>1. CASE p < LastPage
      <4>1. apc'.pc = "write" /\ apc'.page = p + 1 /\ apc'.page - 1 = p
        BY <1>0, <1>6, <2>1, <3>1 DEF WritePage, ApcType
      <4> QED BY <1>4, <2>2, <2>3, <4>1 DEF WrittenSoFar
    <3>2. CASE ~ (p < LastPage)
      <4>1. apc'.pc = "readback"
        BY <1>0, <1>6, <3>2 DEF WritePage, ApcType
      <4>2. CASE apc.job.short
        <5>1. new[0] = Buffer[0]
          BY <2>1, <2>2, <2>3
        <5>2. Verified'
          BY <1>0, <1>4, <4>2, <5>1 DEF Verified
        <5> QED BY <4>1, <5>2 DEF WrittenSoFar
      <4>3. CASE ~ apc.job.short
        <5>1. p = Pages - 1
          BY <2>1, <3>2, <4>3 DEF LastPage
        <5>2. \A g \in PageIds : new[g] = Buffer[g]
          BY <2>2, <2>3, <5>1 DEF PageIds
        <5>3. new = Buffer
          BY <1>1, <2>1, <5>2
        <5>4. Verified'
          BY <1>0, <1>4, <4>3, <5>3 DEF Verified
        <5> QED BY <4>1, <5>4 DEF WrittenSoFar
      <4> QED BY <4>2, <4>3
    <3> QED BY <3>1, <3>2
  <2>4. ~ Waits(apc.job) => WrittenSoFar'
    BY <1>4 DEF WrittenSoFar
  <2> QED BY <1>0, <1>3, <2>3, <2>4, WorkClean
<1> QED BY <1>5, <1>6


\* The end of a job that nobody waits for.
LEMMA OtherFinishes ==
  ASSUME TypeOK, QueueInv, CleanInv, apc.pc # "idle", ~ Waits(apc.job), NEW ok \in BOOLEAN, Finish(ok),
         UNCHANGED <<flash, ram, sq, mbox, calls, dead, clean>>,
         clean /\ host.pc # "idle" => valid' = valid /\ table' = table
  PROVE  CleanInv' /\ Undisturbed
<1>1. host' = host /\ apc'.pc = "idle"
  BY Answered, IdleTyped DEF Finish, QueueInv
<1>2. Pending = Pending' \cup {apc.job}
  BY <1>1 DEF Pending, Admitted
<1>3. clean /\ host.pc # "idle" => OnItsWay'
  BY <1>1, <1>2 DEF CleanInv, OnItsWay, Waits
<1>4. WrittenSoFar'
  BY <1>1 DEF WrittenSoFar
<1>5. clean' => clean /\ ~ dead'
  BY DEF CleanInv
<1> QED BY <1>1, <1>2, <1>3, <1>4, <1>5, CleanSame, NotFailed

\* What is read back is what was written, for the call that waits.
LEMMA ReadBackClean ==
  ASSUME TypeOK, QueueInv, ContentInv, CleanInv, ReadBack
  PROVE  CleanInv' /\ Undisturbed
<1>0. /\ apc.pc = "readback" /\ apc.pc # "idle" /\ apc \in ApcType /\ apc.job \in Pending
      /\ UNCHANGED <<flash, ram, valid, table, sq, mbox, calls, dead, clean>>
  BY DEF ReadBack, TypeOK, ApcType, Pending, Admitted
<1>1. ASSUME clean, Waits(apc.job), NEW g \in Sampled, g <= LastPage, StillErased(g)
      PROVE  FALSE
  <2>1. Verified /\ host.pc = "wait" /\ apc.job = Request(host) /\ apc.job.op = host.op
    BY <1>0, <1>1, OwnRequest DEF CleanInv, WrittenSoFar
  <2>2. apc.job.short
    BY <1>1, <2>1 DEF Verified, StillErased
  <2>3. Invalidating(host) /\ host.op = "pdi"
    BY <2>1, <2>2, RequestMade
  <2>4. Buffer = ram[0] /\ Buffer[0].word = "invalid"
    BY <1>0, <2>1, <2>3, AtHand DEF ContentInv, RamInv
  <2>5. g = 0
    BY <1>1, <2>2, FlashAssumption DEF LastPage
  <2> QED BY <1>1, <2>1, <2>2, <2>4, <2>5 DEF Verified, StillErased
<1>2. CASE Finish(FALSE) /\ ~ Waits(apc.job)
  BY <1>0, <1>2, OtherFinishes
<1>3. CASE Finish(FALSE) /\ Waits(apc.job) /\ ~ clean
  BY <1>0, <1>3 DEF CleanInv, Undisturbed
<1>4. CASE apc' = [apc EXCEPT !.pc = "verify"] /\ UNCHANGED <<host, promised>>
  <2>1. apc'.pc = "verify" /\ apc'.job = apc.job /\ apc'.step = apc.step
    BY <1>0, <1>4 DEF ApcType
  <2>2. Target' = Target /\ Buffer' = Buffer /\ Waits(apc.job)' = Waits(apc.job)
    BY <1>0, <1>4, <2>1 DEF Target, Buffer, Packet, Waits
  <2>3. Verified' = Verified
    BY <1>0, <2>1, <2>2 DEF Verified
  <2>4. clean /\ host.pc # "idle" => WrittenSoFar'
    BY <1>0, <2>1, <2>2, <2>3 DEF CleanInv, WrittenSoFar
  <2> QED BY <1>0, <1>4, <2>1, <2>4, WorkClean
<1> QED BY <1>1, <1>2, <1>3, <1>4 DEF ReadBack

\* What is written is verified: the comparison succeeds for the call that waits,
\* and a new header is in flash before the call goes on.
LEMMA VerifyClean ==
  ASSUME TypeOK, QueueInv, ContentInv, CleanInv, Verify
  PROVE  CleanInv' /\ Undisturbed
<1>0. /\ apc.pc = "verify" /\ apc.pc # "idle" /\ apc \in ApcType /\ host \in HostType
      /\ apc.job \in Pending /\ apc.job \in JobType /\ OrderInv
      /\ valid' = (valid /\ Target # FptSector)
      /\ UNCHANGED <<flash, ram, table, sq, mbox, calls, dead, clean>>
  BY DEF Verify, TypeOK, ApcType, HostType, Pending, Admitted, QueueInv, OrderInv, InvalidatesFpt
<1>1. ASSUME clean, host.pc # "idle", ~ (Waits(apc.job) /\ host.op = "fpt")
      PROVE  valid' = valid
  <2>1. Target = FptSector => apc.job.op = "fpt"
    BY <1>0, TargetIs
  <2>2. apc.job.op = "fpt" => Waits(apc.job) /\ host.op = "fpt"
    BY <1>0, <1>1, OwnWaits, OwnRequest DEF CleanInv, NoOtherFpt
  <2> QED BY <1>0, <1>1, <2>1, <2>2 DEF TypeOK
<1>2. CASE ~ Waits(apc.job)
  <2>1. CASE Finish(TRUE) \/ Finish(FALSE)
    BY <1>0, <1>1, <1>2, <2>1, OtherFinishes
  <2>2. CASE /\ apc'.pc \in {"read", "refresh"} /\ apc'.job = apc.job /\ host' = host
    <3>1. Pending' = Pending
      BY <1>0, <2>2 DEF Pending, Admitted
    <3>2. WrittenSoFar' /\ (clean /\ host.pc # "idle" => OnItsWay')
      BY <1>0, <1>2, <2>2, <3>1 DEF WrittenSoFar, CleanInv, OnItsWay, Waits
    <3>3. clean' => clean /\ ~ dead'
      BY <1>0 DEF CleanInv
    <3> QED BY <1>0, <1>1, <1>2, <2>2, <3>1, <3>2, <3>3, CleanSame, NotFailed
  <2> QED BY <1>0, <2>1, <2>2 DEF Verify, ApcType
<1>3. CASE Waits(apc.job) /\ ~ clean
  BY <1>0, <1>3 DEF CleanInv, Undisturbed
<1>4. CASE Waits(apc.job) /\ clean
  <2>1. /\ host.pc = "wait" /\ apc.job = Request(host) /\ apc.job.op = host.op
        /\ (apc.job.last <=> host.op # "copy" /\ host.step = LastStep(host))
        /\ host.op = "fpt" => apc.job.chunk = host.step
    BY <1>0, <1>4, OwnRequest
  <2>2. TableFound /\ HeaderSent /\ Verified /\ ~ dead
    BY <1>0, <1>4, <2>1 DEF CleanInv, WrittenSoFar
  <2>3. host.op = "fpt" => HeaderValid(flash[FptSector])
    <3>1. CASE host.step > 0
      BY <2>2, <3>1 DEF HeaderSent
    <3>2. CASE host.op = "fpt" /\ host.step = 0
      <4>1. Target = FptSector /\ Buffer = ram[0] /\ ~ apc.job.short
        BY <1>0, <2>1, <3>2, AtHand DEF QueueInv
      <4>2. flash[FptSector] = FptPiece(host.fpt)
        BY <2>1, <2>2, <3>2, <4>1, FlashAssumption DEF Verified, HeaderSent
      <4>3. host.fpt \in {Fpt, FewFpt}
        BY <2>1, <2>2, <3>2 DEF TableFound, QueueInv, JobInv, Tables
      <4> QED BY <4>2, <4>3, PiecesTyped DEF HeaderValid, FptPiece, Page
    <3> QED BY <1>0, <3>1, <3>2 DEF HostType
  <2>4. TableFound' \/ host'.pc = "idle"
    <3>1. host'.pc = "idle" \/ (/\ host'.op = host.op /\ host'.fpt = host.fpt
                                /\ host'.part = host.part /\ host'.src = host.src)
      <4>1. CASE Finish(TRUE) \/ Finish(FALSE)
        <5>1. PICK ok \in BOOLEAN : Answer(apc.job, ok)
          BY <4>1 DEF Finish
        <5>2. LET h == [host EXCEPT !.pc = "send", !.step = host.step + 1]
              IN h.op = host.op /\ h.fpt = host.fpt /\ h.part = host.part /\ h.src = host.src
          BY <1>0 DEF HostType
        <5> QED BY <5>1, <5>2, Answered DEF QueueInv
      <4> QED BY <4>1 DEF Verify
    <3>2. host.op # "fpt" => valid' = valid
      BY <1>1, <1>4, <2>1
    <3>3. SUFFICES ASSUME host'.pc # "idle" PROVE TableFound'
      OBVIOUS
    <3>4. CASE host.op = "fpt"
      BY <2>2, <3>1, <3>3, <3>4 DEF TableFound
    <3>5. CASE host.op # "fpt"
      <4>1. /\ valid' = valid /\ table' = table /\ host'.part = host.part /\ host'.src = host.src
            /\ host'.op # "fpt"
        BY <1>0, <3>1, <3>2, <3>3, <3>5
      <4>2. Listed(host.part) /\ Listed(host.src)
        BY <2>2, <3>5 DEF TableFound
      <4> QED BY <4>1, <4>2 DEF TableFound, Listed, HasEntry
    <3> QED BY <3>4, <3>5
  <2>5. CASE /\ apc'.pc \in {"read", "refresh"} /\ apc'.job = apc.job /\ host' = host
    <3>1. Pending' = Pending
      BY <1>0, <2>5 DEF Pending, Admitted
    <3>2. OnItsWay' /\ NoOtherFpt' /\ WrittenSoFar'
      <4>1. apc'.pc = "refresh" => host.op = "fpt"
        BY <1>0, <2>1, <2>5, IdleTyped DEF Verify, Finish, ApcType
      <4>2. WrittenSoFar'
        BY <1>0, <2>3, <2>5, <4>1 DEF WrittenSoFar, HeaderValid
      <4> QED
        BY <1>0, <1>4, <2>1, <2>5, <3>1, <4>2 DEF CleanInv, OnItsWay, NoOtherFpt
    <3>3. HeaderSent'
      BY <1>0, <2>2, <2>5 DEF HeaderSent, HeaderValid
    <3>4. TableFound'
      BY <2>1, <2>4, <2>5
    <3> QED BY <1>0, <2>2, <2>5, <3>2, <3>3, <3>4, NotFailed DEF CleanInv
  <2>6. CASE Finish(TRUE)
    <3>1. Answer(apc.job, TRUE) /\ apc'.pc = "idle" /\ Pending' = {}
      BY <1>0, <1>4, <2>6, FinishOrder, IdleTyped DEF Finish
    <3>2. Undisturbed
      BY <3>1, AnsweredOk, NotFailed
    <3>3. \/ host'.pc = "idle"
          \/ host' = [host EXCEPT !.pc = "send", !.step = host.step + 1]
      BY <1>4, <3>1, Answered DEF QueueInv
    <3>4. host' = [host EXCEPT !.pc = "send", !.step = host.step + 1] =>
            host'.pc = "send" /\ host'.op = host.op
      BY <1>0 DEF HostType
    <3>5. host'.pc # "idle" => OnItsWay' /\ NoOtherFpt' /\ HeaderSent' /\ WrittenSoFar'
      BY <1>0, <2>3, <3>1, <3>3, <3>4 DEF OnItsWay, NoOtherFpt, HeaderSent, HeaderValid, WrittenSoFar
    <3> QED BY <1>0, <2>2, <2>4, <3>2, <3>5 DEF CleanInv
  <2> QED BY <1>0, <2>2, <2>5, <2>6 DEF Verify, ApcType
<1> QED BY <1>2, <1>3, <1>4

\* The table is loaded from a header that is there.
LEMMA RefreshClean ==
  ASSUME TypeOK, QueueInv, ContentInv, CleanInv, Refresh
  PROVE  CleanInv' /\ Undisturbed
<1>0. /\ apc.pc = "refresh" /\ apc.pc # "idle" /\ host \in HostType
      /\ apc.job \in Pending /\ apc.job.op = "fpt" /\ apc.job.last
      /\ UNCHANGED <<flash, ram, sq, mbox, calls, dead, clean>>
  BY DEF Refresh, TypeOK, HostType, Pending, Admitted, QueueInv, JobInv
<1>1. PICK ok \in BOOLEAN : ok = HeaderValid(flash[FptSector]) /\ Finish(ok)
  <2>1. HeaderValid(flash[FptSector]) \in BOOLEAN
    BY DEF HeaderValid
  <2> QED BY <2>1 DEF Refresh
<1>2. CASE clean /\ host.pc # "idle"
  <2>1. Waits(apc.job)
    BY <1>0, <1>2, OwnWaits DEF CleanInv, NoOtherFpt
  <2>2. host.step = LastStep(host) /\ host.pc = "wait"
    BY <1>0, <2>1, OwnRequest
  <2>3. ok = TRUE
    BY <1>0, <1>1, <1>2, <2>1 DEF CleanInv, WrittenSoFar
  <2>4. Answer(apc.job, TRUE)
    BY <1>1, <2>3 DEF Finish
  <2>5. host'.pc = "idle"
    <3>1. ~ (host.step < LastStep(host))
      BY <1>0, <2>2 DEF HostType
    <3> QED BY <2>1, <2>4, <3>1, Answered DEF QueueInv
  <2> QED BY <1>0, <2>4, <2>5, AnsweredOk, NotFailed DEF CleanInv
<1>3. CASE ~ clean
  BY <1>0, <1>3 DEF CleanInv, Undisturbed
<1>4. CASE host.pc = "idle"
  <2>1. ~ Waits(apc.job)
    BY <1>4 DEF Waits
  <2> QED BY <1>0, <1>1, <1>4, <2>1, OtherFinishes
<1> QED BY <1>2, <1>3, <1>4

\* A step.
LEMMA CleanKept ==
  ASSUME TypeOK, QueueInv, ContentInv, RetagInv, CleanInv, [Next]_vars
  PROVE  RetagInv' /\ CleanInv' /\ (Undisturbed \/ UNCHANGED vars)
<1>1. CASE FlashFails \/ WritePageFails \/ AmcReset
  <2>1. ~ clean'
    BY <1>1 DEF FlashFails, WritePageFails, AmcReset
  <2>2. Next
    BY <1>1 DEF Next, ApcNext
  <2> QED BY <2>1, <2>2, RetagKept DEF CleanInv, Undisturbed
<1>2. CASE UNCHANGED vars
  <2>1. /\ UNCHANGED <<flash, ram, valid, table, host, sq, mbox, apc, calls, dead, clean>>
        /\ Pending' = Pending
    BY <1>2 DEF vars, Pending, Admitted
  <2>2. RetagInv'
    BY <2>1 DEF RetagInv
  <2>3. CleanInv'
    BY <2>1 DEF CleanInv, TableFound, OnItsWay, NoOtherFpt, HeaderSent, HeaderValid, WrittenSoFar,
                Waits, Verified, Target, Buffer, Packet, Listed, HasEntry
  <2> QED BY <1>2, <2>2, <2>3
<1>3. CASE Next
  BY <1>1, <1>3, RetagKept, HostClean, AcceptClean, PendClean, ReadClean, WriteClean, ReadBackClean,
     VerifyClean, RefreshClean
  DEF Next, ApcNext
<1> QED BY <1>2, <1>3

\* A call fails only for a fault, a reset, a full mailbox, a table that is not
\* valid or another update of the FPT, and never for what other calls have left
\* in the queues, in shared memory or in flash, if no copy is abandoned.
THEOREM FailsForCause ==
  ASSUME "copy" \notin MayAbandon
  PROVE  Spec => UndisturbedSucceeds
<1>1. Init => RetagInv /\ CleanInv
  <2>1. Init => apc.pc = "idle" /\ host.pc = "idle" /\ ~ dead
    BY IdleTyped DEF Init, IdleHost
  <2> QED BY <2>1 DEF RetagInv, CleanInv
<1>2. TypeOK /\ QueueInv /\ ContentInv /\ RetagInv /\ CleanInv /\ [Next]_vars =>
        RetagInv' /\ CleanInv' /\ [Undisturbed]_vars
  BY CleanKept
<1>3. [Undisturbed]_vars => [CallFails => \/ ~ clean \/ ~ clean' \/ HostAbandon]_vars
  BY DEF Undisturbed
<1> QED BY <1>1, <1>2, <1>3, QueueCorrect, ContentCorrect, PTL DEF Spec, UndisturbedSucceeds

=============================================================================
