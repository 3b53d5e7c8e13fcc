----------------------------- MODULE FlashUpdate -----------------------------
(***************************************************************************)
(* Programming of the boot flash: the AMI driver cuts an image in chunks   *)
(* and sends them one at a time (ami_program.c), the AMC queues them for   *)
(* the APC proxy task, which erases, writes and verifies a chunk, copies a *)
(* partition, and reloads the partition table (apc_proxy_driver.c).        *)
(*                                                                         *)
(* The driver runs one call at a time, but a call that is killed or times  *)
(* out leaves its request with the AMC, which still executes it, from the  *)
(* shared memory as it then is.                                            *)
(*                                                                         *)
(* A chunk is one erase sector (32 KB on the V80) and a sector is a        *)
(* sequence of pages.  What a page holds is a record: the image and the    *)
(* place in it that the data comes from, and the first word, which in the  *)
(* first page of an image is the boot tag.  An image may be no longer than *)
(* one chunk, and an update of the partition table may be the table alone: *)
(* such a call has one request, with nothing before and nothing after it.  *)
(***************************************************************************)
EXTENDS Integers, Sequences, SequencesExt

CONSTANTS
  Parts,      \* partitions of the boot device
  P0,         \* the first one, which follows the FPT in flash
  Images,     \* images that are downloaded
  OneChunk,   \* those of them that are no longer than a chunk
  OldImage,   \* the image that every partition holds at first
  Fpt, FewFpt, BadFpt, \* partition tables: of all partitions, of P0 alone,
                        \* and one whose header is not valid
  NoImage, NoPart,
  Chunks,     \* chunks of a partition, and of an image that is not in OneChunk
  Pages,      \* pages of a chunk
  Sampled,    \* those of them that iOSPI_FlashWrite reads back
  MboxSize,   \* APC_MBOX_SIZE
  MayAbandon, \* kinds of calls that may be killed or time out
  MaxCalls, MaxFaults     \* bounds

ASSUME FlashAssumption ==
  /\ P0 \in Parts /\ NoPart \notin Parts
  /\ {OldImage, Fpt, FewFpt, BadFpt, NoImage} \cap Images = {} /\ OneChunk \subseteq Images
  /\ BadFpt \notin {Fpt, FewFpt} /\ Fpt # FewFpt
  /\ NoImage \notin {OldImage, Fpt, FewFpt, BadFpt} /\ OldImage \notin {Fpt, FewFpt, BadFpt}
  /\ Chunks \in Nat /\ Chunks > 1 /\ Pages \in Nat \ {0} /\ MboxSize \in Nat \ {0}
  /\ Sampled \subseteq 0 .. Pages - 1
  /\ MayAbandon \subseteq {"pdi", "fpt", "copy"}
  /\ MaxCalls \in Nat /\ MaxFaults \in Nat

ChunkIds  == 0 .. Chunks - 1
PageIds   == 0 .. Pages - 1
Tables    == {Fpt, FewFpt, BadFpt}
Extent(i) == IF i \in OneChunk THEN {0} ELSE ChunkIds
FptSector == <<NoPart, 0>>
Sectors   == (Parts \X ChunkIds) \cup {FptSector}

Page(i, c, g, w) == [image |-> i, chunk |-> c, page |-> g, word |-> w]
Blank == Page(NoImage, 0, 0, "erased")
Piece(i, c) ==
  [g \in PageIds |-> Page(i, c, g, IF c = 0 /\ g = 0 THEN "tag" ELSE "data")]
FptPiece(f) == [g \in PageIds |-> Page(f, 0, g, "data")]
WithWord(data, w) == [data EXCEPT ![0].word = w]   \* APC_PMC_BOOT_TAG( data ) = w

VARIABLES
  flash,   \* per sector, its pages
  ram,     \* shared memory: the area of a chunk (0), and more for a copy
  valid,   \* piValidFpt
  table,   \* ppxFptPartitions: "none", "good", with "few" partitions, or read
           \* from a "torn" sector
  host,    \* the call that the driver runs
  sq,      \* requests that the AMI proxy has not handled yet
  mbox,    \* the mailbox of the APC task
  apc,     \* the APC task
  dead,    \* the APC task has used an entry of a table that is not there
  calls,
  faults,  \* faults of the flash and restarts of the AMC
  promised,  \* history: the image that a call reported written, per partition
  unguarded, \* history: partitions last written without invalidating the tag
  bare,      \* history: a job was accepted behind an update with the table alone
  clean      \* history: nothing went wrong since the call started

hostVars == <<host, sq, calls>>
tableVars == <<valid, table>>
history == <<promised, unguarded, bare, clean>>
vars == <<flash, ram, tableVars, hostVars, mbox, apc, dead, faults, history>>

IdleHost == [pc |-> "idle", op |-> "pdi", part |-> P0, src |-> P0,
             image |-> NoImage, fpt |-> NoImage, step |-> 0, ret |-> "ok"]
NoJob == [call |-> 0, op |-> "pdi", part |-> P0, src |-> P0, chunk |-> 0,
          short |-> FALSE, first |-> TRUE, last |-> FALSE]
IdleApc == [pc |-> "idle", job |-> NoJob, step |-> 0, page |-> 0, tag |-> "none"]

HeaderValid(sector) == sector[0].image \in {Fpt, FewFpt}
TableOf(sector) == IF ~ HeaderValid(sector) THEN "none"
                   ELSE IF \E g \in PageIds : sector[g] = Blank THEN "torn"
                   ELSE IF sector[0].image = Fpt THEN "good" ELSE "few"
\* The partitions p of a table t that have an entry: p < ucNumEntries.
HasEntry(t, p) == t \in {"good", "torn"} \/ (t = "few" /\ p = P0)

Init ==
  /\ flash = [s \in Sectors |-> IF s = FptSector THEN FptPiece(Fpt) ELSE Piece(OldImage, s[2])]
  /\ ram = [c \in ChunkIds |-> [g \in PageIds |-> Blank]]
  /\ valid = TRUE /\ table = "good"
  /\ host = IdleHost /\ sq = <<>> /\ mbox = <<>> /\ apc = IdleApc /\ dead = FALSE
  /\ calls = 0 /\ faults = 0
  /\ promised = [p \in Parts |-> OldImage] /\ unguarded = {} /\ bare = FALSE /\ clean = TRUE

-----------------------------------------------------------------------------
(* The AMI driver.  The ioctl semaphore is held from HostCall to the end.  *)

\* The requests that the APC task has or has in its mailbox, and all there are.
Admitted == ToSet(mbox) \cup (IF apc.pc = "idle" THEN {} ELSE {apc.job})
Pending == ToSet(sq) \cup Admitted

\* A valid table with a whole entry for a partition.
Listed(p) == valid /\ table # "torn" /\ HasEntry(table, p)

\* download_pdi, update_fpt or copy_partition is called.
Start(op, p, s, i, f) ==
  /\ host.pc = "idle" /\ calls < MaxCalls
  /\ host' = [pc |-> "send", op |-> op, part |-> p, src |-> s, image |-> i,
              fpt |-> f, step |-> 0, ret |-> "ok"]
  /\ calls' = calls + 1
  /\ promised' = [promised EXCEPT ![p] = NoImage]
  /\ clean' = /\ (\A j \in Pending : j.op # "fpt") /\ ~ dead
              /\ IF op = "fpt" THEN f # BadFpt ELSE Listed(p) /\ Listed(s)
  /\ UNCHANGED <<flash, ram, tableVars, sq, mbox, apc, dead, faults, unguarded, bare>>

HostCall ==
  \/ \E p \in Parts, i \in Images : Start("pdi", p, p, i, NoImage)
  \/ \E i \in (Images \ OneChunk) \cup {NoImage}, f \in Tables : Start("fpt", P0, P0, i, f)
  \/ \E p, s \in Parts : p # s /\ Start("copy", p, s, NoImage, NoImage)

Returned(r) == [IdleHost EXCEPT !.ret = r]   \* the call has returned

\* A call of more than one chunk has one request more than the image chunks: the
\* first chunk of a PDI goes twice, an FPT update has the table in front.
LastStep(h) == IF h.image \in Images \ OneChunk THEN Chunks ELSE 0
Invalidating(h) == h.op = "pdi" /\ h.step = 0 /\ LastStep(h) > 0

\* One turn of the loop of do_image_download: what it copies to shared
\* memory and the request for it.  A PDI of more than one chunk starts with an
\* invalid boot tag in place of its first chunk, which is sent last.  An FPT
\* update is sent in order.
SentWithTag(h) ==   \* mutant: the first chunk is sent with its tag
  CASE h.op = "pdi"                            -> Piece(h.image, h.step % Chunks)
    [] h.op = "fpt" /\ h.step = 0              -> FptPiece(h.fpt)
    [] h.op = "fpt" /\ h.step > 0              -> Piece(h.image, h.step - 1)
    [] h.op = "copy"                           -> ram[0]
Sent(h) ==
  CASE Invalidating(h)                         -> WithWord(ram[0], "invalid")
    [] h.op = "pdi" /\ ~ Invalidating(h)       -> Piece(h.image, h.step % Chunks)
    [] h.op = "fpt" /\ h.step = 0              -> FptPiece(h.fpt)
    [] h.op = "fpt" /\ h.step > 0              -> Piece(h.image, h.step - 1)
    [] h.op = "copy"                           -> ram[0]

Request(h) ==
  [call |-> calls, op |-> h.op, part |-> h.part, src |-> h.src,
   chunk |-> IF h.op = "pdi" THEN h.step % Chunks ELSE h.step,
   short |-> Invalidating(h),
   first |-> h.step = 0,   \* history: its call has had no answer yet
   last  |-> h.op # "copy" /\ h.step = LastStep(h)]

HostSend ==
  /\ host.pc = "send"
  /\ ram' = [ram EXCEPT ![0] = Sent(host)]
  /\ sq' = Append(sq, Request(host))
  /\ host' = [host EXCEPT !.pc = "wait"]
  /\ UNCHANGED <<flash, tableVars, calls, mbox, apc, dead, faults, history>>

\* The wait is killable and bounded in time; the request stays where it is.
HostAbandon ==
  /\ host.pc = "wait" /\ host.op \in MayAbandon
  /\ host' = Returned("failed")
  /\ UNCHANGED <<flash, ram, tableVars, sq, calls, mbox, apc, dead, faults, history>>

WaitsForAny(job) == host.pc = "wait"   \* mutant: an old answer is taken too
Waits(job) == host.pc = "wait" /\ job.call = calls

\* The request was lost in a reset, or there is no one to handle it: the call
\* times out.
HostTimeout ==
  /\ host.pc = "wait"
  /\ dead \/ \A j \in {apc.job} \cup ToSet(sq) \cup ToSet(mbox) : ~ Waits(j)
  /\ host' = Returned("failed")
  /\ UNCHANGED <<flash, ram, tableVars, sq, calls, mbox, apc, dead, faults, history>>

\* The answer to a request, which the driver takes if it still waits for it.
Answer(job, ok) ==
  IF Waits(job)
  THEN /\ host' = IF ok /\ host.step < LastStep(host)
                  THEN [host EXCEPT !.pc = "send", !.step = @ + 1]
                  ELSE Returned(IF ok THEN "ok" ELSE "failed")
       /\ promised' = IF ok /\ host.step = LastStep(host)
                      THEN [promised EXCEPT ![host.part] =
                              IF host.op = "copy" THEN promised[host.src] ELSE host.image]
                      ELSE promised
  ELSE UNCHANGED <<host, promised>>

-----------------------------------------------------------------------------
(* The AMC: the AMI proxy's callback, which accepts requests.              *)

\* iAPC_DownloadImage and iAPC_CopyImage want a valid FPT with the partition,
\* iAPC_UpdateFpt does not; the request is posted to the mailbox without waiting.
Found(job) == job.op = "fpt" \/ (HasEntry(table, job.part) /\ HasEntry(table, job.src))
Wanted(job) == (job.op # "fpt" => valid) /\ Found(job)
AcceptedAlways(job) == Wanted(job)   \* mutant
Accepted(job) == Wanted(job) /\ Len(mbox) < MboxSize

\* An update with the table alone, which frees the old table and loads the new.
Single(job) == job.op = "fpt" /\ job.first /\ job.last

AmiAccept ==
  /\ sq # <<>> /\ ~ dead
  /\ sq' = Tail(sq)
  /\ IF Accepted(Head(sq))
     THEN /\ mbox' = Append(mbox, Head(sq))
          /\ bare' = (bare \/ (Head(sq).op # "fpt" /\ \E j \in Admitted : Single(j)))
          /\ UNCHANGED <<host, promised, clean>>
     ELSE /\ Answer(Head(sq), FALSE)
          /\ clean' = (clean /\ Len(mbox) < MboxSize)
          /\ UNCHANGED <<mbox, bare>>
  /\ UNCHANGED <<flash, ram, tableVars, calls, apc, dead, faults, unguarded>>

-----------------------------------------------------------------------------
(* The APC task.                                                           *)

Packet == IF apc.job.op = "copy" THEN apc.step % Chunks ELSE apc.job.chunk
Buffer == ram[IF apc.job.op = "copy" THEN Packet ELSE 0]
Target == IF apc.job.op # "fpt" THEN <<apc.job.part, Packet>>
          ELSE IF Packet = 0 THEN FptSector ELSE <<P0, Packet - 1>>
LastPage == IF apc.job.short THEN 0 ELSE Pages - 1

\* The job at hand is over.
Finish(ok) == apc' = IdleApc /\ Answer(apc.job, ok)

\* vProxyDriverTask takes a message.  The addresses of a torn table are out of
\* range and the job fails.  iDownloadImage and iCopyImage take the entries of
\* their partitions without a look at the table: when it has been freed or
\* replaced by a shorter one meanwhile, what they read is not an entry, and
\* nothing can be said of what the firmware does then.
ApcPend ==
  /\ apc.pc = "idle" /\ mbox # <<>> /\ ~ dead
  /\ mbox' = Tail(mbox)
  /\ LET job == Head(mbox)
         found == Found(job)
         torn == job.op # "fpt" /\ table = "torn"
     IN /\ dead' = ~ found
        /\ apc' = IF found /\ ~ torn
                  THEN [IdleApc EXCEPT !.pc = IF job.op = "copy" THEN "read" ELSE "erase",
                                       !.job = job]
                  ELSE apc
        /\ clean' = (clean /\ found)
        /\ IF torn THEN Answer(job, FALSE) ELSE UNCHANGED <<host, promised>>
  /\ UNCHANGED <<flash, ram, tableVars, sq, calls, faults, unguarded, bare>>

\* iCopyImage reads the next packet of the source.  The first one is written
\* with an invalid tag; the others are compared with the source, which they equal.
CopyRead ==
  /\ apc.pc = "read" /\ apc.step < Chunks
  /\ LET data == flash[<<apc.job.src, apc.step>>] IN
       /\ ram' = [ram EXCEPT ![apc.step] = IF apc.step = 0 THEN WithWord(data, "invalid") ELSE data]
       /\ apc' = [apc EXCEPT !.pc = "erase", !.tag = IF apc.step = 0 THEN data[0].word ELSE @]
  /\ UNCHANGED <<flash, tableVars, hostVars, mbox, dead, faults, history>>

\* All packets are copied: iCopyImage restores the tag in memory, compares the
\* packet with the source and writes it again.
CopyRetag ==
  /\ apc.pc = "read" /\ apc.step = Chunks
  /\ ram' = [ram EXCEPT ![0] = WithWord(@, apc.tag)]
  /\ IF ram'[0] = flash[<<apc.job.src, 0>>]
     THEN apc' = [apc EXCEPT !.pc = "erase"] /\ UNCHANGED <<host, promised>>
     ELSE Finish(FALSE)
  /\ UNCHANGED <<flash, tableVars, sq, calls, mbox, dead, faults, unguarded, bare, clean>>

Guarded(job) == CASE job.op = "pdi"  -> IF job.short THEN unguarded \ {job.part} ELSE unguarded
                  [] job.op = "fpt"  -> IF job.chunk > 0 THEN unguarded \cup {P0} ELSE unguarded
                  [] job.op = "copy" -> IF job.src \in unguarded THEN unguarded \cup {job.part}
                                        ELSE unguarded \ {job.part}

\* ulOspiWrite: iOSPI_FlashErase of the sector ...
Erase ==
  /\ apc.pc = "erase"
  /\ flash' = [flash EXCEPT ![Target] = [g \in PageIds |-> Blank]]
  /\ apc' = [apc EXCEPT !.pc = "write", !.page = 0]
  /\ unguarded' = Guarded(apc.job)
  /\ UNCHANGED <<ram, tableVars, hostVars, mbox, dead, faults, promised, bare, clean>>

\* A packet of a copy that cannot be read, a sector that cannot be erased, or a
\* page that cannot be read back: the job fails.
FlashFails ==
  /\ \/ apc.pc \in {"erase", "readback"}
     \/ apc.pc = "read" /\ apc.step < Chunks
  /\ faults < MaxFaults
  /\ faults' = faults + 1 /\ clean' = FALSE
  /\ Finish(FALSE)
  /\ UNCHANGED <<flash, ram, tableVars, sq, calls, mbox, dead, unguarded, bare>>

\* ... then iOSPI_FlashWrite, page after page ...
WritePage ==
  /\ apc.pc = "write"
  /\ flash' = [flash EXCEPT ![Target][apc.page] = Buffer[apc.page]]
  /\ apc' = IF apc.page < LastPage THEN [apc EXCEPT !.page = @ + 1]
            ELSE [apc EXCEPT !.pc = "readback"]
  /\ UNCHANGED <<ram, tableVars, hostVars, mbox, dead, faults, history>>

\* iOSPI_FlashWrite keeps the status of the last page: a failure before goes
\* unnoticed here.
WritePageFails ==
  /\ apc.pc = "write" /\ faults < MaxFaults
  /\ faults' = faults + 1 /\ clean' = FALSE
  /\ IF apc.page < LastPage
     THEN apc' = [apc EXCEPT !.page = @ + 1] /\ UNCHANGED <<host, promised>>
     ELSE Finish(FALSE)
  /\ UNCHANGED <<flash, ram, tableVars, sq, calls, mbox, dead, unguarded, bare>>

\* ... and the read-back of some pages, which finds those that are still erased
\* (it compares only when the first word read is ( uint32_t )-1).
StillErased(g) == flash[Target][g].word = "erased" /\ flash[Target][g] # Buffer[g]
ReadBack ==
  /\ apc.pc = "readback"
  /\ IF \E g \in Sampled : g <= LastPage /\ StillErased(g)
     THEN Finish(FALSE)
     ELSE apc' = [apc EXCEPT !.pc = "verify"] /\ UNCHANGED <<host, promised>>
  /\ UNCHANGED <<flash, ram, tableVars, sq, calls, mbox, dead, faults, unguarded, bare, clean>>

VerifiedNothing == TRUE   \* mutant: the status of the write is enough
Verified == IF apc.job.short THEN flash[Target][0].word = Buffer[0].word
            ELSE flash[Target] = Buffer

\* A written FPT sector makes the table invalid, verified or not; one whose
\* write has failed does not.
InvalidatesNothing == FALSE   \* mutant
InvalidatesFpt == Target = FptSector

\* iVerifyDownload compares flash and memory.
Verify ==
  /\ apc.pc = "verify"
  /\ valid' = (valid /\ ~ InvalidatesFpt)
  /\ IF ~ Verified THEN Finish(FALSE)
     ELSE IF apc.job.op = "copy" /\ apc.step < Chunks
     THEN apc' = [apc EXCEPT !.pc = "read", !.step = @ + 1] /\ UNCHANGED <<host, promised>>
     ELSE IF apc.job.op = "fpt" /\ apc.job.last
     THEN apc' = [apc EXCEPT !.pc = "refresh"] /\ UNCHANGED <<host, promised>>
     ELSE Finish(TRUE)
  /\ UNCHANGED <<flash, ram, table, sq, calls, mbox, dead, faults, unguarded, bare, clean>>

\* iRefreshFptData: the table is freed and loaded again from flash.
Refresh ==
  /\ apc.pc = "refresh"
  /\ table' = TableOf(flash[FptSector])
  /\ valid' = (valid \/ HeaderValid(flash[FptSector]))
  /\ Finish(HeaderValid(flash[FptSector]))
  /\ UNCHANGED <<flash, ram, sq, calls, mbox, dead, faults, unguarded, bare, clean>>

\* The AMC restarts: its queues are lost, iAPC_Initialise loads the table.
AmcReset ==
  /\ faults < MaxFaults
  /\ faults' = faults + 1 /\ clean' = FALSE
  /\ sq' = <<>> /\ mbox' = <<>> /\ apc' = IdleApc /\ dead' = FALSE /\ bare' = FALSE
  /\ table' = TableOf(flash[FptSector]) /\ valid' = HeaderValid(flash[FptSector])
  /\ UNCHANGED <<flash, ram, host, calls, promised, unguarded>>

HostNext == HostCall \/ HostSend \/ HostAbandon \/ HostTimeout
ApcNext == \/ ApcPend \/ CopyRead \/ CopyRetag \/ Erase \/ FlashFails
           \/ WritePage \/ WritePageFails \/ ReadBack \/ Verify \/ Refresh
Next == HostNext \/ AmiAccept \/ ApcNext \/ AmcReset

Spec == Init /\ [][Next]_vars
=============================================================================
