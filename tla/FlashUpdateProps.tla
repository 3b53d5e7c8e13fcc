--------------------------- MODULE FlashUpdateProps ---------------------------
(* What the programming of the boot flash must guarantee. *)
EXTENDS FlashUpdate

JobType == [call : 0 .. MaxCalls, op : {"pdi", "fpt", "copy"}, part : Parts, src : Parts,
            chunk : 0 .. Chunks, short : BOOLEAN, first : BOOLEAN, last : BOOLEAN]
PageType == [image : Images \cup Tables \cup {OldImage, NoImage}, chunk : ChunkIds, page : PageIds,
             word : {"tag", "invalid", "data", "erased"}]

\* The type invariant of the driver's call, the queues, the APC task and the flash.
TypeOK ==
  /\ flash \in [Sectors -> [PageIds -> PageType]]
  /\ ram \in [ChunkIds -> [PageIds -> PageType]]
  /\ valid \in BOOLEAN /\ table \in {"none", "good", "few", "torn"}
  /\ host \in [pc : {"idle", "send", "wait"}, op : {"pdi", "fpt", "copy"}, part : Parts,
               src : Parts, image : Images \cup {NoImage}, fpt : Tables \cup {NoImage},
               step : 0 .. Chunks, ret : {"ok", "failed"}]
  /\ sq \in Seq(JobType) /\ mbox \in Seq(JobType) /\ Len(mbox) <= MboxSize
  /\ apc \in [pc : {"idle", "read", "erase", "write", "readback", "verify", "refresh"},
              job : JobType, step : 0 .. Chunks, page : PageIds,
              tag : {"none", "tag", "invalid", "data", "erased"}]
  /\ calls \in 0 .. MaxCalls /\ faults \in 0 .. MaxFaults
  /\ promised \in [Parts -> Images \cup {OldImage, NoImage}]
  /\ unguarded \subseteq Parts /\ dead \in BOOLEAN /\ bare \in BOOLEAN /\ clean \in BOOLEAN

Whole(p, i, cs) == \A c \in cs : flash[<<p, c>>] = Piece(i, c)

\* "invalidate the PDI magic number, to ensure it isn't bootable until
\* complete" (apc_proxy_driver.c:1664) and "we must invalidate the boot tag and
\* write the first chunk last" (ami_program.c:115): a partition with a valid
\* boot tag holds the rest of the same image, whatever was killed, timed out,
\* failed or was reset on the way.  Exempt is what an FPT update wrote, which
\* does not invalidate the tag, and the pages of the chunk with the tag itself,
\* which is the whole of an image of one chunk.
BootTagLast ==
  \A p \in Parts \ unguarded :
    LET image == flash[<<p, 0>>][0].image
    IN flash[<<p, 0>>][0].word = "tag" => Whole(p, image, Extent(image) \ {0})

\* When download_pdi, update_fpt or copy_partition has returned 0 the whole
\* image is in flash, and it stays there until a call writes the partition
\* again: no request that an earlier call has left behind comes after it, and
\* no failed page was missed.
SuccessIsWhole ==
  \A p \in Parts : promised[p] # NoImage => Whole(p, promised[p], Extent(promised[p]))

\* The APC task never works with an entry of a partition table that has been
\* freed (apc_proxy_driver.c:1431) or replaced by a shorter one: a job is accepted
\* while piValidFpt is set and executed later, when an update of the FPT accepted
\* before it may have run.  An update of several chunks clears piValidFpt with
\* its first chunk and loads the table with its last, so that nothing accepted
\* in between is left behind it.  An update of the table alone does both in one
\* job (ami_program.c:77-88) and the code has nothing to stop what is accepted
\* while it is queued, once its call was killed or timed out: exempt is what
\* follows when a job was accepted behind such an update.
JobsUseLoadedTable == dead => bare

\* A call fails only when something went wrong: a fault of the flash, a
\* reset, no valid table with the partition, a full mailbox, an FPT update left
\* behind, a job without a table, or a wait that ended early.  What other calls
\* have left in the queues and in shared memory does not make it fail.
CallFails == host.pc # "idle" /\ host'.pc = "idle" /\ host'.ret = "failed"
UndisturbedSucceeds ==
  [][CallFails => \/ ~ clean \/ ~ clean' \/ HostAbandon]_vars

-----------------------------------------------------------------------------
(* The inductive invariants behind the properties above, in parts.          *)

\* A request of a call that has had an answer before: its call waited for it
\* alone, so that nothing was left in the queues when it was sent.
Later(j)    == ~ j.first
LaterFpt(j) == j.op = "fpt" /\ Later(j)

\* What calls and requests are made of, and what the APC task is about.
JobInv ==
  /\ \A j \in Pending :
       /\ j.call <= calls
       /\ j.short => j.op = "pdi" /\ j.chunk = 0
       /\ j.op = "pdi" => j.chunk \in ChunkIds /\ j.src = j.part /\ (j.chunk > 0 => Later(j))
       /\ j.op = "pdi" /\ Later(j) => ~ j.short
       /\ j.op = "fpt" => j.part = P0 /\ (Later(j) <=> j.chunk > 0)
       /\ j.op = "copy" => j.part # j.src /\ ~ Later(j)
  /\ host.pc # "idle" =>
       /\ host.step <= LastStep(host)
       /\ host.op = "pdi" => host.image \in Images /\ host.src = host.part
       /\ host.op = "fpt" => /\ host.image \in (Images \ OneChunk) \cup {NoImage}
                             /\ host.fpt \in Tables /\ host.part = P0
       /\ host.op = "copy" => host.part # host.src /\ host.image = NoImage
  /\ apc.pc = "refresh" => apc.job.op = "fpt" /\ apc.job.last
  /\ apc.pc = "read" => apc.job.op = "copy"
  /\ apc.pc # "idle" /\ apc.job.op = "copy" /\ apc.tag = "none"
       => apc.pc = "read" /\ apc.step = 0

\* The call that waits has one request at most, behind all others; once it has
\* had an answer, there are no others.
OwnInv ==
  /\ host.pc = "send" => \A j \in Pending : j.call # calls
  /\ host.pc = "wait" =>
       /\ \A j \in Pending : j.call = calls => j = Request(host)
       /\ apc.pc # "idle" /\ apc.job.call = calls => mbox = <<>> /\ sq = <<>>
       /\ \A k \in 1 .. Len(mbox) : mbox[k].call = calls => k = Len(mbox) /\ sq = <<>>
       /\ \A k \in 1 .. Len(sq) : sq[k].call = calls => k = Len(sq)
  /\ host.pc # "idle" /\ host.step > 0 => \A j \in Pending : j.call = calls

\* A later request is the first of all.
HeadInv ==
  /\ \A k \in 1 .. Len(sq) : Later(sq[k]) => k = 1 /\ mbox = <<>> /\ apc.pc = "idle"
  /\ \A k \in 1 .. Len(mbox) : Later(mbox[k]) => k = 1 /\ apc.pc = "idle"

\* While piValidFpt is set there is a table; while an update is under way beyond
\* its first sector, it is the one in flash, and what is accepted behind the
\* requests of the update needs it.
TableInv ==
  /\ valid => table # "none"
  /\ \/ apc.pc = "refresh" \/ \E j \in Pending : LaterFpt(j)
     \/ host.pc # "idle" /\ host.op = "fpt" /\ host.step > 0
     => (valid => HeaderValid(flash[FptSector]) /\ table = TableOf(flash[FptSector]))
  /\ ~ valid /\ (\E j \in Admitted : LaterFpt(j))
       => \A j \in ToSet(mbox) : j.op = "fpt"

\* Until a job is accepted behind an update with the table alone, jobs have
\* their entries, and what is behind such an update are updates.
BareInv ==
  /\ dead => bare /\ apc.pc = "idle"
  /\ ~ bare =>
       /\ \A j \in Admitted : Found(j)
       /\ apc.pc # "idle" /\ Single(apc.job) => \A j \in ToSet(mbox) : j.op = "fpt"
       /\ \A k, l \in 1 .. Len(mbox) : k < l /\ Single(mbox[k]) => mbox[l].op = "fpt"

QueueInv == JobInv /\ OwnInv /\ HeadInv /\ TableInv /\ BareInv

\* A copy is never abandoned: its call waits for it while there is an APC task.
CopyWaited == ~ dead => \A j \in Pending : j.op = "copy" => host.pc = "wait" /\ j.call = calls

\* While a download waits, shared memory is what it sent.
RamInv ==
  host.pc = "wait" =>
    /\ Invalidating(host) => ram[0][0].word = "invalid"
    /\ host.op = "pdi" /\ ~ Invalidating(host) => ram[0] = Piece(host.image, host.step % Chunks)
    /\ host.op = "fpt" /\ host.step > 0 => ram[0] = Piece(host.image, host.step - 1)

\* A boot tag in shared memory is behind the rest of its image, if there is a
\* rest, and in front of that rest is no boot tag in flash.
TagInv ==
  \A j \in Pending : j.op = "pdi" =>
    /\ j.chunk = 0 /\ ram[0][0].word = "tag" =>
         \E i \in Images : /\ i \in OneChunk \/ Later(j)
                           /\ ram[0] = Piece(i, 0) /\ Whole(j.part, i, Extent(i) \ {0})
    /\ j.chunk > 0 => flash[<<j.part, 0>>][0].word # "tag"

\* What the call has had answers for is in flash.
ProgressInv ==
  /\ host.pc # "idle" /\ host.op = "pdi" /\ host.step > 0 =>
       /\ Whole(host.part, host.image, 1 .. host.step - 1)
       /\ host.step < Chunks => flash[<<host.part, 0>>][0].word # "tag"
  /\ host.pc # "idle" /\ host.op = "fpt" /\ host.step > 0 =>
       Whole(P0, host.image, 0 .. host.step - 2)
  /\ host.pc = "wait" /\ host.image # NoImage /\ apc.pc = "refresh" /\ apc.job.call = calls =>
       Whole(P0, host.image, ChunkIds)

\* A copy in progress: the packets behind it are in flash, the boot tag is not
\* until the last write, and the packet at hand is in shared memory.
CopyInv ==
  LET p == apc.job.part
      s == apc.job.src
  IN apc.pc # "idle" /\ apc.job.op = "copy" =>
       /\ \A c \in 1 .. apc.step - 1 : flash[<<p, c>>] = flash[<<s, c>>]
       /\ apc.step > 0 /\ (apc.step < Chunks \/ apc.pc = "read")
            => flash[<<p, 0>>][0].word # "tag"
       /\ apc.pc # "read" /\ apc.step = 0 => ram[0][0].word = "invalid"
       /\ apc.pc # "read" /\ apc.step \in 1 .. Chunks - 1 => ram[apc.step] = flash[<<s, apc.step>>]
       /\ apc.pc # "read" /\ apc.step = Chunks => ram[0] = flash[<<s, 0>>]

\* What is exempt from BootTagLast is known when it is written.
GuardInv ==
  apc.pc \in {"write", "readback", "verify"} =>
    /\ apc.job.op = "fpt" /\ apc.job.chunk > 0 => P0 \in unguarded
    /\ apc.job.op = "copy" /\ apc.job.src \in unguarded => apc.job.part \in unguarded

\* Nothing was promised of a partition that a call or a request writes.
PromiseInv ==
  /\ host.pc # "idle" => promised[host.part] = NoImage
  /\ \A j \in Pending : promised[j.part] = NoImage

ContentInv ==
  /\ CopyWaited /\ RamInv /\ TagInv /\ ProgressInv /\ CopyInv /\ GuardInv /\ PromiseInv
  /\ BootTagLast /\ SuccessIsWhole

\* A copy keeps the boot tag aside, and its first packet in shared memory without it.
RetagInv ==
  LET first == flash[<<apc.job.src, 0>>] IN
  apc.pc # "idle" /\ apc.job.op = "copy" /\ (apc.step > 0 \/ apc.pc # "read") =>
    /\ apc.tag = first[0].word
    /\ apc.step < Chunks \/ apc.pc = "read" => ram[0] = WithWord(first, "invalid")

\* While nothing went wrong a call finds its table, its request is on its way,
\* no other call replaces the table, the header of a new table is there, and
\* what its request has written is written.
TableFound == IF host.op = "fpt" THEN host.fpt # BadFpt ELSE Listed(host.part) /\ Listed(host.src)
OnItsWay == host.pc = "wait" => \E j \in Pending : j.call = calls
NoOtherFpt == \A j \in Pending : j.op = "fpt" => j.call = calls
HeaderSent ==
  host.op = "fpt" =>
    IF host.step > 0 THEN HeaderValid(flash[FptSector])
    ELSE host.pc = "wait" => ram[0] = FptPiece(host.fpt)
WrittenSoFar ==
  Waits(apc.job) =>
    /\ apc.pc = "write" => \A g \in 0 .. apc.page - 1 : flash[Target][g] = Buffer[g]
    /\ apc.pc \in {"readback", "verify"} => Verified
    /\ apc.pc = "refresh" => HeaderValid(flash[FptSector])
CleanInv ==
  clean => /\ ~ dead
           /\ host.pc # "idle" => TableFound /\ OnItsWay /\ NoOtherFpt /\ HeaderSent /\ WrittenSoFar
=============================================================================
