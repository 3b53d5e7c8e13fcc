------------------------------ MODULE AmiProxy ------------------------------
(***************************************************************************)
(* The AMC end of the command queue: the task of the AMI proxy driver,     *)
(* which reads requests and writes responses, the event callbacks it runs, *)
(* and the task of the APC proxy driver, which does the long flash jobs.   *)
(*                                                                         *)
(* A request occupies a slot of xRxData from the moment it is read until   *)
(* its response is in the completion ring.  The number of the slot travels *)
(* with the work, through the events and through the mailboxes of the two  *)
(* tasks, and the response takes its command id from the slot.             *)
(***************************************************************************)
EXTENDS Integers, Sequences

CONSTANTS
  Requests,     \* requests of the host, each with a command id of its own
  Kind,         \* "quick": answered by the callback of its event (heartbeat,
                \* sensor, EEPROM, module, verbosity); "identity"; "apc":
                \* download, copy and boot selection, done by the APC task
  NumSlots,     \* AMI_RXDATA_SIZE
  MboxSize,     \* AMI_MBOX_SIZE
  ApcMboxSize,  \* APC_MBOX_SIZE
  SqSize, CqSize,  \* slots of the two rings
  NoRequest, HotReset

ASSUME ProxyAssumption ==
  /\ Kind \in [Requests -> {"quick", "identity", "apc"}]
  /\ NumSlots \in Nat \ {0} /\ MboxSize \in Nat /\ MboxSize >= NumSlots
  /\ ApcMboxSize \in Nat \ {0} /\ SqSize \in Nat \ {0} /\ CqSize \in Nat \ {0}
  /\ NoRequest \notin Requests

Slots == 0 .. NumSlots - 1
Works == [slot : Slots, of : Requests]

ASSUME HotResetAssumption == HotReset \notin Works

VARIABLES
  unsent, sq, cq,       \* the host and the two rings
  inUse, held,          \* xRxData: ucInUse, and the request in a slot
  amiPc, amiSlot, amiMsg,  \* vProxyDriverTask of the AMI proxy driver
  mbox,                 \* its mailbox
  apcPc, apcMsg,        \* vProxyDriverTask of the APC proxy driver
  apcMbox,              \* its mailbox
  dropped,   \* history: requests that found no free slot
  lost       \* history: slots whose response found no room in the ring

hostVars == <<unsent>>
rxVars   == <<inUse, held>>
amiVars  == <<amiPc, amiSlot, amiMsg>>
apcVars  == <<apcPc, apcMsg>>
history  == <<dropped, lost>>
vars == <<hostVars, sq, cq, rxVars, amiVars, mbox, apcVars, apcMbox, history>>

NoWork == [slot |-> 0, of |-> NoRequest]

Init ==
  /\ unsent = Requests /\ sq = <<>> /\ cq = <<>>
  /\ inUse = {} /\ held = [s \in Slots |-> NoRequest]
  /\ amiPc = "read" /\ amiSlot = 0 /\ amiMsg = NoWork
  /\ mbox = <<>>
  /\ apcPc = "pend" /\ apcMsg = NoWork /\ apcMbox = <<>>
  /\ dropped = {} /\ lost = {}

-----------------------------------------------------------------------------
(* The AMI task: one request in, one response out, every 100 ms.           *)

\* Mutant: one slot more than xRxData has.
SlotsPastEnd == (0 .. NumSlots) \ inUse

\* Mutant: the search stops one slot early.
SlotsButLast == (Slots \ {NumSlots - 1}) \ inUse

FreeSlots == Slots \ inUse

\* The request goes into the first free slot (iFindNextFreeRxDataIndex); when
\* there is none it is dropped and never answered.
ReadRequest ==
  /\ amiPc = "read" /\ sq # <<>>
  /\ sq' = Tail(sq)
  /\ \/ \E s \in FreeSlots :
          /\ \A u \in FreeSlots : s <= u
          /\ inUse' = inUse \cup {s}
          /\ held' = [held EXCEPT ![s] = Head(sq)]
          /\ amiSlot' = s /\ amiPc' = "event"
          /\ UNCHANGED dropped
     \/ /\ FreeSlots = {}
        /\ dropped' = dropped \cup {Head(sq)} /\ amiPc' = "pend"
        /\ UNCHANGED <<rxVars, amiSlot>>
  /\ UNCHANGED <<hostVars, cq, amiMsg, mbox, apcVars, apcMbox, lost>>

ReadNothing ==
  /\ amiPc = "read" /\ sq = <<>>
  /\ amiPc' = "pend"
  /\ UNCHANGED <<hostVars, sq, cq, rxVars, amiSlot, amiMsg, mbox, apcVars,
                 apcMbox, history>>

\* iAMI_Set...Response: a post that does not wait for room.
Post(w) == mbox' = IF Len(mbox) < MboxSize THEN Append(mbox, w) ELSE mbox

Work(s) == [slot |-> s, of |-> held[s]]

\* The event is raised, and its callbacks answer at once.
RaiseQuick ==
  /\ amiPc = "event" /\ Kind[held[amiSlot]] = "quick"
  /\ Post(Work(amiSlot))
  /\ amiPc' = "pend"
  /\ UNCHANGED <<hostVars, sq, cq, rxVars, amiSlot, amiMsg, apcVars, apcMbox,
                 history>>

\* The identity request also asks the APC to enable the hot reset; nobody
\* minds when its mailbox is full or the partition table is not valid.
RaiseIdentity ==
  /\ amiPc = "event" /\ Kind[held[amiSlot]] = "identity"
  /\ Post(Work(amiSlot))
  /\ \/ Len(apcMbox) < ApcMboxSize /\ apcMbox' = Append(apcMbox, HotReset)
     \/ UNCHANGED apcMbox
  /\ amiPc' = "pend"
  /\ UNCHANGED <<hostVars, sq, cq, rxVars, amiSlot, amiMsg, apcVars, history>>

\* Mutant: the slot is given up as soon as the APC has the job.
RaiseApcAndFree ==
  /\ amiPc = "event" /\ Kind[held[amiSlot]] = "apc"
  /\ Len(apcMbox) < ApcMboxSize
  /\ apcMbox' = Append(apcMbox, Work(amiSlot))
  /\ inUse' = inUse \ {amiSlot}
  /\ amiPc' = "pend"
  /\ UNCHANGED <<hostVars, sq, cq, held, amiSlot, amiMsg, mbox, apcVars, history>>

\* Mutant: a job that the APC refuses is not answered.
RaiseApcSilently ==
  /\ amiPc = "event" /\ Kind[held[amiSlot]] = "apc"
  /\ apcMbox' = IF Len(apcMbox) < ApcMboxSize
                THEN Append(apcMbox, Work(amiSlot)) ELSE apcMbox
  /\ amiPc' = "pend"
  /\ UNCHANGED <<hostVars, sq, cq, rxVars, amiSlot, amiMsg, mbox, apcVars,
                 history>>

\* iAPC_DownloadImage, iAPC_UpdateFpt, iAPC_CopyImage, iAPC_SetNextPartition:
\* the job goes to the APC, or is refused (bad partition, full mailbox) and
\* answered with a failure.
RaiseApc ==
  /\ amiPc = "event" /\ Kind[held[amiSlot]] = "apc"
  /\ \/ /\ Len(apcMbox) < ApcMboxSize
        /\ apcMbox' = Append(apcMbox, Work(amiSlot))
        /\ UNCHANGED mbox
     \/ Post(Work(amiSlot)) /\ UNCHANGED apcMbox
  /\ amiPc' = "pend"
  /\ UNCHANGED <<hostVars, sq, cq, rxVars, amiSlot, amiMsg, apcVars, history>>

\* Mutant: the message stays in the mailbox.
PeekResponse ==
  /\ amiPc = "pend" /\ mbox # <<>>
  /\ amiMsg' = Head(mbox)
  /\ amiPc' = "write"
  /\ UNCHANGED <<hostVars, sq, cq, rxVars, amiSlot, mbox, apcVars, apcMbox,
                 history>>

PendResponse ==
  /\ amiPc = "pend" /\ mbox # <<>>
  /\ amiMsg' = Head(mbox) /\ mbox' = Tail(mbox)
  /\ amiPc' = "write"
  /\ UNCHANGED <<hostVars, sq, cq, rxVars, amiSlot, apcVars, apcMbox, history>>

\* Mutant: OSAL_TIMEOUT_WAIT_FOREVER.
PendForever == FALSE /\ UNCHANGED vars

PendNothing ==
  /\ amiPc = "pend" /\ mbox = <<>>
  /\ amiPc' = "read"
  /\ UNCHANGED <<hostVars, sq, cq, rxVars, amiSlot, amiMsg, mbox, apcVars,
                 apcMbox, history>>

\* The response takes its command id from the slot.  When the ring has no room
\* the response is gone, and so is the slot.
WriteResponse ==
  /\ amiPc = "write"
  /\ \/ /\ Len(cq) < CqSize
        /\ cq' = Append(cq, [cid |-> held[amiMsg.slot], of |-> amiMsg.of])
        /\ amiPc' = "free"
        /\ UNCHANGED lost
     \/ /\ Len(cq) >= CqSize
        /\ lost' = lost \cup {amiMsg.slot}
        /\ amiPc' = "read"
        /\ UNCHANGED cq
  /\ UNCHANGED <<hostVars, sq, rxVars, amiSlot, amiMsg, mbox, apcVars, apcMbox,
                 dropped>>

\* Mutant: ucInUse is left set.
KeepSlot ==
  /\ amiPc = "free"
  /\ amiPc' = "read"
  /\ UNCHANGED <<hostVars, sq, cq, rxVars, amiSlot, amiMsg, mbox, apcVars,
                 apcMbox, history>>

FreeSlot ==
  /\ amiPc = "free"
  /\ inUse' = inUse \ {amiMsg.slot}
  /\ amiPc' = "read"
  /\ UNCHANGED <<hostVars, sq, cq, held, amiSlot, amiMsg, mbox, apcVars,
                 apcMbox, history>>

-----------------------------------------------------------------------------
(* The APC task: one job at a time, for as long as the flash takes.        *)

ApcPend ==
  /\ apcPc = "pend" /\ apcMbox # <<>>
  /\ apcMbox' = Tail(apcMbox)
  /\ \/ /\ Head(apcMbox) = HotReset
        /\ UNCHANGED apcVars
     \/ /\ Head(apcMbox) # HotReset
        /\ apcMsg' = Head(apcMbox) /\ apcPc' = "job"
  /\ UNCHANGED <<hostVars, sq, cq, rxVars, amiVars, mbox, history>>

\* The job is complete, or has failed: the event, and iApcCallback of the AMC.
ApcDone ==
  /\ apcPc = "job"
  /\ Post(apcMsg)
  /\ apcPc' = "pend"
  /\ UNCHANGED <<hostVars, sq, cq, rxVars, amiVars, apcMsg, apcMbox, history>>

-----------------------------------------------------------------------------
(* Environment: the host.                                                  *)

Send(r) ==
  /\ r \in unsent /\ Len(sq) < SqSize
  /\ unsent' = unsent \ {r} /\ sq' = Append(sq, r)
  /\ UNCHANGED <<cq, rxVars, amiVars, mbox, apcVars, apcMbox, history>>

Deliver ==
  /\ cq # <<>>
  /\ cq' = Tail(cq)
  /\ UNCHANGED <<hostVars, sq, rxVars, amiVars, mbox, apcVars, apcMbox, history>>

AmiTask ==
  \/ ReadRequest \/ ReadNothing \/ RaiseQuick \/ RaiseIdentity \/ RaiseApc
  \/ PendResponse \/ PendNothing \/ WriteResponse \/ FreeSlot

ApcTask == ApcPend \/ ApcDone

Next == AmiTask \/ ApcTask \/ Deliver \/ \E r \in Requests : Send(r)

Spec == Init /\ [][Next]_vars

\* The AMI task runs every 100 ms.
FairSpec == Spec /\ WF_vars(AmiTask)
=============================================================================
