---------------------------- MODULE AmiProxyProps ----------------------------
(***************************************************************************)
(* What the AMC must guarantee to the host that sends it requests.         *)
(***************************************************************************)
EXTENDS AmiProxy, FiniteSets

Elems(q) == {q[i] : i \in 1 .. Len(q)}

HostTypeOK ==
  /\ unsent \subseteq Requests /\ dropped \subseteq Requests
  /\ sq \in Seq(Requests) /\ cq \in Seq([cid : Requests, of : Requests])

SlotTypeOK ==
  /\ inUse \subseteq Slots /\ lost \subseteq Slots
  /\ held \in [Slots -> Requests \cup {NoRequest}]

AmiTypeOK ==
  /\ amiPc \in {"read", "event", "pend", "write", "free"}
  /\ amiSlot \in Slots /\ amiMsg \in Works \cup {NoWork}
  /\ amiPc \in {"write", "free"} => amiMsg \in Works

ApcTypeOK ==
  /\ apcPc \in {"pend", "job"} /\ apcMsg \in Works \cup {NoWork}
  /\ apcPc = "job" => apcMsg \in Works

MboxTypeOK == mbox \in Seq(Works) /\ apcMbox \in Seq(Works \cup {HotReset})

\* The types of the variables; a task that is at work has a work to do.
TypeOK == HostTypeOK /\ SlotTypeOK /\ AmiTypeOK /\ ApcTypeOK /\ MboxTypeOK

-----------------------------------------------------------------------------
(* The slots.                                                              *)

\* Works in a mailbox.
Carries(q, s) == \E i \in 1 .. Len(q) : q[i] # HotReset /\ q[i].slot = s
OncePerSlot(q) ==
  \A i, j \in 1 .. Len(q) :
    q[i] # HotReset /\ q[j] # HotReset /\ q[i].slot = q[j].slot => i = j

\* Works in a task.
InAmiTask(s) ==
  \/ amiPc = "event" /\ amiSlot = s
  \/ amiPc \in {"write", "free"} /\ amiMsg.slot = s
InApcTask(s) == apcPc = "job" /\ apcMsg.slot = s

\* A slot in use has its answer in exactly one place on its way to the host, or
\* lost its response to a full ring: no path through the callbacks, the two
\* mailboxes and the two tasks forgets a slot or answers it twice, and none
\* touches a slot that is free.
SlotsAccounted ==
  /\ \A s \in Slots :
       /\ s \in inUse <=> \/ InAmiTask(s) \/ Carries(mbox, s) \/ s \in lost
                         \/ Carries(apcMbox, s) \/ InApcTask(s)
       /\ InAmiTask(s) => /\ ~Carries(mbox, s) /\ s \notin lost
                          /\ ~Carries(apcMbox, s) /\ ~InApcTask(s)
       /\ Carries(mbox, s) => /\ s \notin lost
                              /\ ~Carries(apcMbox, s) /\ ~InApcTask(s)
       /\ Carries(apcMbox, s) => ~InApcTask(s) /\ s \notin lost
       /\ InApcTask(s) => s \notin lost
  /\ OncePerSlot(mbox) /\ OncePerSlot(apcMbox)

\* The response to a request carries the result of that request, though slots
\* are used again and jobs of the APC overtake one another's answers.
AnswersMatch == \A a \in Elems(cq) : a.cid = a.of

-----------------------------------------------------------------------------
(* The AMC as its host sees it.                                            *)

\* The requests taken and not answered: those in a slot, but for the one that
\* was answered and still has to give its slot back, and those dropped.
Active == {s \in inUse : ~(amiPc = "free" /\ amiMsg.slot = s)}
Busy   == dropped \cup {held[s] : s \in Active}

Server == INSTANCE AmcServer WITH
  sq <- Elems(sq), busy <- Busy, cq <- Elems(cq)

\* Every request is answered at most once, with its own id and result: the AMC
\* that the driver's command path (AmiCommand) is checked with.
ImplementsServer == Server!Spec

\* A request is dropped only when the host has more requests outstanding than
\* xRxData has slots.  Outstanding is also one whose response was thrown away
\* because the completion ring was full: the host will never see its answer, and
\* the card never gets the slot back (ami_proxy_driver.c:1972).  So the statement
\* excludes losses for any other reason, not those that such a leak brings on.
Outstanding == Elems(sq) \cup Busy \cup {a.cid : a \in Elems(cq)}
DroppedOnlyWhenFlooded ==
  [][dropped' # dropped => Cardinality(Outstanding) > NumSlots]_vars

-----------------------------------------------------------------------------
(* Progress.                                                               *)

\* Waiting to be read, or in a slot and not known to be lost.
Pending(r) == r \in Elems(sq) \/ \E s \in inUse \ lost : held[s] = r

\* A request that a callback answers is settled whatever the flash does.
QuickSettled ==
  \A r \in Requests : (Pending(r) /\ Kind[r] # "apc") ~> ~Pending(r)

\* Every request is answered, dropped or lost to a full ring: one that a
\* callback answers whatever the flash does, so the heartbeat is answered while
\* a download is stuck, the others when the jobs of the APC end.
AllSettled ==
  /\ QuickSettled
  /\ WF_vars(ApcTask) => \A r \in Requests : Pending(r) ~> ~Pending(r)

-----------------------------------------------------------------------------
(* The inductive invariant behind SlotsAccounted, AnswersMatch and the     *)
(* refinement.                                                             *)

\* The work in the mailboxes and in the tasks is that of the request in its
\* slot.
OwnWorks(q, h) ==
  \A i \in 1 .. Len(q) : q[i] # HotReset => q[i].of = h[q[i].slot]
WorkInv ==
  /\ \A s \in inUse : held[s] \in Requests
  /\ OwnWorks(mbox, held) /\ OwnWorks(apcMbox, held)
  /\ apcPc = "job" => apcMsg.of = held[apcMsg.slot]
  /\ amiPc = "write" => amiMsg.of = held[amiMsg.slot]

Distinct(q) == \A i, j \in 1 .. Len(q) : q[i] = q[j] => i = j

Cids == {a.cid : a \in Elems(cq)}

\* A request is in one place, from the host to the host.
RequestInv ==
  /\ Distinct(sq) /\ Distinct(cq)
  /\ \A s, u \in Active : held[s] = held[u] => s = u
  /\ \A s \in Active : held[s] \notin dropped
  /\ unsent \cap Elems(sq) = {} /\ unsent \cap Busy = {} /\ unsent \cap Cids = {}
  /\ Elems(sq) \cap Busy = {} /\ Elems(sq) \cap Cids = {}
  /\ Busy \cap Cids = {}

ProxyInv == SlotsAccounted /\ WorkInv /\ AnswersMatch /\ RequestInv
=============================================================================
