--------------------------- MODULE AmiCommandProps ---------------------------
(***************************************************************************)
(* What the command path of the AMI driver must guarantee.                 *)
(***************************************************************************)
EXTENDS AmiCommand

Calls    == Threads \X Nat
Requests == Cids \X Calls

CallTypeOK ==
  /\ pc \in [Threads -> {"idle", "acquire", "cid", "lock", "write", "add",
                         "wait", "timed", "rcode", "abort", "response", "done"}]
  /\ calls \in [Threads -> Nat]
  /\ ret \in [Threads -> {"none", "SUCCESS", "REFUSED", "EIO", "EBUSY",
                          "ERESTARTSYS", "ETIMEDOUT", "EINVAL"}]
  /\ allocated \in [Threads -> BOOLEAN]
  /\ cid \in [Threads -> Cids]
  /\ response \in [Threads -> Calls \cup {NoCall}]

WaitTypeOK ==
  /\ completed \in [Threads -> BOOLEAN]
  /\ timedOut \in [Threads -> BOOLEAN]
  /\ rcode \in [Threads -> {0, ETIME}]
  /\ expired \in [Threads -> BOOLEAN]

DriverTypeOK ==
  /\ cidsUsed \subseteq Cids /\ nextCid \in 0 .. MaxCid + 1
  /\ sema \in [Pages -> Threads \cup {NoThread}]
  /\ cmdLock \in Threads \cup {NoThread} /\ halted \in BOOLEAN

ListTypeOK ==
  /\ submitted \subseteq Threads
  /\ ahead \in [Threads -> SUBSET Threads]

ResponseTypeOK ==
  /\ rPc \in {"read", "complete", "check", "scan", "flag"}
  /\ rCmd \in Threads \cup {NoThread} /\ rScan \subseteq Threads
  /\ rResp \in Requests \cup {NoCall}
  /\ rPc = "complete" <=> rResp # NoCall
  /\ rPc = "flag" <=> rCmd # NoThread

QueueTypeOK ==
  /\ sq \subseteq Requests /\ busy \subseteq Requests /\ cq \subseteq Requests
  /\ page \in [Pages -> Calls \cup {NoCall}]

TypeOK == /\ CallTypeOK /\ WaitTypeOK /\ DriverTypeOK
          /\ ListTypeOK /\ ResponseTypeOK /\ QueueTypeOK

\* A command is freed only when nothing points to it: the response thread
\* walks the list and, after complete() has woken the caller, still writes
\* timed_out, while the caller runs on to kfree without the instance lock.
NoUseAfterFree ==
  /\ \A t \in submitted \cup rScan : allocated[t]
  /\ rPc = "flag" => allocated[rCmd]

\* The threads whose command has an id of its own.
HasCid(t) ==
  \/ pc[t] \in {"lock", "write", "add", "wait", "timed", "rcode", "abort",
                "response"}
  \/ pc[t] = "done" /\ ret[t] \notin {"EIO", "EBUSY"}

\* "the unique id associated with the command": no two commands in flight
\* have the same cid, or the response to one would complete the other.
CidUnique ==
  \A t, u \in Threads :
    t # u /\ HasCid(t) /\ HasCid(u) => cid[t] # cid[u]

\* Every way out of submit_gcq_command, the early ones included, gives back
\* the ids and the semaphores: none is held by a call that has returned.
CidsHeld == \A i \in cidsUsed : \E t \in Threads : HasCid(t) /\ cid[t] = i

LocksHeld ==
  /\ \A p \in Pages : sema[p] # NoThread => pc[sema[p]] # "idle"
  /\ cmdLock # NoThread => pc[cmdLock] \in {"write", "add"}

NothingLeaks == CidsHeld /\ LocksHeld

\* A call that succeeds got the answer to its own request: never the late one
\* of a command that timed out, nor that of a concurrent command.
OwnResponse ==
  \A t \in Threads : pc[t] = "response" => response[t] = ThisCall(t)

\* The shared page a successful call copies holds what the AMC wrote for it.
PageIsOwn ==
  \A t \in Threads :
    pc[t] = "response" /\ Kind[t] # "plain" => page[Kind[t]] = ThisCall(t)

\* A call waits for ever neither for a response nor for a lock: whatever the
\* AMC does, submit_gcq_command returns.
EveryCallReturns ==
  \A t \in Threads : pc[t] # "idle" ~> pc[t] = "idle"

-----------------------------------------------------------------------------
(* The inductive strengthening of NoUseAfterFree and NothingLeaks.         *)

\* Before the command is in the list, and while the caller may find it there.
Fresh   == {"idle", "acquire", "cid", "lock", "write", "add"}
Waiting == {"wait", "timed", "rcode", "abort"}

\* The list holds commands whose callers have still to leave the wait or to
\* pass through amc_proxy_request_abort; the response thread keeps pointers
\* only into the list, and only while it has the instance lock.
ListInv ==
  /\ \A t \in submitted : pc[t] \in Waiting
  /\ rScan \subseteq submitted
  /\ InstLockFree => rScan = {}
  /\ rPc = "flag" => rCmd \in submitted /\ rcode[rCmd] # 0

\* A caller that was woken while its command is in the list was woken by a
\* timeout, and cmd_rcode tells: so the way round the abort is not for it.
WakeInv ==
  /\ \A t \in Threads : pc[t] \in Fresh => ~completed[t]
  /\ \A t \in Threads : pc[t] \in {"timed", "rcode", "response"} => completed[t]
  /\ \A t \in submitted : completed[t] => rcode[t] # 0

AllocInv == \A t \in Threads : allocated[t] <=> pc[t] # "idle"

\* The ways into the done label from where an id is held.
ReturnInv ==
  \A t \in Threads : pc[t] = "abort" =>
    ret[t] \in {"ERESTARTSYS", "ETIMEDOUT", "EINVAL"}

SafetyInv == TypeOK /\ ListInv /\ WakeInv /\ AllocInv

LeakInv == TypeOK /\ ReturnInv /\ NothingLeaks
-----------------------------------------------------------------------------
(* The inductive strengthening of OwnResponse and PageIsOwn.               *)

\* Requests and responses on their way, to and from the AMC.
Outstanding == sq \cup busy \cup cq \cup ({rResp} \ {NoCall})

\* A request is in one place, and is not there before its call has written it.
PlacesInv ==
  /\ sq \cap busy = {} /\ sq \cap cq = {} /\ busy \cap cq = {}
  /\ rResp \notin sq \cup busy \cup cq
  /\ \A r \in Outstanding, t \in Threads : r[2][1] = t =>
       /\ r[2][2] <= calls[t]
       /\ pc[t] \in {"acquire", "cid", "lock", "write"} => r[2][2] < calls[t]

\* What is on its way with the id of a call is of this call; so a caller that
\* was woken, other than by a timeout, has its own response.
OwnInv ==
  /\ CidUnique /\ OwnResponse
  /\ \A r \in Outstanding, t \in Threads :
       HasCid(t) /\ cid[t] = r[1] => r[2] = ThisCall(t)
  /\ \A t \in Threads :
       /\ pc[t] \in Fresh => response[t] = NoCall
       /\ response[t] \in {NoCall, ThisCall(t)}
       /\ completed[t] /\ rcode[t] = 0 => response[t] = ThisCall(t)

\* The next id is that of no call and of nothing that is on its way: what
\* OwnInv needs of the xarray.
FreshIds ==
  \A t \in Threads, id \in FreeCids : pc[t] = "cid" /\ CyclicCid(id) =>
    /\ \A u \in Threads : HasCid(u) => cid[u] # id
    /\ \A r \in Outstanding : r[1] # id

\* All calls that the threads will make, and those that have asked for an id.
AllCalls == UNION {{t} \X (1 .. MaxCalls[t]) : t \in Threads}
Asked ==
  {c \in AllCalls : \/ c[2] < calls[c[1]]
                    \/ c[2] = calls[c[1]] /\ pc[c[1]] \notin {"acquire", "cid"}}

\* While there are no more calls than ids, the ids do not come round: what is
\* not below nextCid has not been given to anyone.
RoundInv ==
  /\ nextCid <= Cardinality(Asked)
  /\ \A i \in cidsUsed : i < nextCid
  /\ \A r \in Outstanding : r[1] < nextCid
  /\ \A t \in Threads :
       /\ calls[t] <= MaxCalls[t] /\ (pc[t] # "idle" => calls[t] > 0)
       /\ HasCid(t) => cid[t] < nextCid

\* A thread that is neither killed nor timed out waits for what it has sent.
Waited == Threads \ (Signalled \cup Expirable)
WaitedInv ==
  /\ \A t \in Waited : ~expired[t] /\ ~timedOut[t] /\ rcode[t] = 0 /\ rCmd # t
  /\ \A r \in Outstanding, t \in Waited : r[2][1] = t =>
       /\ r = <<cid[t], ThisCall(t)>>
       /\ pc[t] \in {"add", "wait"} /\ ~completed[t]

\* Without calls that give up, an id is in use for as long as its call has it.
HeldInv ==
  \A t \in Threads :
    /\ pc[t] = "done" => ret[t] \notin {"EIO", "EBUSY"}
    /\ HasCid(t) => cid[t] \in cidsUsed

\* A call that uses a page holds its semaphore, and the page is written for it
\* alone from the answer of the AMC on.
PageInv ==
  /\ \A t \in Threads :
       /\ Kind[t] # "plain" /\ pc[t] \notin {"idle", "acquire", "done"}
            => sema[Kind[t]] = t
       /\ Kind[t] # "plain" /\ pc[t] # "done" /\ completed[t]
            => page[Kind[t]] = ThisCall(t)
  /\ \A r \in cq \cup ({rResp} \ {NoCall}), t \in Threads :
       r[2][1] = t /\ Kind[t] # "plain" => page[Kind[t]] = ThisCall(t)
=============================================================================
