----------------------------- MODULE AmiCommand -----------------------------
(***************************************************************************)
(* Commands that the AMI kernel driver sends to the AMC over the GCQ:      *)
(* submit_gcq_command (ami_amc_control.c), run by several threads at once, *)
(* and the proxy layer below it (amc_proxy.c), whose response thread       *)
(* matches responses and expires commands.                                 *)
(*                                                                         *)
(* Each thread runs one call at a time.  The amc_proxy_cmd_struct that a   *)
(* call allocates is the record of the thread that runs it: submitted,     *)
(* the list the response thread walks, and rCmd, its cursor, hold threads  *)
(* and stand for pointers to those records.                                *)
(***************************************************************************)
EXTENDS Integers, FiniteSets

CONSTANTS
  Threads,    \* kernel and user threads that submit commands
  Kind,       \* per thread, the shared memory it uses: "plain", "log", "data"
  Signalled,  \* threads that a signal may interrupt (user threads)
  Rejected,   \* threads whose request may be refused with its page held
  Expirable,  \* threads whose command may time out
  MaxCid,     \* MAX_COMMAND_IDS, the last id of the xarray
  SqSlots,    \* slots of the SQ ring
  MayStop,    \* whether stop_gcq_services is called
  MaxCalls,   \* bound: the calls of each thread
  NoThread, NoCall

ASSUME CommandAssumption ==
  /\ Kind \in [Threads -> {"plain", "log", "data"}]
  /\ Signalled \subseteq Threads /\ Rejected \subseteq Threads
  /\ Expirable \subseteq Threads
  /\ MaxCid \in Nat /\ SqSlots \in Nat \ {0} /\ MayStop \in BOOLEAN
  /\ MaxCalls \in [Threads -> Nat \ {0}]
  /\ NoThread \notin Threads
  /\ NoCall \notin Threads \X Nat /\ NoCall \notin (0 .. MaxCid) \X (Threads \X Nat)

Cids  == 0 .. MaxCid
ETIME == -62
Pages == {"log", "data"}

VARIABLES
  pc,         \* where each thread is in submit_gcq_command
  calls,      \* calls made so far, per thread
  ret,        \* what the call returns
  allocated,  \* amc_proxy_cmd: between kzalloc and kfree
  cid,        \* cmd_cid
  completed,  \* cmd_complete / cmd_complete_heartbeat was signalled
  timedOut,   \* timed_out
  rcode,      \* cmd_rcode
  response,   \* cmd_response: the call that the stored response answers
  expired,    \* cmd_timeout_jiffies is in the past
  cidsUsed, nextCid,  \* cid_xarray and next_cid_id
  sema,       \* holder of gcq_log_page_sema and of gcq_data_sema
  cmdLock,    \* holder of gcq_cmd_lock
  halted,     \* gcq_halted
  submitted,  \* submitted_cmds of the proxy instance, a linked list:
  ahead,      \* the commands that are before a command in that list
  rPc, rCmd, rScan,   \* the response thread
  rResp,      \* the response it has read
  sq, busy, cq,       \* requests in the SQ, taken by the AMC, responses
  page        \* the call whose data a page of shared memory holds

callVars  == <<calls, ret, allocated, cid, response>>
listVars  == <<submitted, ahead>>
cidVars   == <<cidsUsed, nextCid>>
waitVars  == <<completed, timedOut, rcode, expired>>
respVars  == <<rPc, rCmd, rScan, rResp>>
queueVars == <<sq, busy, cq>>
vars == <<pc, callVars, waitVars, cidVars, sema, cmdLock, halted, listVars,
          respVars, queueVars, page>>

ThisCall(t) == <<t, calls[t]>>

Init ==
  /\ pc = [t \in Threads |-> "idle"]
  /\ calls = [t \in Threads |-> 0]
  /\ ret = [t \in Threads |-> "none"]
  /\ allocated = [t \in Threads |-> FALSE]
  /\ cid = [t \in Threads |-> 0]
  /\ completed = [t \in Threads |-> FALSE]
  /\ timedOut = [t \in Threads |-> FALSE]
  /\ rcode = [t \in Threads |-> 0]
  /\ response = [t \in Threads |-> NoCall]
  /\ expired = [t \in Threads |-> FALSE]
  /\ cidsUsed = {} /\ nextCid = 0
  /\ sema = [p \in Pages |-> NoThread]
  /\ cmdLock = NoThread /\ halted = FALSE
  /\ submitted = {} /\ ahead = [t \in Threads |-> {}]
  /\ rPc = "read" /\ rCmd = NoThread /\ rScan = {} /\ rResp = NoCall
  /\ sq = {} /\ busy = {} /\ cq = {}
  /\ page = [p \in Pages |-> NoCall]

-----------------------------------------------------------------------------
(* The xarray of command ids.                                              *)

\* Mutant: the limit of the xarray is one id too far.
FreeCidsPastLimit == (0 .. MaxCid + 1) \ cidsUsed

FreeCids == Cids \ cidsUsed

\* xa_alloc_cyclic: the first free id from nextCid on, else from 0 on.
CyclicCid(id) ==
  IF \E i \in FreeCids : i >= nextCid
  THEN id >= nextCid /\ \A i \in FreeCids : i >= nextCid => id <= i
  ELSE \A i \in FreeCids : id <= i

\* Mutant: only a call that succeeds gives its id back.
GivenBackOnSuccess(t) == IF ret[t] = "SUCCESS" THEN {cid[t]} ELSE {}

\* remove_gcq_cid at the done label: cmd_cid, allocated or still zero.
GivenBack(t) == {cid[t]}

-----------------------------------------------------------------------------
(* The list of submitted commands, guarded by the lock of the instance.    *)

\* Mutant: the abort does not take the lock.
InstLockIgnored == TRUE

\* Held by the response thread while it looks for timeouts; the other
\* critical sections are one step each.
InstLockFree == rPc \notin {"scan", "flag"}

\* list_add_tail.
ListAdd(t) ==
  /\ submitted' = submitted \cup {t}
  /\ ahead' = [ahead EXCEPT ![t] = submitted]

\* list_del.
ListDel(t) ==
  /\ submitted' = submitted \ {t}
  /\ ahead' = [u \in Threads |-> IF u = t THEN {} ELSE ahead[u] \ {t}]

\* The first command of the list that is in S.
IsFirst(t, S) == t \in S /\ ahead[t] \cap S = {}

-----------------------------------------------------------------------------
(* submit_gcq_command.                                                     *)

\* The call is refused before anything is allocated: the service is halted,
\* the arguments are wrong, or kzalloc fails.
Refuse(t) ==
  /\ pc[t] = "idle" /\ calls[t] < MaxCalls[t]
  /\ calls' = [calls EXCEPT ![t] = @ + 1]
  /\ UNCHANGED <<pc, allocated, ret, cid, response, waitVars, cidVars, sema,
                 cmdLock, halted, listVars, respVars, queueVars, page>>

\* gcq_halted is read without a lock.
Call(t) ==
  /\ pc[t] = "idle" /\ calls[t] < MaxCalls[t] /\ ~halted
  /\ calls' = [calls EXCEPT ![t] = @ + 1]
  /\ allocated' = [allocated EXCEPT ![t] = TRUE]
  /\ pc' = [pc EXCEPT ![t] = IF Kind[t] = "plain" THEN "cid" ELSE "acquire"]
  /\ UNCHANGED <<ret, cid, response, waitVars, cidVars, sema, cmdLock, halted, listVars, respVars,
                 queueVars, page>>

\* Mutant: the semaphore of the page is not taken.
PageShared(p) == TRUE

\* down_interruptible.
PageFree(p) == sema[p] = NoThread

\* acquire_gcq_log_page_sema, acquire_gcq_data; a download or a write then
\* copies its payload to the page.
Acquire(t) ==
  /\ pc[t] = "acquire" /\ PageFree(Kind[t])
  /\ sema' = [sema EXCEPT ![Kind[t]] = t]
  /\ page' = IF Kind[t] = "data" THEN [page EXCEPT !["data"] = ThisCall(t)]
                                 ELSE page
  /\ pc' = [pc EXCEPT ![t] = "cid"]
  /\ UNCHANGED <<callVars, waitVars, cidVars, cmdLock, halted, listVars,
                 respVars, queueVars>>

\* goto done before the command has an id: a signal ends the wait for the
\* semaphore, or, with the semaphore held, the partition is larger than the page
\* or the sensor is unknown.
GiveUp(t) ==
  /\ \/ pc[t] = "acquire" /\ t \in Signalled /\ ~PageFree(Kind[t])
     \/ pc[t] = "cid" /\ t \in Rejected /\ Kind[t] # "plain"
  /\ ret' = [ret EXCEPT ![t] = "EIO"]
  /\ pc' = [pc EXCEPT ![t] = "done"]
  /\ UNCHANGED <<calls, allocated, cid, response, waitVars, cidVars, sema,
                 cmdLock, halted, listVars, respVars, queueVars, page>>

\* get_gcq_cid.
GetCid(t) ==
  /\ pc[t] = "cid"
  /\ \/ \E id \in FreeCids :
          /\ CyclicCid(id)
          /\ cid' = [cid EXCEPT ![t] = id]
          /\ cidsUsed' = cidsUsed \cup {id} /\ nextCid' = id + 1
          /\ pc' = [pc EXCEPT ![t] = "lock"]
          /\ UNCHANGED ret
     \/ /\ FreeCids = {}
        /\ ret' = [ret EXCEPT ![t] = "EBUSY"]
        /\ pc' = [pc EXCEPT ![t] = "done"]
        /\ UNCHANGED <<cid, cidVars>>
  /\ UNCHANGED <<calls, allocated, response, waitVars, sema, cmdLock, halted,
                 listVars, respVars, queueVars, page>>

Lock(t) ==
  /\ pc[t] = "lock" /\ cmdLock = NoThread
  /\ cmdLock' = t
  /\ pc' = [pc EXCEPT ![t] = "write"]
  /\ UNCHANGED <<callVars, waitVars, cidVars, sema, halted, listVars,
                 respVars, queueVars, page>>

\* The write of amc_proxy_request_*: the request goes into the ring.
Write(t) ==
  /\ pc[t] = "write" /\ Cardinality(sq) < SqSlots
  /\ sq' = sq \cup {<<cid[t], ThisCall(t)>>}
  /\ pc' = [pc EXCEPT ![t] = "add"]
  /\ UNCHANGED <<callVars, waitVars, cidVars, sema, cmdLock, halted, listVars,
                 respVars, busy, cq, page>>

\* The ring is full: the command is not added, and the call aborts it.
WriteFails(t) ==
  /\ pc[t] = "write" /\ Cardinality(sq) >= SqSlots
  /\ ret' = [ret EXCEPT ![t] = "ERESTARTSYS"]
  /\ cmdLock' = NoThread
  /\ pc' = [pc EXCEPT ![t] = "abort"]
  /\ UNCHANGED <<calls, allocated, cid, response, waitVars, cidVars, sema,
                 halted, listVars, respVars, queueVars, page>>

\* The end of amc_proxy_request_*: only now is the command in the list.
Add(t) ==
  /\ pc[t] = "add" /\ InstLockFree
  /\ ListAdd(t)
  /\ cmdLock' = NoThread
  /\ pc' = [pc EXCEPT ![t] = "wait"]
  /\ UNCHANGED <<callVars, waitVars, cidVars, sema, halted, respVars,
                 queueVars, page>>

\* wait_for_completion_killable returns 0.
Wake(t) ==
  /\ pc[t] = "wait" /\ completed[t]
  /\ pc' = [pc EXCEPT ![t] = "timed"]
  /\ UNCHANGED <<callVars, waitVars, cidVars, sema, cmdLock, halted, listVars,
                 respVars, queueVars, page>>

\* A fatal signal ends the wait.
Killed(t) ==
  /\ pc[t] = "wait" /\ ~completed[t] /\ t \in Signalled
  /\ ret' = [ret EXCEPT ![t] = "ERESTARTSYS"]
  /\ pc' = [pc EXCEPT ![t] = "abort"]
  /\ UNCHANGED <<calls, allocated, cid, response, waitVars, cidVars, sema,
                 cmdLock, halted, listVars, respVars, queueVars, page>>

\* timed_out, then cmd_rcode; the response thread may run between the two.
CheckTimedOut(t) ==
  /\ pc[t] = "timed"
  /\ \/ /\ timedOut[t]
        /\ ret' = [ret EXCEPT ![t] = "ETIMEDOUT"]
        /\ pc' = [pc EXCEPT ![t] = "abort"]
     \/ /\ ~timedOut[t]
        /\ pc' = [pc EXCEPT ![t] = "rcode"]
        /\ UNCHANGED ret
  /\ UNCHANGED <<calls, allocated, cid, response, waitVars, cidVars, sema,
                 cmdLock, halted, listVars, respVars, queueVars, page>>

CheckRcode(t) ==
  /\ pc[t] = "rcode"
  /\ \/ /\ rcode[t] # 0
        /\ ret' = [ret EXCEPT ![t] = "EINVAL"]
        /\ pc' = [pc EXCEPT ![t] = "abort"]
     \/ /\ rcode[t] = 0
        /\ pc' = [pc EXCEPT ![t] = "response"]
        /\ UNCHANGED ret
  /\ UNCHANGED <<calls, allocated, cid, response, waitVars, cidVars, sema,
                 cmdLock, halted, listVars, respVars, queueVars, page>>

\* amc_proxy_request_abort.
Abort(t) ==
  /\ pc[t] = "abort" /\ InstLockFree
  /\ ListDel(t)
  /\ pc' = [pc EXCEPT ![t] = "done"]
  /\ UNCHANGED <<callVars, waitVars, cidVars, sema, cmdLock, halted, respVars,
                 queueVars, page>>

\* amc_proxy_get_response_*: the result that the AMC gave, as an errno; after a
\* success, the copy from the shared page.
GetResponse(t) ==
  /\ pc[t] = "response"
  /\ \E r \in {"SUCCESS", "REFUSED"} : ret' = [ret EXCEPT ![t] = r]
  /\ pc' = [pc EXCEPT ![t] = "done"]
  /\ UNCHANGED <<calls, allocated, cid, response, waitVars, cidVars, sema,
                 cmdLock, halted, listVars, respVars, queueVars, page>>

\* The done label: the id goes back, then the semaphores, then the command itself (kzalloc clears the next one).
Done(t) ==
  /\ pc[t] = "done"
  /\ cidsUsed' = cidsUsed \ GivenBack(t)
  /\ sema' = [p \in Pages |-> IF sema[p] = t THEN NoThread ELSE sema[p]]
  /\ allocated' = [allocated EXCEPT ![t] = FALSE]
  /\ ret' = [ret EXCEPT ![t] = "none"]
  /\ cid' = [cid EXCEPT ![t] = 0]
  /\ completed' = [completed EXCEPT ![t] = FALSE]
  /\ timedOut' = [timedOut EXCEPT ![t] = FALSE]
  /\ rcode' = [rcode EXCEPT ![t] = 0]
  /\ response' = [response EXCEPT ![t] = NoCall]
  /\ expired' = [expired EXCEPT ![t] = FALSE]
  /\ pc' = [pc EXCEPT ![t] = "idle"]
  /\ UNCHANGED <<calls, nextCid, cmdLock, halted, listVars, respVars,
                 queueVars, page>>

\* stop_gcq_services.
Stop ==
  /\ MayStop /\ ~halted
  /\ halted' = TRUE
  /\ UNCHANGED <<pc, callVars, waitVars, cidVars, sema, cmdLock, listVars,
                 respVars, queueVars, page>>

\* jiffies passes cmd_timeout_jiffies.
Expire(t) ==
  /\ t \in Expirable /\ ~expired[t]
  /\ pc[t] \in {"lock", "write", "add", "wait"}
  /\ expired' = [expired EXCEPT ![t] = TRUE]
  /\ UNCHANGED <<pc, callVars, completed, timedOut, rcode, cidVars, sema,
                 cmdLock, halted, listVars, respVars, queueVars, page>>

-----------------------------------------------------------------------------
(* complete_response_thread.                                               *)

\* Mutant: timeouts are looked for only after a response.
ReadWithoutCheck ==
  /\ rPc = "read"
  /\ \E r \in cq : rResp' = r /\ cq' = cq \ {r} /\ rPc' = "complete"
  /\ UNCHANGED <<pc, callVars, waitVars, cidVars, sema, cmdLock, halted,
                 listVars, rCmd, rScan, sq, busy, page>>

ReadResponse ==
  /\ rPc = "read"
  /\ \/ \E r \in cq : rResp' = r /\ cq' = cq \ {r} /\ rPc' = "complete"
     \/ cq = {} /\ rPc' = "check" /\ UNCHANGED <<rResp, cq>>
  /\ UNCHANGED <<pc, callVars, waitVars, cidVars, sema, cmdLock, halted,
                 listVars, rCmd, rScan, sq, busy, page>>

\* Mutant: the id of the response is not looked at.
MatchingAny == submitted

Matching == {t \in submitted : cid[t] = rResp[1]}

\* amc_proxy_cmd_complete: the first command with the id of the response.
CmdComplete(t) ==
  /\ rPc = "complete" /\ IsFirst(t, Matching)
  /\ response' = [response EXCEPT ![t] = rResp[2]]
  /\ ListDel(t)
  /\ completed' = [completed EXCEPT ![t] = TRUE]
  /\ rPc' = "check" /\ rResp' = NoCall
  /\ UNCHANGED <<pc, calls, ret, allocated, cid, timedOut, rcode, expired,
                 cidVars, sema, cmdLock, halted, rCmd, rScan,
                 queueVars, page>>

\* "No matching cid %d found, unexpected response".
Unexpected ==
  /\ rPc = "complete" /\ Matching = {}
  /\ rPc' = "check" /\ rResp' = NoCall
  /\ UNCHANGED <<pc, callVars, waitVars, cidVars, sema, cmdLock, halted,
                 listVars, rCmd, rScan, queueVars, page>>

\* amc_proxy_submitted_cmd_check_timeout takes the lock of the instance.
StartCheck ==
  /\ rPc = "check"
  /\ rScan' = submitted /\ rPc' = "scan"
  /\ UNCHANGED <<pc, callVars, waitVars, cidVars, sema, cmdLock, halted,
                 listVars, rCmd, rResp, queueVars, page>>

\* One command of the list: complete() comes before timed_out is set.
ScanOne(t) ==
  /\ rPc = "scan" /\ IsFirst(t, rScan)
  /\ rScan' = rScan \ {t}
  /\ \/ /\ expired[t]
        /\ rcode' = [rcode EXCEPT ![t] = ETIME]
        /\ completed' = [completed EXCEPT ![t] = TRUE]
        /\ rCmd' = t /\ rPc' = "flag"
     \/ /\ ~expired[t]
        /\ UNCHANGED <<rcode, completed, rCmd, rPc>>
  /\ UNCHANGED <<pc, callVars, timedOut, expired, cidVars, sema, cmdLock,
                 halted, listVars, rResp, queueVars, page>>

FlagTimeout ==
  /\ rPc = "flag"
  /\ timedOut' = [timedOut EXCEPT ![rCmd] = TRUE]
  /\ rPc' = "scan" /\ rCmd' = NoThread
  /\ UNCHANGED <<pc, callVars, completed, rcode, expired, cidVars, sema,
                 cmdLock, halted, listVars, rScan, rResp, queueVars, page>>

EndCheck ==
  /\ rPc = "scan" /\ rScan = {}
  /\ rPc' = "read"
  /\ UNCHANGED <<pc, callVars, waitVars, cidVars, sema, cmdLock, halted,
                 listVars, rCmd, rScan, rResp, queueVars, page>>

-----------------------------------------------------------------------------
(* Environment: the AMC takes requests and answers them in any order, some *)
(* late and some never.                                                    *)

AmcTake(r) ==
  /\ sq' = sq \ {r} /\ busy' = busy \cup {r}
  /\ UNCHANGED <<pc, callVars, waitVars, cidVars, sema, cmdLock, halted,
                 listVars, respVars, cq, page>>

\* The answer to a request that uses a page leaves its data there.
AmcAnswer(r) ==
  /\ busy' = busy \ {r} /\ cq' = cq \cup {r}
  /\ page' = [p \in Pages |-> IF Kind[r[2][1]] = p THEN r[2] ELSE page[p]]
  /\ UNCHANGED <<pc, callVars, waitVars, cidVars, sema, cmdLock, halted,
                 listVars, respVars, sq>>

Step(t) ==
  \/ Acquire(t) \/ GetCid(t) \/ Lock(t) \/ Write(t) \/ WriteFails(t) \/ Add(t)
  \/ Wake(t) \/ CheckTimedOut(t) \/ CheckRcode(t) \/ Abort(t)
  \/ GetResponse(t) \/ Done(t)

ResponseThread ==
  \/ ReadResponse \/ (\E t \in Threads : CmdComplete(t)) \/ Unexpected
  \/ StartCheck \/ (\E t \in Threads : ScanOne(t)) \/ FlagTimeout \/ EndCheck

Amc == (\E r \in sq : AmcTake(r)) \/ (\E r \in busy : AmcAnswer(r))

Next ==
  \/ \E t \in Threads : Refuse(t) \/ Call(t) \/ GiveUp(t) \/ Killed(t)
                          \/ Expire(t) \/ Step(t)
  \/ Stop \/ ResponseThread \/ Amc

Spec == Init /\ [][Next]_vars

\* Runnable threads are scheduled, the response thread polls for ever, and
\* time passes.  A mutex of the kernel is handed to a waiter that starves, so
\* the instance lock, which the response thread takes again and again, is
\* acquired under strong fairness.  Nothing is assumed of the AMC.
FairSpec ==
  /\ Spec
  /\ WF_vars(ResponseThread)
  /\ \A t \in Threads :
       /\ WF_vars(Step(t)) /\ WF_vars(Expire(t))
       /\ SF_vars(Add(t) \/ Abort(t))
=============================================================================
