------------------------------ MODULE AmiDevice ------------------------------
(***************************************************************************)
(* The life of one device in the AMI driver: probe (create_pf_dev_data,    *)
(* setup_amc), service, and removal (pcie_device_remove,                   *)
(* delete_pf_dev_data, unset_amc, amc_proxy_close), with the three kernel  *)
(* threads of the device, the heartbeat that declares its AMC dead, and    *)
(* the user processes that come in through the character device, sysfs and *)
(* hwmon and hold references while they are inside.                        *)
(*                                                                         *)
(* Probe and removal run under the lock of the device, one after the       *)
(* other: core is their program counter.  A command is here only its       *)
(* progress; AmiCommand has the rest.                                      *)
(***************************************************************************)
EXTENDS Integers, FiniteSets

CONSTANTS
  Users,       \* user processes
  Hb, Probe,   \* the heartbeat thread and the probe, which submit commands too
  MissLimit,   \* HEARTBEAT_FAIL_THRESHOLD
  MaxVisits    \* bound: the times that each user enters the driver

ASSUME DeviceAssumption ==
  /\ IsFiniteSet(Users) /\ Hb \notin Users /\ Probe \notin Users /\ Hb # Probe
  /\ MissLimit \in Nat \ {0} /\ MaxVisits \in Nat

Submitters == Users \cup {Hb, Probe}
Threads    == {"hb", "log", "rsp"}
Doors      == {"cdev", "sysfs", "hwmon"}

VARIABLES
  core, caller,  \* probe or removal, and who has called unset_amc
  data,          \* the memory of pf_dev: "none", "live", "freed"
  enabled, refs, removeSema, state,   \* of pf_dev
  doors,         \* through which users can enter: registered interfaces
  apps, killed,  \* registered applications, and those that got SIGBUS
  ctxt,          \* the memory of amc_ctrl_ctxt: "none", "live"
  halted,        \* gcq_halted
  created,       \* heartbeat_thread_created, logging_thread_created
  entry,         \* the proxy instance: "none", "listed", "leaked", "freed"
  thread,        \* the kernel threads; a reaped one must not be touched
  hbPc, missed, fatal,   \* the heartbeat thread, fail_count, fatal_event_raised
  cmd,           \* per submitter, how far its command is
  user, via, visits,     \* per user, where it is and by which door it came
  sema,          \* holders of ioctl_sema
  amc,           \* the firmware: "up", "dead"
  badRun,        \* history: heartbeats missed in a row, as far as MissLimit
  interrupted    \* history: the removal went on while references were held

pfVars   == <<data, enabled, refs, removeSema, doors, interrupted>>
appVars  == <<apps, killed>>
amcVars  == <<ctxt, halted, created, entry, thread>>
hbVars   == <<hbPc, missed, fatal, badRun>>
userVars == <<user, via, visits, sema>>
vars == <<core, caller, pfVars, state, appVars, amcVars, hbVars, cmd,
          userVars, amc>>

Init ==
  /\ core = "create" /\ caller = "none"
  /\ data = "none" /\ enabled = FALSE /\ refs = 0 /\ removeSema = 0
  /\ state = "INIT" /\ doors = {} /\ apps = {} /\ killed = {}
  /\ ctxt = "none" /\ halted = TRUE /\ created = {} /\ entry = "none"
  /\ thread = [t \in Threads |-> "none"]
  /\ hbPc = "sleep" /\ missed = 0 /\ fatal = FALSE
  /\ cmd = [s \in Submitters |-> "none"]
  /\ user = [u \in Users |-> "out"] /\ via = [u \in Users |-> "cdev"]
  /\ visits = [u \in Users |-> 0] /\ sema = {}
  /\ amc = "up" /\ badRun = 0 /\ interrupted = FALSE

-----------------------------------------------------------------------------
(* Commands: submit_gcq_command and the response thread.                   *)

\* The look at gcq_halted, which takes no lock.
Checked == IF halted THEN "failed" ELSE "checked"
Submit(s) == cmd' = [cmd EXCEPT ![s] = Checked]

Moves(s, from, to) ==
  /\ cmd[s] = from
  /\ cmd' = [cmd EXCEPT ![s] = to]
  /\ UNCHANGED <<core, caller, pfVars, state, appVars, amcVars, hbVars,
                 userVars, amc>>

\* Write to the ring and list_add_tail; the ring may be full, and without an
\* instance there is nothing to write to.
Send(s) ==
  \/ entry = "listed" /\ Moves(s, "checked", "sent")
  \/ Moves(s, "checked", "failed")

Answer(s) == thread["rsp"] = "running" /\ amc = "up" /\ Moves(s, "sent", "answered")

\* amc_proxy_submitted_cmd_check_timeout wakes the caller, whose abort takes
\* the command off the list.
Expire(s) == thread["rsp"] = "running" /\ Moves(s, "sent", "expired")
Abort(s)  == Moves(s, "expired", "failed")

OnList == {s \in Submitters : cmd[s] \in {"sent", "expired"}}
Over(s) == cmd[s] \in {"answered", "failed"}
Forget(s) == cmd' = [cmd EXCEPT ![s] = "none"]

-----------------------------------------------------------------------------
(* heartbeat_health_thread                                                 *)

hbFrame == <<core, caller, pfVars, appVars, userVars, amc>>

\* The thread wakes from its sleep: msleep, kthread_should_stop, and around.
Awake == thread["hb"] = "running" /\ hbPc = "sleep" /\ core # "stopHb"

Beat ==
  /\ Awake /\ ~fatal /\ missed < MissLimit
  /\ Submit(Hb) /\ hbPc' = "wait"
  /\ UNCHANGED <<hbFrame, state, amcVars, missed, fatal, badRun>>

\* Mutant: a heartbeat that is answered leaves the count alone.
CountKept(good) == IF good THEN missed ELSE missed + 1

\* fail_count after a heartbeat that came back as it should, or did not.
FailCount(good) == IF good THEN 0 ELSE missed + 1

\* The answer repeats the id of the request, or (good is FALSE) does not.
BeatEnds(good) ==
  /\ hbPc = "wait" /\ Over(Hb)
  /\ good => cmd[Hb] = "answered"
  /\ missed' = FailCount(good)
  /\ badRun' = IF good THEN 0 ELSE IF badRun < MissLimit THEN badRun + 1 ELSE badRun
  /\ Forget(Hb) /\ hbPc' = "sleep"
  /\ UNCHANGED <<hbFrame, state, amcVars, fatal>>

\* Mutant: the event changes the state of the device and stops nothing.
HaltedUnchanged == halted

\* stop_gcq_services
HaltedByEvent == TRUE

\* The fatal event and its callback, amc_event_cb.
RaiseFatal ==
  /\ Awake /\ ~fatal /\ missed >= MissLimit
  /\ fatal' = TRUE /\ halted' = HaltedByEvent /\ state' = "NO_AMC"
  /\ UNCHANGED <<hbFrame, ctxt, created, entry, thread, hbPc, missed, badRun,
                 cmd>>

Heartbeat == Beat \/ (\E good \in BOOLEAN : BeatEnds(good)) \/ RaiseFatal

\* The threads leave their loops when kthread_stop asks for it; the heartbeat
\* thread looks after its sleep.
ThreadExits(t) ==
  /\ thread[t] = "running"
  /\ \/ t = "hb" /\ core = "stopHb" /\ hbPc = "sleep"
     \/ t = "log" /\ core \in {"stopLog", "compatStop"}
     \/ t = "rsp" /\ core = "stopRsp"
  /\ thread' = [thread EXCEPT ![t] = "exited"]
  /\ UNCHANGED <<hbFrame, state, ctxt, halted, created, entry, hbVars, cmd>>

-----------------------------------------------------------------------------
(* unset_amc and release_amc_mem, one step per thing that is waited for.   *)

coreFrame == <<hbVars, userVars, amc, killed, data, enabled, refs, removeSema,
               interrupted>>

\* Mutant: the heartbeat is stopped after the proxy is closed, if at all.
UnsetFromLog(c) == core' = "stopLog" /\ caller' = c

Unset(c) == core' = "stopHb" /\ caller' = c

\* kthread_stop of a thread that was created: waits for its end.
Stop(t, now, next) ==
  /\ core = now /\ core' = next
  /\ IF t \in created
     THEN thread[t] = "exited" /\ thread' = [thread EXCEPT ![t] = "reaped"]
     ELSE UNCHANGED thread
  /\ UNCHANGED <<coreFrame, caller, state, doors, apps, ctxt, halted, created,
                 entry, cmd>>

StopHb  == Stop("hb", "stopHb", "stopLog")
StopLog == Stop("log", "stopLog", "halt")

Halt ==
  /\ core = "halt" /\ core' = "drain" /\ halted' = TRUE
  /\ UNCHANGED <<coreFrame, caller, state, doors, apps, ctxt, created, entry,
                 thread, cmd>>

\* amc_proxy_close finds the instance, if it is listed, and lets the commands
\* that are still on its list time out.
Drain ==
  /\ core = "drain"
  /\ \/ entry # "listed" /\ core' = "release" /\ UNCHANGED cmd
     \/ entry = "listed" /\ OnList = {} /\ core' = "stopRsp" /\ UNCHANGED cmd
     \/ /\ entry = "listed" /\ OnList # {}
        /\ \E drained \in SUBSET OnList :
             /\ drained # {}
             /\ cmd' = [s \in Submitters |-> IF s \in drained THEN "failed" ELSE cmd[s]]
        /\ UNCHANGED core
  /\ UNCHANGED <<coreFrame, caller, state, doors, apps, amcVars>>

\* The end of amc_proxy_close: kthread_stop, list_del, kfree.  Its last statement,
\* which clears initialised in the entry just freed, is not shown: nobody else
\* knows the entry by then, but the write is one after a kfree.
CloseEntry ==
  /\ core = "stopRsp" /\ thread["rsp"] = "exited"
  /\ thread' = [thread EXCEPT !["rsp"] = "reaped"]
  /\ entry' = "freed" /\ core' = "release"
  /\ UNCHANGED <<coreFrame, caller, state, doors, apps, ctxt, halted, created,
                 cmd>>

\* unset_amc unmaps, release_amc_mem frees; then the caller goes on.
Release ==
  /\ core = "release" /\ ctxt' = "none"
  /\ \/ caller = "setup"  /\ state' = "NO_AMC"    /\ core' = "sysfs"
     \/ caller = "unwind" /\ UNCHANGED state      /\ core' = "free"
     \/ caller = "remove" /\ state' = "SHUTDOWN"  /\ core' = "delCdev"
  /\ UNCHANGED <<coreFrame, caller, doors, apps, halted, created, entry,
                 thread, cmd>>

UnsetAmc == StopHb \/ StopLog \/ Halt \/ Drain \/ CloseEntry \/ Release

-----------------------------------------------------------------------------
(* create_pf_dev_data and setup_amc.  A failed set-up is not the end: the  *)
(* device goes on without its AMC.                                         *)

probeFrame == <<userVars, amc, apps, killed, removeSema, interrupted, missed,
                fatal, badRun, hbPc>>
unchangedPf == <<data, enabled, refs>>

Create ==
  /\ core = "create" /\ core' = "map"
  /\ data' = "live" /\ refs' = 1
  /\ UNCHANGED <<probeFrame, caller, enabled, doors, state, amcVars, cmd>>

\* kzalloc of the context, map_amc_endpoints, start_gcq_services.
MapEndpoints ==
  /\ core = "map" /\ ctxt' = "live"
  /\ \/ halted' = FALSE /\ core' = "proxy" /\ UNCHANGED caller
     \/ UNCHANGED halted /\ Unset("setup")
  /\ UNCHANGED <<probeFrame, unchangedPf, doors, state, created, entry, thread,
                 cmd>>

\* Mutant: the response thread is created and not woken.
NotWoken == thread

RspWoken == [thread EXCEPT !["rsp"] = "running"]

\* amc_proxy_init.  Without its thread the instance stays off the list, and
\* amc_proxy_close will not find it.
ProxyInit ==
  /\ core = "proxy"
  /\ \/ entry' = "listed" /\ thread' = RspWoken /\ core' = "log" /\ UNCHANGED caller
     \/ entry' \in {"none", "leaked"} /\ Unset("setup") /\ UNCHANGED thread
  /\ UNCHANGED <<probeFrame, unchangedPf, doors, state, ctxt, halted, created,
                 cmd>>

\* The logging thread, then get_gcq_version.
CreateLog ==
  /\ core = "log"
  /\ \/ /\ created' = created \cup {"log"}
        /\ thread' = [thread EXCEPT !["log"] = "running"]
        /\ Submit(Probe) /\ core' = "version" /\ UNCHANGED caller
     \/ Unset("setup") /\ UNCHANGED <<created, thread, cmd>>
  /\ UNCHANGED <<probeFrame, unchangedPf, doors, state, ctxt, halted, entry>>

\* The versions are refused, or call for the compatibility mode, or suit; in
\* the last case the heartbeat thread starts.
Version ==
  /\ core = "version" /\ Over(Probe) /\ Forget(Probe)
  /\ \/ Unset("setup") /\ UNCHANGED <<created, thread>>
     \/ /\ cmd[Probe] = "answered" /\ core' = "compatStop"
        /\ UNCHANGED <<caller, created, thread>>
     \/ /\ cmd[Probe] = "answered" /\ core' = "discover" /\ UNCHANGED caller
        /\ created' = created \cup {"hb"}
        /\ thread' = [thread EXCEPT !["hb"] = "running"]
  /\ UNCHANGED <<probeFrame, unchangedPf, doors, state, ctxt, halted, entry>>

\* Mutant: the thread stopped here is stopped again by unset_amc.
CreatedKept == created

CreatedWithoutLog == created \ {"log"}

\* Compatibility mode has no logging and no heartbeat.
CompatStop ==
  /\ core = "compatStop" /\ thread["log"] = "exited"
  /\ thread' = [thread EXCEPT !["log"] = "reaped"]
  /\ created' = CreatedWithoutLog
  /\ state' = "COMPAT" /\ core' = "sysfs"
  /\ UNCHANGED <<probeFrame, unchangedPf, caller, doors, ctxt, halted, entry,
                 cmd>>

\* Only function 0 has sensors.
Discover ==
  /\ core = "discover"
  /\ \/ Submit(Probe) /\ core' = "discovering"
     \/ core' = "sysfs" /\ UNCHANGED cmd
  /\ UNCHANGED <<probeFrame, unchangedPf, caller, doors, state, amcVars>>

\* Mutant: set-up failures after setup_amc leave the AMC side as it is.
UnwindDataOnly == core' = "free" /\ caller' = "unwind"

\* The label remove_pf_dev.
Unwind ==
  IF ctxt = "live" THEN Unset("unwind") ELSE core' = "free" /\ caller' = "unwind"

\* discover_sensors has ended; register_hwmon.
Discovered ==
  /\ core = "discovering" /\ Over(Probe) /\ Forget(Probe)
  /\ \/ /\ cmd[Probe] = "answered"
        /\ \/ doors' = doors \cup {"hwmon"} /\ core' = "sysfs" /\ UNCHANGED caller
           \/ Unwind /\ UNCHANGED doors
        /\ UNCHANGED state
     \/ state' = "INIT_ERROR" /\ core' = "sysfs" /\ UNCHANGED <<caller, doors>>
  /\ UNCHANGED <<probeFrame, unchangedPf, amcVars>>

RegisterSysfs ==
  /\ core = "sysfs"
  /\ \/ doors' = doors \cup {"sysfs"} /\ core' = "cdev" /\ UNCHANGED caller
     \/ Unwind /\ UNCHANGED doors
  /\ UNCHANGED <<probeFrame, unchangedPf, state, amcVars, cmd>>

CreateCdev ==
  /\ core = "cdev"
  /\ \/ doors' = doors \cup {"cdev"} /\ core' = "check" /\ UNCHANGED caller
     \/ core' = "delSysfs" /\ caller' = "unwind" /\ UNCHANGED doors
  /\ UNCHANGED <<probeFrame, unchangedPf, state, amcVars, cmd>>

\* The look at the state and the write of the new one: the heartbeat thread
\* may come in between.
CheckState ==
  /\ core = "check" /\ core' = IF state = "INIT" THEN "setReady" ELSE "enable"
  /\ UNCHANGED <<probeFrame, unchangedPf, caller, doors, state, amcVars, cmd>>

SetReady ==
  /\ core = "setReady" /\ core' = "enable" /\ state' = "READY"
  /\ UNCHANGED <<probeFrame, unchangedPf, caller, doors, amcVars, cmd>>

Enable ==
  /\ core = "enable" /\ core' = "live" /\ enabled' = TRUE
  /\ UNCHANGED <<probeFrame, data, refs, caller, doors, state, amcVars, cmd>>

ProbeDevice ==
  \/ Create \/ MapEndpoints \/ ProxyInit \/ CreateLog \/ Version \/ CompatStop
  \/ Discover \/ Discovered \/ RegisterSysfs \/ CreateCdev
  \/ CheckState \/ SetReady \/ Enable

-----------------------------------------------------------------------------
(* pcie_device_remove and delete_pf_dev_data.                              *)

removeFrame == <<hbVars, userVars, amc, amcVars, cmd>>

\* Where a reference is given up; the last one lets the removal go on.
Put ==
  /\ refs' = refs - 1
  /\ removeSema' = IF refs = 1 THEN removeSema + 1 ELSE removeSema

Disable ==
  /\ core = "live" /\ core' = "kill"
  /\ enabled' = FALSE /\ Put
  /\ UNCHANGED <<removeFrame, caller, data, doors, state, appVars, interrupted>>

\* kill_pf_dev_apps: SIGBUS for every application, which leaves the list; those
\* for which kill_pid fails stay.
KillApps(left) == killed' = killed \cup (apps \ left) /\ apps' = left

\* A process that is gone cannot be killed.
Kill ==
  /\ core = "kill" /\ core' = "wait"
  /\ \E left \in SUBSET {u \in apps : user[u] = "out"} : KillApps(left)
  /\ UNCHANGED <<removeFrame, caller, pfVars, state>>

\* Mutant: the removal does not wait for the references.
DownIgnored == UNCHANGED removeSema

Down == removeSema > 0 /\ removeSema' = removeSema - 1

waitFrame == <<removeFrame, caller, data, enabled, refs, doors, state, appVars>>

\* down_interruptible ends when the last reference is given up ...
Wait ==
  /\ core = "wait" /\ core' = "delete" /\ Down
  /\ UNCHANGED <<waitFrame, interrupted>>

\* ... or by a signal, which is reported and otherwise ignored.
WaitCutShort ==
  /\ core = "wait" /\ refs > 0 /\ core' = "delete" /\ interrupted' = TRUE
  /\ UNCHANGED <<waitFrame, removeSema>>

\* The applications that are left, then shutdown_pf_dev_services.
Delete ==
  /\ core = "delete" /\ apps' = {}
  /\ IF ctxt = "live"
     THEN Unset("remove") /\ UNCHANGED state
     ELSE core' = "delCdev" /\ caller' = "remove" /\ state' = "SHUTDOWN"
  /\ UNCHANGED <<removeFrame, pfVars, killed>>

DelCdev ==
  /\ core = "delCdev" /\ core' = "delSysfs" /\ doors' = doors \ {"cdev"}
  /\ UNCHANGED <<removeFrame, caller, data, enabled, refs, removeSema, state,
                 appVars, interrupted>>

Inside(door) == {u \in Users : via[u] = door /\ user[u] \notin {"out", "wild"}}

\* Mutant: attributes are removed while they are being read.
NobodyChecked(door) == TRUE

\* The kernel removes an attribute when nobody is reading it.
Quiet(door) == Inside(door) = {}

\* remove_sysfs; where set-up failed, the rest of its unwinding.
DelSysfs ==
  /\ core = "delSysfs" /\ Quiet("sysfs") /\ doors' = doors \ {"sysfs"}
  /\ IF caller = "unwind" THEN Unwind ELSE core' = "free" /\ UNCHANGED caller
  /\ UNCHANGED <<removeFrame, data, enabled, refs, removeSema, state, appVars,
                 interrupted>>

\* kfree of pf_dev and pci_set_drvdata(NULL).
Free ==
  /\ core = "free" /\ core' = "devres" /\ data' = "freed"
  /\ UNCHANGED <<removeFrame, caller, enabled, refs, removeSema, doors, state,
                 appVars, interrupted>>

\* Back in the kernel, which releases what is managed: the hwmon device.
Devres ==
  /\ core = "devres" /\ Quiet("hwmon") /\ doors' = doors \ {"hwmon"}
  /\ core' = IF caller = "remove" THEN "gone" ELSE "failed"
  /\ UNCHANGED <<removeFrame, caller, data, enabled, refs, removeSema, state,
                 appVars, interrupted>>

RemoveDevice == Kill \/ Wait \/ Delete \/ DelCdev \/ DelSysfs \/ Free \/ Devres

-----------------------------------------------------------------------------
(* Users: dev_open, dev_unlocked_ioctl, dev_close, and the show and read   *)
(* callbacks of sysfs and hwmon.                                           *)

outerFrame == <<core, caller, state, amc, hbVars, amcVars, data, enabled, doors,
                interrupted>>

\* The kernel calls the driver: it has found the inode, or the device.
Enter(u, door) ==
  /\ user[u] = "out" /\ u \notin killed /\ visits[u] < MaxVisits
  /\ door \in doors
  /\ user' = [user EXCEPT ![u] = "lookup"] /\ via' = [via EXCEPT ![u] = door]
  /\ visits' = [visits EXCEPT ![u] = @ + 1]
  /\ UNCHANGED <<outerFrame, refs, removeSema, appVars, sema, cmd>>

\* Outside, the door no longer matters.
GoOut(u) ==
  user' = [user EXCEPT ![u] = "out"] /\ via' = [via EXCEPT ![u] = "cdev"]

\* Mutant: a device that is being removed still gives out references.
AnyLive == refs > 0

Available == enabled /\ refs > 0

\* get_pf_dev_entry.  What it reads of a freed device can be anything.
Lookup(u) ==
  /\ user[u] = "lookup"
  /\ \/ /\ data = "live" /\ Available
        /\ user' = [user EXCEPT ![u] = "held"] /\ refs' = refs + 1 /\ UNCHANGED via
     \/ data = "live" /\ ~Available /\ GoOut(u) /\ UNCHANGED refs
     \/ /\ data = "freed"
        /\ user' = [user EXCEPT ![u] = "wild"] /\ UNCHANGED <<refs, via>>
  /\ UNCHANGED <<outerFrame, removeSema, appVars, visits, sema, cmd>>

Holds(u, door) == user[u] = "held" /\ via[u] = door /\ data = "live"

\* The state is looked at before the semaphore is taken.
Ioctl(u) ==
  /\ Holds(u, "cdev") /\ u \notin killed /\ state \in {"READY", "COMPAT"}
  /\ user' = [user EXCEPT ![u] = "sema"]
  /\ UNCHANGED <<outerFrame, refs, removeSema, appVars, via, visits, sema, cmd>>

\* Mutant: commands are not kept apart by the semaphore.
SemaIgnored == TRUE

SemaFree == sema = {}

TakeSema(u) ==
  /\ user[u] = "sema" /\ data = "live" /\ SemaFree
  /\ sema' = sema \cup {u} /\ Submit(u)
  /\ user' = [user EXCEPT ![u] = "wait"]
  /\ UNCHANGED <<outerFrame, refs, removeSema, appVars, via, visits>>

\* down_interruptible gives up.
LeaveSema(u) ==
  /\ user[u] = "sema" /\ u \in killed
  /\ user' = [user EXCEPT ![u] = "held"]
  /\ UNCHANGED <<outerFrame, refs, removeSema, appVars, via, visits, sema, cmd>>

\* Sensors are read without the semaphore.
ReadSensor(u) ==
  /\ Holds(u, "hwmon") /\ Submit(u)
  /\ user' = [user EXCEPT ![u] = "wait"]
  /\ UNCHANGED <<outerFrame, refs, removeSema, appVars, via, visits, sema>>

\* A file stays open, a callback returns.  A sensor reading above its critical
\* limit kills the applications, as far as the reader may send them a signal.
Finish(u) ==
  /\ user[u] = "wait" /\ Over(u) /\ Forget(u) /\ data = "live"
  /\ user' = [user EXCEPT ![u] = IF via[u] = "cdev" THEN "held" ELSE "read"]
  /\ sema' = sema \ {u}
  /\ \/ UNCHANGED appVars
     \/ /\ via[u] = "hwmon" /\ cmd[u] = "answered"
        /\ \E left \in SUBSET apps : KillApps(left)
  /\ UNCHANGED <<outerFrame, refs, removeSema, via, visits>>

\* AMI_IOC_APP_SETUP, under the semaphore and app_lock.
Setup(u) ==
  /\ Holds(u, "cdev") /\ u \notin killed /\ state \notin {"INIT", "SHUTDOWN"}
  /\ SemaFree /\ apps' \in {apps \cup {u}, apps \ {u}} /\ apps' # apps
  /\ UNCHANGED <<outerFrame, refs, removeSema, killed, userVars, cmd>>

\* dev_close, or the end of a callback: put_pf_dev_entry.
Leave(u) ==
  /\ user[u] \in {"held", "read"} /\ data = "live" /\ GoOut(u) /\ Put
  /\ UNCHANGED <<outerFrame, appVars, visits, sema, cmd>>

\* The firmware may stop for good at any time.
AmcDies ==
  /\ amc = "up" /\ amc' = "dead"
  /\ UNCHANGED <<core, caller, pfVars, state, appVars, amcVars, hbVars, cmd, userVars>>

UserStep(u) ==
  \/ \E door \in Doors : Enter(u, door)
  \/ Lookup(u) \/ Ioctl(u) \/ TakeSema(u) \/ LeaveSema(u) \/ ReadSensor(u)
  \/ Finish(u) \/ Setup(u) \/ Leave(u)

Next ==
  \/ ProbeDevice \/ UnsetAmc \/ Disable \/ WaitCutShort \/ RemoveDevice
  \/ Heartbeat \/ AmcDies
  \/ \E t \in Threads : ThreadExits(t)
  \/ \E s \in Submitters : Send(s) \/ Answer(s) \/ Expire(s) \/ Abort(s)
  \/ \E u \in Users : UserStep(u)

Spec == Init /\ [][Next]_vars

\* Threads are scheduled, time passes, callbacks end, and a process that was
\* killed leaves.  Nobody has to close a file, to remove
\* the device, or to interrupt its removal.
Fairness ==
  /\ WF_vars(ProbeDevice \/ UnsetAmc \/ RemoveDevice)
  /\ WF_vars(Heartbeat)
  /\ WF_vars(\E t \in Threads : ThreadExits(t))
  /\ \A s \in Submitters : WF_vars(Send(s) \/ Expire(s) \/ Abort(s))
  /\ \A u \in Users :
       WF_vars(Lookup(u) \/ Finish(u) \/ LeaveSema(u)
               \/ (Leave(u) /\ (via[u] # "cdev" \/ u \in killed)))

FairSpec == Spec /\ Fairness
=============================================================================
