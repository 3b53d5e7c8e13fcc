--------------------------- MODULE AmiDeviceProps ---------------------------
(***************************************************************************)
(* What probe, service and removal of a device must guarantee.  A removal  *)
(* whose wait is cut short by a signal frees the device under its users    *)
(* (interrupted), and the kernel may look a device up that has just been   *)
(* freed (users that are "wild"): both are left out, and described in the  *)
(* README.                                                                 *)
(***************************************************************************)
EXTENDS AmiDevice

CoreStates ==
  {"create", "map", "proxy", "log", "version", "compatStop", "discover",
   "discovering", "sysfs", "cdev", "check", "setReady", "enable", "live",
   "kill", "wait", "delete", "stopHb", "stopLog", "halt", "drain", "stopRsp",
   "release", "delCdev", "delSysfs", "free", "devres", "gone", "failed"}
DeviceStates  == {"INIT", "READY", "COMPAT", "INIT_ERROR", "NO_AMC", "SHUTDOWN"}
ThreadStates  == {"none", "running", "exited", "reaped"}
CommandStates == {"none", "checked", "sent", "expired", "answered", "failed"}
UserStates    == {"out", "lookup", "held", "sema", "wait", "read", "wild"}

\* Types; a reference count never goes below zero and fail_count never beyond
\* its threshold (ami_amc_control.c:970).
TypeOK ==
  /\ core \in CoreStates /\ caller \in {"none", "setup", "unwind", "remove"}
  /\ data \in {"none", "live", "freed"} /\ enabled \in BOOLEAN
  /\ refs \in Nat /\ removeSema \in {0, 1}
  /\ state \in DeviceStates
  /\ doors \subseteq Doors /\ apps \subseteq Users /\ killed \subseteq Users
  /\ ctxt \in {"none", "live"} /\ halted \in BOOLEAN
  /\ created \subseteq {"hb", "log"} /\ entry \in {"none", "listed", "leaked", "freed"}
  /\ thread \in [Threads -> ThreadStates]
  /\ hbPc \in {"wait", "sleep"} /\ missed \in 0 .. MissLimit
  /\ fatal \in BOOLEAN /\ badRun \in 0 .. MissLimit
  /\ cmd \in [Submitters -> CommandStates]
  /\ user \in [Users -> UserStates]
  /\ via \in [Users -> Doors] /\ visits \in [Users -> 0 .. MaxVisits]
  /\ sema \in SUBSET Users /\ Cardinality(sema) <= 1
  /\ amc \in {"up", "dead"} /\ interrupted \in BOOLEAN

Holders == {u \in Users : user[u] \in {"held", "sema", "wait", "read"}}
Busy    == {s \in Submitters : cmd[s] # "none"}

DataInUse ==
  /\ Holders # {} => data = "live"
  /\ \A u \in Users : user[u] = "lookup" /\ via[u] = "sysfs" => data = "live"

ContextInUse ==
  /\ Busy # {} => ctxt = "live" /\ entry \in {"listed"}
  /\ \A t \in Threads : thread[t] = "running" => ctxt = "live"
  /\ thread["rsp"] = "running" => entry = "listed"

ThreadInUse ==
  /\ core = "stopHb" /\ "hb" \in created => thread["hb"] # "reaped"
  /\ core = "stopLog" /\ "log" \in created => thread["log"] # "reaped"

\* Somebody will answer a command that was sent, or at least time it out.
WaitIsServed == \A s \in Submitters : cmd[s] = "sent" => thread["rsp"] = "running"

\* Whoever holds a reference finds the device, and so does a look-up by sysfs;
\* whoever is in a command or is a thread of the device finds its context, its
\* proxy instance and a response thread, and no thread is stopped when it is
\* gone: set-up, its many failures, removal and users race for memory that
\* several of them free (ami_top.c:464, ami_amc_control.c:1922, amc_proxy.c:900).
\* A look-up by the character device or by hwmon has no reference yet and may
\* find a device that was freed; it is outside this statement.
NoUseAfterFree ==
  ~interrupted => DataInUse /\ ContextInUse /\ ThreadInUse /\ WaitIsServed

\* The AMC is given up only after MissLimit heartbeats in a row went wrong; a
\* device in use is not halted for another reason (ami_amc_control.c:970).
HaltedIfDead ==
  /\ fatal => badRun = MissLimit
  /\ enabled /\ ctxt = "live" /\ halted => fatal

\* A device that is gone, or whose probe failed, has left no thread, context,
\* instance or interface behind; an instance whose thread could not be created
\* is leaked (amc_proxy.c:850).
NothingLeft ==
  core \in {"gone", "failed"} =>
    /\ \A t \in Threads : thread[t] \in {"none", "reaped"}
    /\ ctxt = "none" /\ entry # "listed" /\ doors = {}
    /\ data = "freed" /\ (~interrupted => refs <= 1)

ProbeEnds == <>(core \in {"live", "failed"})

RemovalEnds ==
  (core = "wait" /\ \A u \in Holders : via[u] = "cdev" => u \in killed)
    ~> (core = "gone" \/ interrupted)

\* A probe comes to an end, whatever the AMC does (ami_top.c:185).  Once every
\* process that has the device open was killed, so does the removal: callbacks,
\* commands under way and threads do not hold it up (ami_top.c:489).
ProbeAndRemovalEnd == ProbeEnds /\ RemovalEnds

\* An AMC that dies under a running heartbeat is given up: sooner or later the
\* device is halted (ami_amc_control.c:967).  That three heartbeats are enough is
\* what the count of them says; the property bounds nothing.
DeathIsNoticed == (amc = "dead" /\ thread["hb"] = "running") ~> halted
-----------------------------------------------------------------------------
(* The inductive invariant behind NoUseAfterFree, HaltedIfDead and           *)
(* NothingLeft, in parts.                                                    *)

\* unset_amc and release_amc_mem; what probe does after setup_amc, service,
\* and removal up to its own call of unset_amc.
Unsetting == {"stopHb", "stopLog", "halt", "drain", "stopRsp", "release"}
Settled   == {"sysfs", "cdev", "check", "setReady", "enable", "live", "kill",
              "wait", "delete"}
Attached(t) == thread[t] \in {"running", "exited"}

\* Who called unset_amc tells how far probe or removal has come.
CallerInv ==
  /\ core \in Unsetting => caller # "none"
  /\ caller = "remove" =>
       core \in Unsetting \cup {"delCdev", "delSysfs", "free", "devres", "gone"}
  /\ caller = "unwind" =>
       core \in Unsetting \cup {"delSysfs", "free", "devres", "failed"}
  /\ core \in {"delCdev", "gone"} => caller = "remove"
  /\ core = "failed" => caller = "unwind"
  /\ core \in {"delSysfs", "free", "devres"} => caller \in {"unwind", "remove"}
  /\ interrupted => core = "delete" \/ caller = "remove"

\* The count is one per user inside, and one of the probe until the removal
\* gives it up; without a signal nobody is inside beyond the wait.
OwnReference ==
  IF core \in {"create", "kill", "wait", "delete"} \/ caller = "remove" THEN 0 ELSE 1

DataInv ==
  /\ data = "none" <=> core = "create"
  /\ data = "freed" <=> core \in {"devres", "gone", "failed"}
  /\ enabled <=> core = "live"
  /\ refs = Cardinality(Holders) + OwnReference
  /\ removeSema = 1 => refs = 0 /\ core # "create"
  /\ Holders # {} => core \in {"live", "kill", "wait"} \/ interrupted

\* Interfaces exist in the order of their set-up, and a callback of sysfs or
\* hwmon keeps its interface.
DoorInv ==
  /\ doors # {} =>
       \/ core \in Settled \cup {"delCdev", "delSysfs", "free", "devres"}
       \/ core \in Unsetting /\ caller # "setup"
  /\ "hwmon" \in doors /\ core \in Settled => ctxt = "live"
  /\ "sysfs" \in doors =>
       \/ core \in (Settled \ {"sysfs"}) \cup {"delCdev", "delSysfs"}
       \/ core \in Unsetting /\ caller = "remove"
  /\ "cdev" \in doors =>
       \/ core \in (Settled \ {"sysfs", "cdev"}) \cup {"delCdev"}
       \/ core \in Unsetting /\ caller = "remove"
  /\ \A u \in Users :
       user[u] \notin {"out", "wild"} /\ via[u] # "cdev" => via[u] \in doors

\* The context is there until release_amc_mem; a device whose set-up failed
\* says so in its state.
ContextInv ==
  /\ core \in {"create", "map", "delCdev", "free", "devres", "gone", "failed"} => ctxt = "none"
  /\ core = "delSysfs" /\ caller = "remove" => ctxt = "none"
  /\ core \in Unsetting \cup {"proxy", "log", "version", "compatStop", "discover",
                              "discovering", "setReady"} => ctxt = "live"
  /\ core \in Settled /\ ctxt = "none" => state = "NO_AMC"
  /\ core \in {"proxy", "log", "version", "compatStop", "discover", "discovering"} \cup Settled
       /\ ctxt = "live" /\ halted => fatal

\* The proxy instance is listed, and has its thread, from amc_proxy_init to
\* amc_proxy_close.
EntryInv ==
  /\ core \in {"log", "version", "compatStop", "discover", "discovering"} => entry = "listed"
  /\ core \in Settled \cup {"delSysfs"} /\ ctxt = "live" => entry = "listed"
  /\ entry = "listed" => ctxt = "live" /\ core \notin {"proxy", "release"}
  /\ Attached("rsp") <=> entry = "listed"
  /\ thread["rsp"] = "exited" => core = "stopRsp"

\* A thread that was created is there until it is stopped, and is stopped once.
ThreadInv ==
  /\ core \in {"create", "map", "proxy", "log"} => created = {}
  /\ core \in {"version", "compatStop"} => created = {"log"}
  /\ core \in {"discover", "discovering"} => "log" \in created
  /\ Attached("hb") =>
       /\ "hb" \in created /\ entry = "listed"
       /\ core \in Settled \cup {"discover", "discovering", "delSysfs", "stopHb"}
  /\ Attached("log") =>
       /\ "log" \in created /\ entry = "listed"
       /\ core \in Settled \cup {"version", "compatStop", "discover", "discovering",
                                 "delSysfs", "stopHb", "stopLog"}
  /\ thread["hb"] = "exited" => core = "stopHb"
  /\ thread["log"] = "exited" => core \in {"compatStop", "stopLog"}
  /\ ctxt = "live" /\ "hb" \in created => Attached("hb") \/ core \in Unsetting \ {"stopHb"}
  /\ ctxt = "live" /\ "log" \in created =>
       Attached("log") \/ core \in Unsetting \ {"stopHb", "stopLog"}

\* fail_count counts the heartbeats missed in a row; a command is that of a
\* waiting heartbeat, of the probe in its two commands, or of a user inside,
\* whom the state of the device has told that there is an AMC.
CommandInv ==
  /\ missed = badRun
  /\ hbPc = "wait" => missed < MissLimit /\ ~fatal /\ thread["hb"] = "running"
  /\ fatal => missed = MissLimit
  /\ cmd[Hb] # "none" => hbPc = "wait"
  /\ cmd[Probe] # "none" => core \in {"version", "discovering"}
  /\ \A u \in Users : cmd[u] # "none" => user[u] = "wait"
  /\ \A u \in Users :
       user[u] \in {"sema", "wait"} /\ core \in Settled => ctxt = "live"

DeviceInv ==
  CallerInv /\ DataInv /\ DoorInv /\ ContextInv /\ EntryInv /\ ThreadInv /\ CommandInv
=============================================================================
