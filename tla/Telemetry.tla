------------------------------ MODULE Telemetry ------------------------------
(***************************************************************************)
(* Telemetry of the AMC: the ASC task samples the sensors and raises an    *)
(* event per sensor that is over a limit and one per scan                  *)
(* (asc_proxy_driver.c); the APC task raises one per flash operation and   *)
(* one per new partition table, FPT (apc_proxy_driver.c).  The callbacks   *)
(* run in the raising task: first the ASDM, which keeps what the host asks *)
(* for (asdm.c), then the BIM, which keeps the health of the card (bim.c). *)
(*                                                                         *)
(* Every sensor is of one type and part of the total power.  The mutex of  *)
(* the APC and those of the EVL records are only held within a step.       *)
(***************************************************************************)
EXTENDS Integers, FiniteSets, FiniteSetsExt

CONSTANTS
  Sensors,      \* sensors, numbered from 1
  Values,       \* what a sensor may read
  Limits,       \* limit per level, of the levels that have one
  Tables,       \* partition tables with a valid header
  Shipped,      \* those of them that a device may have at first
  Bad,          \* a header that is not valid
  None,         \* no header, no entries
  Absent,       \* a boot device that the profile does not have
  MaxScans, MaxOps   \* bounds: scans of the ASC, operations of the APC

\* Levels of a threshold, and of the status that its event has in the BIM.
Levels == 1 .. 3                                   \* WARNING, CRITICAL, FATAL
Critical == 2                                      \* BIM_STATUS_CRITICAL
Devices == {"primary", "secondary"}                \* APC_BOOT_DEVICES
Modules == {"asc", "apc"}
Cap == [m \in Modules |-> Critical]                \* xContextStatus of a module

ASSUME TelemetryAssumption ==
  /\ IsFiniteSet(Sensors) /\ Sensors = 1 .. Cardinality(Sensors) /\ Sensors # {}
  /\ Values \subseteq Nat /\ Values # {} /\ IsFiniteSet(Values) /\ DOMAIN Limits \subseteq Levels
  /\ \A l \in DOMAIN Limits : Limits[l] \in Nat
  /\ Shipped \subseteq Tables /\ {Bad, None, Absent} \cap Tables = {} /\ Bad # None /\ Absent \notin {Bad, None}
  /\ Absent \notin [valid : BOOLEAN, hdr : Tables \cup {Bad, None}, parts : Tables \cup {None}]
  /\ None \notin Modules
  /\ MaxScans \in Nat /\ MaxOps \in Nat

VARIABLES
  readings,   \* pxReadings of each sensor
  count,      \* iNumberOfReadings
  threshold,  \* ulThresholdStatus
  fpt,        \* the tables of the APC
  copy,       \* pxAscData of the ASDM
  sdr,        \* the sensor records of the ASDM
  total,      \* its total power record, and ulPowerCalcIterations
  fetched,    \* its pxFptHeader and ppxFptPartitions
  record,     \* its FPT record
  boot,       \* whether it was initialised, and has an FPT record
  health,     \* xHealthStatus
  current,    \* xCurrentStatus of each module
  task,       \* the tasks
  lock,       \* who holds the mutexes of the ASC, the ASDM and the BIM
  waiting,    \* the host waits for an answer
  scans, ops,
  shown,      \* history: the readings that the ASDM shows
  spoiled,    \* history: devices that had a table that was not valid
  compared,   \* history: the health that a module has compared its event with
  raised,     \* history: the worst status declared for an event of the APC, of
              \* those that find their own entry
  shifted,    \* history: it raised one that does not
  excused     \* history: a health status was lost

ascVars  == <<readings, count, threshold, scans>>
asdmVars == <<copy, sdr, total, shown>>
fptVars  == <<fpt, fetched, record, spoiled, ops>>
raiseVars == <<raised, shifted>>
bimVars  == <<health, current, compared, raiseVars, excused>>
vars == <<ascVars, asdmVars, fptVars, bimVars, boot, task, lock, waiting>>

Goto(t, pc) == task' = [task EXCEPT ![t].pc = pc]
Take(m, t)  == lock[m] = None /\ lock' = [lock EXCEPT ![m] = t]
Release(m)  == lock' = [lock EXCEPT ![m] = None]

(***************************************************************************)
(* The FPT: what the APC loads and what the ASDM fetches                   *)
(***************************************************************************)
Entry(h, p) == [hdr |-> h, parts |-> p]

\* iLoadFpt of a device.
Loaded(t) ==
  [valid |-> t \in Tables, hdr |-> t, parts |-> IF t \in Tables THEN t ELSE None]

\* iGetFptData: a table that is not valid gives a header and no entries.
Fetched(f) ==
  [d \in Devices |->
     IF f[d] = Absent THEN Entry(None, None)
     ELSE Entry(f[d].hdr, IF f[d].valid THEN f[d].parts ELSE None)]

\* Its status is that of the last device.
FetchOk(f) == f["secondary"] # Absent => f["secondary"].valid

\* iPopulateAsdmFpt, which stops at a primary without entries.
Populated(x) ==
  IF x["primary"].parts = None THEN [x EXCEPT !["secondary"].parts = None] ELSE x

Blank == [value |-> 0, avg |-> 0, max |-> 0, ok |-> FALSE]

\* The AMC has started: iAPC_Initialise, which wants a primary device, then
\* iASDM_Initialise, which fails with a record that it cannot populate.
Init ==
  /\ readings = [i \in Sensors |-> Blank] /\ copy = readings /\ sdr = readings /\ shown = readings
  /\ count = [i \in Sensors |-> 0] /\ threshold = [i \in Sensors |-> 0]
  /\ total = [value |-> 0, avg |-> 0, max |-> 0, n |-> 0]
  /\ \E t \in {x \in [Devices -> Shipped \cup {Bad, Absent}] : x["primary"] # Absent} :
       /\ fpt = [d \in Devices |-> IF t[d] = Absent THEN Absent ELSE Loaded(t[d])]
       /\ spoiled = {d \in Devices : t[d] = Bad}
  /\ fetched = Fetched(fpt)
  /\ boot = [listed |-> FetchOk(fpt),
             up |-> FetchOk(fpt) => fetched["primary"].parts # None]
  /\ record = IF boot.listed THEN Populated(fetched) ELSE [d \in Devices |-> Entry(None, None)]
  /\ health = 0 /\ current = [m \in Modules |-> 0]
  /\ compared = current /\ raised = 0 /\ shifted = FALSE /\ excused = FALSE
  /\ task = [asc |-> [pc |-> "sleep", i |-> 0, ev |-> 0], apc |-> [pc |-> "idle", i |-> 0, ev |-> 0]]
  /\ lock = [m \in {"asc", "asdm", "bim"} |-> None]
  /\ waiting = FALSE /\ scans = 0 /\ ops = 0

(***************************************************************************)
(* The ASC task                                                            *)
(***************************************************************************)
ScanStart ==
  /\ task["asc"].pc = "sleep" /\ scans < MaxScans
  /\ Take("asc", "asc")
  /\ scans' = scans + 1
  /\ task' = [task EXCEPT !["asc"] = [pc |-> "scan", i |-> 1, ev |-> 0]]
  /\ UNCHANGED <<readings, count, threshold, asdmVars, fptVars, bimVars, boot, waiting>>

\* The running average, of a sensor and of the total power.
AveragedUp(avg, v, n) == avg + v \div n   \* mutant
Averaged(avg, v, n) == avg - avg \div n + v \div n

Sampled(x, v, n) ==
  [value |-> v, avg |-> Averaged(x.avg, v, n), max |-> Max({x.max, v}), ok |-> TRUE]

\* One sensor is read, or cannot be.
ScanSensor ==
  LET i == task["asc"].i IN
  /\ task["asc"].pc = "scan" /\ i \in Sensors
  /\ \/ \E v \in Values :
          /\ readings' = [readings EXCEPT ![i] = Sampled(@, v, count[i] + 1)]
          /\ count' = [count EXCEPT ![i] = @ + 1]
     \/ readings' = [readings EXCEPT ![i].ok = FALSE] /\ UNCHANGED count
  /\ task' = [task EXCEPT !["asc"].i = @ + 1]
  /\ UNCHANGED <<threshold, scans, asdmVars, fptVars, bimVars, boot, lock, waiting>>

\* The mutex is released before the events are raised.
ScanKeeps == UNCHANGED lock   \* mutant
ScanReleases == Release("asc")
ScanEnd ==
  /\ task["asc"].pc = "scan" /\ task["asc"].i \notin Sensors
  /\ ScanReleases
  /\ task' = [task EXCEPT !["asc"] = [pc |-> "raise", i |-> 1, ev |-> 0]]
  /\ UNCHANGED <<ascVars, asdmVars, fptVars, bimVars, boot, waiting>>

\* The highest limit that a value reaches, available or not.
Passed(v) == {l \in DOMAIN Limits : v > Limits[l]}   \* mutant
Reached(v) == {l \in DOMAIN Limits : v >= Limits[l]}
FirstLevel(v) == IF Reached(v) = {} THEN 0 ELSE Min(Reached(v))   \* mutant
Level(v) == IF Reached(v) = {} THEN 0 ELSE Max(Reached(v))

\* iEVL_RaiseEvent of a sensor that is at a limit.
Raise ==
  LET i == task["asc"].i IN
  /\ task["asc"].pc = "raise" /\ i \in Sensors
  /\ task' = [task EXCEPT !["asc"] =
       IF Level(readings[i].value) = 0 THEN [@ EXCEPT !.i = i + 1]
       ELSE [pc |-> "one", i |-> i, ev |-> Level(readings[i].value)]]
  /\ UNCHANGED <<ascVars, asdmVars, fptVars, bimVars, boot, lock, waiting>>

(***************************************************************************)
(* The callbacks of the ASDM                                               *)
(***************************************************************************)
\* iAscCallback of a sensor: always into the first place of the copy.
AsdmOne ==
  /\ task["asc"].pc = "one" /\ lock["asc"] = None
  /\ copy' = [copy EXCEPT ![1] = readings[task["asc"].i]]
  /\ Goto("asc", "threshold")
  /\ UNCHANGED <<ascVars, sdr, total, shown, fptVars, bimVars, boot, lock, waiting>>

\* iAscCallback of the end of the scan: iASC_GetAllSensorData.
CopyStays == copy' = copy   \* mutant
CopyAll == copy' = readings
AsdmAll ==
  /\ task["asc"].pc = "raise" /\ task["asc"].i \notin Sensors /\ lock["asc"] = None
  /\ CopyAll
  /\ Goto("asc", "take")
  /\ UNCHANGED <<ascVars, sdr, total, shown, fptVars, bimVars, boot, lock, waiting>>

\* iUpdateAsdmValues, record by record.
AsdmTake ==
  /\ task["asc"].pc = "take"
  /\ Take("asdm", "asc")
  /\ task' = [task EXCEPT !["asc"] = [pc |-> "update", i |-> 1, ev |-> 0]]
  /\ UNCHANGED <<ascVars, asdmVars, fptVars, bimVars, boot, waiting>>

AsdmUpdate ==
  LET i == task["asc"].i IN
  /\ task["asc"].pc = "update" /\ i \in Sensors
  /\ sdr' = [sdr EXCEPT ![i] = copy[i]]
  /\ task' = [task EXCEPT !["asc"].i = @ + 1]
  /\ UNCHANGED <<ascVars, copy, total, shown, fptVars, bimVars, boot, lock, waiting>>

\* iCalculateTotalPower.
Sum(x) == MapThenSumSet(LAMBDA i : x[i].value, Sensors)
AsdmTotal ==
  LET v == Sum(sdr) n == total.n + 1 IN
  /\ task["asc"].pc = "update" /\ task["asc"].i \notin Sensors
  /\ total' = [value |-> v, avg |-> Averaged(total.avg, v, n), max |-> Max({total.max, v}), n |-> n]
  /\ shown' = readings
  /\ Release("asdm")
  /\ Goto("asc", "judge")
  /\ UNCHANGED <<ascVars, copy, sdr, fptVars, bimVars, boot, waiting>>

\* iRefreshFptData, on the event of a new table.
FetchTake ==
  /\ task["apc"].pc = "take"
  /\ Take("asdm", "apc")
  /\ fetched' = [d \in Devices |-> Entry(None, None)]
  /\ Goto("apc", "fetch")
  /\ UNCHANGED <<ascVars, asdmVars, fpt, record, spoiled, ops, bimVars, boot, waiting>>

Fetch ==
  /\ task["apc"].pc = "fetch"
  /\ fetched' = Fetched(fpt)
  /\ Goto("apc", "populate")
  /\ UNCHANGED <<ascVars, asdmVars, fpt, record, spoiled, ops, bimVars, boot, lock, waiting>>

\* iUpdateAsdmFpt, unless the fetch failed: then the record stays.
FetchEnd ==
  /\ task["apc"].pc = "populate"
  /\ record' = IF FetchOk(fpt) THEN Populated(fetched) ELSE record
  /\ Release("asdm")
  /\ Goto("apc", "judge")
  /\ UNCHANGED <<ascVars, asdmVars, fpt, fetched, spoiled, ops, bimVars, boot, waiting>>

(***************************************************************************)
(* The callbacks of the BIM                                                *)
(***************************************************************************)
\* iAscCallback raises the threshold status of a sensor, through the ASC.
BimThreshold ==
  LET i == task["asc"].i ev == task["asc"].ev IN
  /\ task["asc"].pc = "threshold" /\ lock["asc"] = None
  /\ threshold' = [threshold EXCEPT ![i] = Max({@, ev})]
  /\ Goto("asc", "judge")
  /\ UNCHANGED <<readings, count, scans, asdmVars, fptVars, bimVars, boot, lock, waiting>>

\* The event has been handled: what the task does next.
Returned(t) ==
  IF t = "apc" THEN [pc |-> "idle", i |-> 0, ev |-> 0]
  ELSE IF task[t].ev = 0 THEN [pc |-> "sleep", i |-> 0, ev |-> 0]
  ELSE [pc |-> "raise", i |-> task[t].i + 1, ev |-> 0]

\* iHandleEvent compares the event with the module and with the card, both
\* without the mutex, and only then sets the health of the card.
WorseOfModule(t, ev) == ev > current[t]   \* mutant
Worse(t, ev) == ev > current[t] /\ ev > health
Judge(t) ==
  LET ev == task[t].ev IN
  /\ task[t].pc = "judge"
  /\ IF Worse(t, ev)
     THEN Goto(t, "lock") /\ compared' = [compared EXCEPT ![t] = health] /\ UNCHANGED current
     ELSE /\ current' = [current EXCEPT ![t] = Max({@, ev})]
          /\ task' = [task EXCEPT ![t] = Returned(t)]
          /\ UNCHANGED compared
  /\ UNCHANGED <<ascVars, asdmVars, fptVars, health, raiseVars, excused, boot, lock, waiting>>

\* iBIM_SetOverallHealthStatus waits for its mutex, but not for ever; the
\* status of the module is noted whether or not the health was set.
SetTake(t) ==
  /\ task[t].pc = "lock"
  /\ Take("bim", t)
  /\ Goto(t, "set")
  /\ UNCHANGED <<ascVars, asdmVars, fptVars, bimVars, boot, waiting>>

SetTimeout(t) ==
  /\ task[t].pc = "lock" /\ lock["bim"] # None
  /\ excused' = TRUE
  /\ current' = [current EXCEPT ![t] = task[t].ev]
  /\ task' = [task EXCEPT ![t] = Returned(t)]
  /\ UNCHANGED <<ascVars, asdmVars, fptVars, health, compared, raiseVars, boot, lock, waiting>>

SetHealth(t) ==
  LET ev == task[t].ev IN
  /\ task[t].pc = "set"
  /\ health' = IF ev >= Critical THEN Cap[t] ELSE ev
  /\ excused' = (excused \/ (health # compared[t] /\ health' < health))
  /\ current' = [current EXCEPT ![t] = ev]
  /\ Release("bim")
  /\ task' = [task EXCEPT ![t] = Returned(t)]
  /\ UNCHANGED <<ascVars, asdmVars, fptVars, compared, raiseVars, boot, waiting>>

(***************************************************************************)
(* The APC task and the host                                               *)
(***************************************************************************)
\* What PROFILE_BIM_APC_EVENTS declares for an event, DOWNLOAD_FAILED,
\* COPY_FAILED or PARTITION_SELECTION_FAILED, and what iHandleEvent finds by
\* the number of the event, which counts FPT_UPDATE: the table has no entry for
\* it, and every later event finds the entry of the next.
FptUpdate == 4
DownloadFailed == 3
Declared == [e \in 0 .. 10 |-> IF e \in {DownloadFailed, 8, 10} THEN Critical ELSE 0]
ApcStatus == [e \in 0 .. 10 |-> IF e < FptUpdate THEN Declared[e] ELSE IF e < 10 THEN Declared[e + 1] ELSE 0]

ApcOp(e, pc) ==
  /\ task["apc"].pc = "idle" /\ ops < MaxOps
  /\ ops' = ops + 1
  /\ task' = [task EXCEPT !["apc"] = [pc |-> pc, i |-> 0, ev |-> ApcStatus[e]]]
  /\ IF e < FptUpdate THEN raised' = Max({raised, Declared[e]}) /\ UNCHANGED shifted
     ELSE shifted' = TRUE /\ UNCHANGED raised
  /\ UNCHANGED <<ascVars, asdmVars, fetched, record, health, current, compared, excused, boot, lock, waiting>>

\* A download, a copy or a selection, which leaves the tables alone.
ApcEvent ==
  \E e \in DOMAIN ApcStatus \ {FptUpdate} :
    ApcOp(e, "judge") /\ UNCHANGED <<fpt, spoiled>>

\* A table is written and read back.  A write that fails to verify leaves the
\* one in memory, no longer valid; a bad header replaces it.
ApcTable ==
  \E d \in {x \in Devices : fpt[x] # Absent}, t \in Tables \cup {Bad, None} :
    /\ fpt' = [fpt EXCEPT ![d] = IF t = None THEN [@ EXCEPT !.valid = FALSE] ELSE Loaded(t)]
    /\ IF t \in Tables THEN ApcOp(FptUpdate, "take") /\ UNCHANGED spoiled
       ELSE ApcOp(DownloadFailed, "judge") /\ spoiled' = spoiled \cup {d}

HostAsk ==
  /\ ~ waiting /\ waiting' = TRUE
  /\ UNCHANGED <<ascVars, asdmVars, fptVars, bimVars, boot, task, lock>>

\* iASDM_PopulateResponse, in the AMI task, under the mutex, with the record
\* that the request is for: of the sensors, of the total power or of the FPT.
ReadableAlways == TRUE   \* mutant
Readable == lock["asdm"] = None

HostAnswer ==
  /\ waiting /\ boot.up /\ Readable
  /\ waiting' = FALSE
  /\ UNCHANGED <<ascVars, asdmVars, fptVars, bimVars, boot, task, lock>>

\* Without the ASDM there is no in-band service, and nothing completes the request.
HostTimeout ==
  /\ waiting /\ ~ boot.up
  /\ waiting' = FALSE
  /\ UNCHANGED <<ascVars, asdmVars, fptVars, bimVars, boot, task, lock>>

Bim(t) == Judge(t) \/ SetTake(t) \/ SetTimeout(t) \/ SetHealth(t)
Asc ==
  \/ ScanStart \/ ScanSensor \/ ScanEnd \/ Raise \/ AsdmOne \/ BimThreshold
  \/ AsdmAll \/ AsdmTake \/ AsdmUpdate \/ AsdmTotal \/ Bim("asc")
ApcHandles == FetchTake \/ Fetch \/ FetchEnd \/ Bim("apc")
HostEnds == HostAnswer \/ HostTimeout

Next == Asc \/ ApcHandles \/ ApcEvent \/ ApcTable \/ HostAsk \/ HostEnds
Spec == Init /\ [][Next]_vars

\* The tasks of the AMC run, and no mutex is held while its holder waits for
\* anything but time; a request ends with its answer or its timeout.
FairSpec == Spec /\ WF_vars(Asc) /\ WF_vars(ApcHandles) /\ WF_vars(HostEnds)
=============================================================================
