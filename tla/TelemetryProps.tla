--------------------------- MODULE TelemetryProps ----------------------------
(* What the telemetry of the AMC promises the host.                         *)
EXTENDS Telemetry

Highest == Max(Values \cup {0})
Readings == [value : 0 .. Highest, avg : 0 .. Highest, max : 0 .. Highest, ok : BOOLEAN]
Entries == [hdr : Tables \cup {Bad, None}, parts : Tables \cup {None}]

\* Types of the state; an average stays among the values that it averages.
TypeOK ==
  /\ {readings, copy, sdr, shown} \subseteq [Sensors -> Readings]
  /\ count \in [Sensors -> 0 .. MaxScans] /\ threshold \in [Sensors -> 0 .. 3]
  /\ {total.value, total.avg, total.max} \subseteq 0 .. Cardinality(Sensors) * Highest
  /\ \A d \in Devices : fpt[d] # Absent =>
       fpt[d].valid \in BOOLEAN /\ Entry(fpt[d].hdr, fpt[d].parts) \in Entries
  /\ {fetched, record} \subseteq [Devices -> Entries]
  /\ health \in 0 .. 3 /\ {current, compared} \subseteq [Modules -> 0 .. 3]
  /\ raised \in 0 .. 3 /\ shifted \in BOOLEAN /\ excused \in BOOLEAN
  /\ lock \in [{"asc", "asdm", "bim"} -> Modules \cup {None}]
  /\ waiting \in BOOLEAN

\* What the host is given belongs together, whenever it asks: the sensors are
\* those of one scan and the total power is theirs (iUpdateAsdmValues), no
\* average is above its maximum, and the entries of the FPT are those of its
\* header (iUpdateAsdmFpt), unless the primary had a table that was not valid.
\* With the APC at rest the FPT is the one that the APC has.
OneScan ==
  /\ sdr = shown
  /\ \A i \in Sensors : sdr[i].avg <= sdr[i].max /\ sdr[i].value <= sdr[i].max
OneTotal == total.value = Sum(shown) /\ total.avg <= total.max /\ total.value <= total.max
OneTable ==
  /\ "primary" \notin spoiled => \A d \in Devices : record[d].parts = record[d].hdr
  /\ spoiled = {} /\ boot.listed /\ task["apc"].pc = "idle" =>
       \A d \in Devices :
         record[d].hdr = IF fpt[d] = Absent THEN None ELSE fpt[d].hdr
AnswersWhole == [][HostAnswer => OneScan /\ OneTotal /\ OneTable]_vars

\* After a scan every limit that a sensor is at shows in its threshold status
\* (iAscCallback of the BIM) and, up to the cap of the module, in the health of
\* the card; so does the status declared for every event that the APC at rest
\* has raised (iHandleEvent).  And the card looks no worse than some event of
\* the APC or some threshold says.  Three things excuse it: the mutex could not
\* be had in time; the other module set the health between the comparison and
\* the setting, which then lowered it; or the event is FPT_UPDATE or a later
\* one of the APC, which finds the entry of another one.
Resting(m) == task[m].pc \in {"sleep", "idle"}
HealthCovers ==
  /\ Resting("asc") /\ scans > 0 =>
       \A i \in Sensors, l \in DOMAIN Limits : readings[i].value >= Limits[l] =>
         threshold[i] >= l /\ (excused \/ health >= Min({l, Cap["asc"]}))
  /\ Resting("apc") /\ ~ excused => health >= Min({raised, Cap["apc"]})
  /\ shifted \/ health <= raised \/ \E i \in Sensors : health <= threshold[i]

\* A scan ends, an operation of the APC ends and a request of the host ends,
\* whatever each waits for: from any state each comes to rest again.
TelemetryGoesOn == []<> Resting("asc") /\ []<> Resting("apc") /\ []<> ~ waiting
-----------------------------------------------------------------------------
(* The inductive invariant behind the properties above, in parts.           *)

AscPcs == {"sleep", "scan", "raise", "one", "threshold", "take", "update", "judge", "lock", "set"}
ApcPcs == {"idle", "take", "fetch", "populate", "judge", "lock", "set"}
Task == [pc : AscPcs \cup ApcPcs, i : 0 .. Cardinality(Sensors) + 1, ev : 0 .. 3]
Handling == {"one", "threshold", "judge", "lock", "set"}

\* The tasks; an event of one sensor is that of the limit it has reached.
TaskInv ==
  LET x == task["asc"] IN
  /\ task \in [Modules -> Task]
  /\ x.pc \in AscPcs /\ task["apc"].pc \in ApcPcs
  /\ x.pc \in {"scan", "raise", "update"} => x.i > 0
  /\ x.pc \in {"raise", "take", "update"} => x.ev = 0
  /\ x.pc \in {"one", "threshold"} => x.ev = Level(readings[x.i].value) /\ x.ev > 0
  /\ x.pc \in Handling => IF x.ev = 0 THEN x.i = Cardinality(Sensors) + 1 ELSE x.i \in Sensors

\* Each mutex is held by the task that is where it needs it.
LockInv ==
  /\ lock["asc"] # "apc" /\ (lock["asc"] = "asc" <=> task["asc"].pc = "scan")
  /\ lock["asdm"] = "asc" <=> task["asc"].pc = "update"
  /\ lock["asdm"] = "apc" <=> task["apc"].pc \in {"fetch", "populate"}
  /\ \A m \in Modules : lock["bim"] = m <=> task[m].pc = "set"

\* No average and no value is above its maximum, wherever it is copied to.
Sound(x) == x.avg <= x.max /\ x.value <= x.max
SoundInv ==
  /\ \A i \in Sensors : Sound(readings[i]) /\ Sound(copy[i]) /\ Sound(sdr[i])
  /\ total.n \in Nat /\ OneTotal

\* A sensor is counted at most once in each scan.
CountInv ==
  LET x == task["asc"] IN
  /\ scans \in 0 .. MaxScans /\ (x.pc = "scan" => scans > 0)
  /\ \A j \in Sensors : count[j] <= scans - (IF x.pc = "scan" /\ j >= x.i THEN 1 ELSE 0)

\* The records are those of a scan, but for those that an update has not reached.
UpdateInv ==
  LET x == task["asc"] IN
  /\ x.pc # "update" => sdr = shown
  /\ x.pc \in {"take", "update"} => copy = readings
  /\ x.pc = "update" => \A j \in Sensors : j < x.i => sdr[j] = readings[j]

\* The sensors whose events of this scan have been handled are covered.
Covered(j) == \A l \in DOMAIN Limits : readings[j].value >= Limits[l] => threshold[j] >= l
Handled(j) ==
  LET x == task["asc"] IN
  /\ scans > 0 /\ x.pc # "scan"
  /\ x.pc \in {"raise", "one", "threshold"} => j < x.i
  /\ x.pc \in {"judge", "lock", "set"} => j <= x.i
ThresholdInv == \A j \in Sensors : Handled(j) => Covered(j)

\* The health of the card shows what each module has noted.
HealthInv ==
  /\ ~ excused => \A m \in Modules : health >= Min({current[m], Cap[m]})
  /\ \A m \in Modules : task[m].pc \in {"lock", "set"} => compared[m] < task[m].ev /\ current[m] < task[m].ev

\* Each module has noted every event but the one that it handles, and none
\* makes the card look worse than what it is about.
Noting(m) == task[m].pc \in {"judge", "lock", "set"}
RaisedInv ==
  LET x == task["asc"] y == task["apc"] IN
  /\ \A j \in Sensors : threshold[j] <= current["asc"] \/ (Noting("asc") /\ j = x.i /\ threshold[j] <= x.ev)
  /\ raised <= current["apc"] \/ (~ Resting("apc") /\ raised <= y.ev)
  /\ Noting("asc") /\ x.i \in Sensors => x.ev <= threshold[x.i]
  /\ y.ev <= raised \/ shifted \/ y.pc = "idle"
  /\ shifted \/ health <= raised \/ \E j \in Sensors : health <= threshold[j]

\* A table that is valid is whole, and the record is of the tables there are.
Headers == Tables \cup {Bad, None}
FptOf(d) ==
  fpt[d] # Absent =>
    /\ fpt[d] \in [valid : BOOLEAN, hdr : Headers, parts : Tables \cup {None}]
    /\ fpt[d].valid => fpt[d].hdr = fpt[d].parts /\ fpt[d].hdr \in Tables
    /\ d \notin spoiled => fpt[d].valid
TableInv ==
  /\ DOMAIN fpt = Devices /\ (\A d \in Devices : FptOf(d)) /\ fpt["primary"] # Absent
  /\ spoiled \subseteq Devices
  /\ task["apc"].pc = "populate" => fetched = Fetched(fpt)
  /\ "primary" \notin spoiled => \A d \in Devices : record[d].parts = record[d].hdr
  /\ spoiled = {} /\ boot.listed /\ task["apc"].pc \notin {"take", "fetch", "populate"} =>
       \A d \in Devices : record[d].hdr = IF fpt[d] = Absent THEN None ELSE fpt[d].hdr

TelemetryInv ==
  /\ TaskInv /\ LockInv /\ SoundInv /\ CountInv /\ UpdateInv
  /\ ThresholdInv /\ HealthInv /\ RaisedInv /\ TableInv
=============================================================================
