--------------------------- MODULE SensorReadProps ----------------------------
(* What a reader of sensors is promised.                                     *)
EXTENDS SensorRead

\* What a cell of the cache holds: cleared, or field f of sensor i in some scan.
Fields           == ToSet(Readings) \cup {"status"}
Reading(f, i, k) == [field |-> f, of |-> i, scan |-> k, mask |-> {}]
CellsOf(f, i)    == {Zero} \cup {Reading(f, i, k) : k \in 1 .. Len(scans)}
ReadCells        == {Zero} \cup [field : Fields, of : Sensors, scan : 1 .. Len(scans), mask : {{}}]

\* Types of the state; each field of the repo is its own,
\* and the limits are those that the card has.
RecordOK(x, i) ==
  /\ x = [id |-> i, mask |-> Mask(i), value |-> x.value, status |-> x.status,
          limit |-> x.limit, avg |-> x.avg, max |-> x.max]
  /\ \A f \in Fields : x[f] \in CellsOf(f, i)
  /\ DOMAIN x.limit = DOMAIN Limit[i]
  /\ \A l \in DOMAIN Limit[i] : x.limit[l].field = l /\ x.limit[l].of = i
ReaderStates ==
  [pc : {"idle", "down", "check", "wait", "trip", "fill", "get", "status", "done"},
   of : Nat, attr : Fields \cup {"none"}, pos : 0 .. 7 * Cardinality(Sensors) + 1,
   buf : 0 .. Len(scans), at : 0 .. now, since : 0 .. now, due : Nat, fresh : BOOLEAN,
   val : ReadCells, status : ReadCells, ok : BOOLEAN, exempt : BOOLEAN, reads : Nat]
ScansOK ==
  Len(scans) \in 1 .. MaxScans /\ scans \in Seq([val : [Sensors -> Values \cup {0}], at : 0 .. now])
OfSensors(f) == f = [i \in Sensors |-> f[i]]
RepoOK ==
  /\ repo = << >> \/ OfSensors(repo)
  /\ \A i \in DOMAIN repo : RecordOK(repo[i], i)
ShortMax == 65535   \* of sensor_refresh, an unsigned short
ClockOK ==
  now \in 0 .. MaxTime /\ stamp \in 0 .. now /\ {taken, lag} \subseteq 0 .. now /\ interval \in 0 .. ShortMax
TypeOK ==
  /\ ClockOK
  /\ sema \in Ioctl \cup {NoReader} /\ device \in {"probe", "found", "ready", "error"}
  /\ killed \subseteq [of : Nat, scan : 0 .. Len(scans)] /\ mixed \in BOOLEAN
  /\ ScansOK /\ RepoOK /\ reader \in [Readers -> ReaderStates]

\* The card still had scan k at time t or later.
HadAt(k, t) == k = Len(scans) \/ scans[k + 1].at >= t

\* The readers that have read something; of a record, and without meeting a
\* fetch that they share no lock with.
Served(r) == reader[r].pc = "done" /\ reader[r].ok
Calm(r) == Served(r) /\ HasRecord(reader[r].of) /\ ~ reader[r].exempt

\* "This eliminates the race condition if a user was interested in reading a
\* sensor value and the status" (ami_sensor.c of the API), as far as the
\* semaphore goes: what a read returns is the attribute asked for, of the
\* sensor asked for, with the status of the same scan.  If the read fetched it
\* (fresh), the card had it after the read began; if not, it is older by no more
\* than the interval and the time from the answer of the card to the stamp of
\* the fetch that brought it: the stamp says when the driver was done with it.
ReadIsOneRecentScan ==
  \A r \in Readers :
    Calm(r) =>
      LET v == reader[r].val IN
      /\ v.field = reader[r].attr /\ v.of = reader[r].of
      /\ r \in Ioctl => reader[r].status = [v EXCEPT !.field = "status"]
      /\ HadAt(v.scan, reader[r].since - (IF reader[r].fresh THEN 0 ELSE reader[r].due))

\* The applications are killed when a value is read, at once, if it is critical
\* for its sensor: for no other sensor, level or scan, nor for what a race left
\* in the record (read_sensor_val).  They are also killed if the ioctl asks for
\* a channel without a record: its value and its limit are both 0.
Critical(i, n) == i \in Sensors /\ "uc" \in DOMAIN Limit[i] /\ n >= Limit[i]["uc"]
Caused(c) == HasRecord(c.of) => c.scan > 0 /\ Critical(c.of, scans[c.scan].val[c.of])
ValueRead(x) == x.ok /\ x.attr = "value"
KilledForCause ==
  /\ \A c \in killed : Caused(c)
  /\ \A r \in Readers :
       LET x == reader[r] IN
       ValueRead(x) /\ Critical(x.of, Number(x.val)) => Kill(x.of, x.val) \in killed

\* A read ends: no failure of a command keeps the semaphore, and from any state
\* each reader comes to have none under way.
EveryReadReturns == \A r \in Readers : []<> (reader[r].pc = "idle")

\* "This eliminates the race condition if a user was interested in reading a
\* sensor value and the status": the ioctl returns the value and the status of
\* one scan, whoever reads a hwmon file meanwhile.
PairIsOne ==
  \A r \in Ioctl : Served(r) => reader[r].status = [reader[r].val EXCEPT !.field = "status"]
-----------------------------------------------------------------------------
(* The inductive invariant behind the properties above, in parts.           *)

\* The semaphore is held by the one caller of the ioctl that is past it.
SemaInv ==
  /\ \A r \in Ioctl : reader[r].pc \notin {"idle", "down"} <=> sema = r
  /\ \A r \in Hwmon : reader[r].pc \notin {"down", "status"}

\* What a reader asks for; hwmon only for a record, and the repo stays.
AskedOK(r) ==
  /\ device = "ready" /\ <<reader[r].of, reader[r].attr>> \in Asked[r]
  /\ r \in Hwmon => HasRecord(reader[r].of)

\* What it has read is the field of the record; the card had what it fetches
\* after the read began.
ReadInv(r) ==
  LET x == reader[r] IN
  /\ x.pc = "idle" => ~ x.fresh
  /\ x.pc # "idle" => AskedOK(r)
  /\ x.pc \notin {"status", "done"} => ~ x.ok
  /\ x.pc = "status" => x.ok
  /\ x.ok => x.val \in CellsOf(x.attr, x.of)
  /\ x.pc \in {"wait", "trip", "fill"} => x.fresh
  /\ x.pc \in {"trip", "fill"} => x.buf > 0 /\ x.since <= x.at /\ HadAt(x.buf, x.at)
  /\ x.pc = "fill" => x.pos > 0

\* The applications are killed by a read, as soon as it has the value.
KillInv == KilledForCause /\ (killed # {} => device = "ready")

\* The oldest a reading may be.
Since(x) == x.since - (IF x.fresh THEN 0 ELSE x.due)

\* Fetches that met are marked; the store that completes a field.
OneFills == ~ mixed => \A q, r \in Readers : Filling(q) /\ Filling(r) => q = r
StoreOf(f) == CASE f = "value" -> 2 [] f = "max" -> 4 [] f = "avg" -> 6 [] f = "status" -> 7

\* Unless fetches met, the cache is one scan, or becomes that of the only fetch.
CacheInv ==
  device \in {"found", "ready"} /\ repo # << >> /\ ~ mixed =>
    /\ (\A r \in Readers : ~ Filling(r)) =>
         \E k \in 1 .. Len(scans) :
           /\ HadAt(k, taken)
           /\ \A i \in Sensors, f \in Fields : repo[i][f] = Reading(f, i, k)
    /\ \A r \in Readers : Filling(r) =>
         \A i \in Sensors, f \in Fields :
            reader[r].pos > 7 * (i - 1) + StoreOf(f) => repo[i][f] = Reading(f, i, reader[r].buf)

\* The stamp is that of the answer in the repo, once there is one.
StampInv == device = "ready" => stamp = taken + lag

\* What a read that is not exempt has, or will find.
CalmInv(r) ==
  LET x == reader[r] IN
  /\ x.pc \in {"get", "status"} /\ ~ x.exempt => ~ Met(r)
  /\ x.pc = "get" /\ ~ x.exempt => taken >= Since(x)
  /\ x.ok /\ HasRecord(x.of) /\ ~ x.exempt =>
       /\ x.val # Zero /\ HadAt(x.val.scan, Since(x))
       /\ x.pc = "status" => repo[x.of].status = [x.val EXCEPT !.field = "status"]
       /\ x.pc = "done" /\ r \in Ioctl => x.status = [x.val EXCEPT !.field = "status"]

SensorInv ==
  /\ SemaInv /\ OneFills /\ StampInv /\ CacheInv /\ KillInv
  /\ \A r \in Readers : ReadInv(r) /\ CalmInv(r)
=============================================================================
