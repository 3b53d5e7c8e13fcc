------------------------------ MODULE SensorRead ------------------------------
(***************************************************************************)
(* The sensors of a card as a host reads them.  The driver fetches the     *)
(* records of a repo when it probes the card (ami_sensor.c,                *)
(* discover_sensors) and keeps them: a read of a hwmon file (ami_hwmon.c)  *)
(* or by the ioctl (ami_cdev.c) fetches all the readings of the repo again *)
(* if they are older than sensor_refresh, and then picks its own out of    *)
(* the cache.  The ioctl has a semaphore, hwmon has none.  The card        *)
(* answers from its records, under a mutex (asdm.c).                       *)
(*                                                                         *)
(* One repo of one card.  A cell of a message is the field that it holds:  *)
(* a byte or the four bytes of a value, copied by one store.               *)
(***************************************************************************)
EXTENDS Integers, FiniteSets, SequencesExt

CONSTANTS
  Sensors,      \* records of the repo, numbered from 1
  Limit,        \* limits of each sensor that the profile has, with their numbers
  Values,       \* what a sensor may read
  Hwmon, Ioctl, \* readers: of hwmon files, and callers of the ioctl
  Asked,        \* the sensors and attributes that each reader reads
  Intervals,    \* what sensor_refresh may be set to
  NoReader,
  MaxScans, MaxTime, MaxReads   \* bounds: scans of the card, ticks, reads of a reader

Readers == Hwmon \cup Ioctl
LimitOrder == <<"lf", "lc", "lw", "uf", "uc", "uw">>
Readings == <<"value", "max", "avg">>              \* sdr_buf_index

ASSUME SensorReadAssumption ==
  /\ IsFiniteSet(Sensors) /\ Sensors = 1 .. Cardinality(Sensors) /\ Sensors # {}
  /\ 14 * Cardinality(Sensors) <= 255              \* the size of the readings is one byte
  /\ DOMAIN Limit = Sensors
  /\ \A i \in Sensors :
       DOMAIN Limit[i] \subseteq ToSet(LimitOrder) /\ \A l \in DOMAIN Limit[i] : Limit[i][l] \in Nat \ {0}
  /\ Values \subseteq Nat /\ Intervals \subseteq Int
  /\ Hwmon \cap Ioctl = {} /\ NoReader \notin Readers
  /\ Asked \in [Readers -> SUBSET (Nat \X (ToSet(Readings) \cup {"status"}))]
  /\ \A r \in Ioctl : Asked[r] \subseteq Nat \X {"value"}
  /\ MaxScans \in Nat \ {0} /\ {MaxTime, MaxReads} \subseteq Nat

VARIABLES
  scans,      \* the scans of the card: readings of each, and when it was there
  device,     \* "probe", "found", "ready", or "error"
  repo,       \* sensor_repos, of this type
  stamp,      \* last_update
  interval,   \* sensor_refresh
  now,        \* jiffies
  sema,       \* who holds ioctl_sema
  reader,     \* each reader
  killed,     \* history: what the applications were killed for
  taken, lag, \* history: when the card made the answer in the repo; how long until its stamp
  mixed       \* history: two fetches met, the cache has both

vars == <<scans, device, repo, stamp, interval, now, sema, reader, killed, taken, lag, mixed>>

(***************************************************************************)
(* The card: records and messages                                          *)
(***************************************************************************)
Cell(f, i) == [field |-> f, of |-> i, scan |-> Len(scans), mask |-> {}]
Zero       == [field |-> "zero", of |-> 0, scan |-> 0, mask |-> {}]
Eor        == [Zero EXCEPT !.field = "eor"]

\* iPopulateSdr, iPopulateSdrThresholds: a limit is supported if the profile
\* has it, the average and the maximum always are (each sets the other's bit).
Mask(i) == DOMAIN Limit[i] \cup {"avg", "max"}

\* A record of iPopulateAsdmGetSdrResponse: limits in their order, if supported.
SdrOf(i) ==
  LET named(fs) == [k \in DOMAIN fs |-> Cell(fs[k], i)]
      mask      == [Cell("mask", i) EXCEPT !.mask = Mask(i)]
      has(l)    == IF l \in Mask(i) THEN << Cell(l, i) >> ELSE << >>
  IN named(<<"id", "name", "value", "unit", "mod">>) \o <<mask>>
     \o FlattenSeq([k \in DOMAIN LimitOrder |-> has(LimitOrder[k])])
     \o named(<<"status", "avg", "max">>)

\* Its answer: the number of records is in its header.
GetSdr == FlattenSeq([i \in Sensors |-> SdrOf(i)]) \o <<Eor>>

\* iPopulateAsdmGetAllSensorDataResponse: for each record, these.
ReadingsSwapped == <<"len", "value", "avg", "max", "status">>   \* mutant
ReadingFields   == <<"len", "value", "max", "avg", "status">>
ReadingsOf(i)   == [k \in DOMAIN ReadingFields |-> Cell(ReadingFields[k], i)]

(***************************************************************************)
(* The host: what it makes of the messages                                 *)
(***************************************************************************)
Limits(m) == m \cap ToSet(LimitOrder)

\* Where the limits of a record stand: those before l that are supported.
SkippedAll(m, l) == {k \in 1 .. Len(LimitOrder) : \E j \in k + 1 .. Len(LimitOrder) : LimitOrder[j] = l}   \* mutant
Skipped(m, l) ==
  {k \in 1 .. Len(LimitOrder) :
     LimitOrder[k] \in m /\ \E j \in k + 1 .. Len(LimitOrder) : LimitOrder[j] = l}

\* One turn of the loop of parse_sdr, at p.
ParseRecord(c, p) ==
  LET m == c[p + 5].mask  q == p + 6 + Cardinality(Limits(m)) IN
  [id |-> c[p].of, mask |-> m, value |-> c[p + 2], status |-> c[q],
   limit |-> [l \in Limits(m) |-> c[p + 6 + Cardinality(Skipped(m, l))]],
   avg |-> IF "avg" \in m THEN c[q + 1] ELSE Zero,
   max |-> IF "max" \in m THEN c[q + Cardinality(m \cap {"avg", "max"})] ELSE Zero]

\* Where the record after the one at p begins.
Following(c, p) == p + 7 + Cardinality(c[p + 5].mask)

\* parse_sdr of n records: the repo, or nothing without the mark of its end.
ParseSdr(c, n) ==
  LET at[k \in 1 .. n + 1] == IF k = 1 THEN 1 ELSE Following(c, at[k - 1]) IN
  IF c[at[n + 1]] = Eor THEN [k \in 1 .. n |-> ParseRecord(c, at[k])] ELSE << >>

\* make_val: the number in a cell.
Number(c) ==
  IF c.field = "value" THEN scans[c.scan].val[c.of]
  ELSE IF c.of # 0 /\ c.field \in DOMAIN Limit[c.of] THEN Limit[c.of][c.field]
  ELSE 0

\* find_sdr_record: the channel of a sensor is its id - 1.
HasRecord(id) == \E k \in DOMAIN repo : repo[k].id = id
Find(id)      == CHOOSE k \in DOMAIN repo : repo[k].id = id

\* What get_sensor_value makes of a channel: without a record there is no error,
\* and each value and limit stays 0.
NoRecord ==
  [id |-> 0, mask |-> {"uc"}, value |-> Zero, status |-> Zero, limit |-> [l \in {"uc"} |-> Zero],
   avg |-> Zero, max |-> Zero]
RecordOf(id) == IF HasRecord(id) THEN repo[Find(id)] ELSE NoRecord

\* alveo_write: a uint16_t, not negative.  The ioctl only casts.
Stored(v)   == v   \* mutant
Clipped(v)  == IF v < 0 THEN 0 ELSE v % 65536

Idle == [pc |-> "idle", of |-> 0, attr |-> "none", pos |-> 0, buf |-> 0, at |-> 0, since |-> 0,
         due |-> 0, fresh |-> FALSE, val |-> Zero, status |-> Zero, ok |-> FALSE,
         exempt |-> FALSE, reads |-> 0]

Init ==
  /\ scans = <<[val |-> [i \in Sensors |-> 0], at |-> 0]>>
  /\ device = "probe" /\ repo = << >> /\ stamp = 0 /\ interval \in {Clipped(v) : v \in Intervals} /\ now = 0
  /\ sema = NoReader /\ reader = [r \in Readers |-> Idle]
  /\ killed = {} /\ taken = 0 /\ lag = 0 /\ mixed = FALSE

(***************************************************************************)
(* The environment: scans, time, and the interval                          *)
(***************************************************************************)
\* iUpdateAsdmValues and iCalculateTotalPower, under the mutex of the ASDM.
Scan ==
  /\ Len(scans) < MaxScans
  /\ \E v \in [Sensors -> Values] : scans' = Append(scans, [val |-> v, at |-> now])
  /\ UNCHANGED <<device, repo, stamp, interval, now, sema, reader, killed, taken, lag, mixed>>

Tick ==
  /\ now < MaxTime
  /\ now' = now + 1
  /\ UNCHANGED <<scans, device, repo, stamp, interval, sema, reader, killed, taken, lag, mixed>>

\* The file of hwmon, or the ioctl, which has the semaphore meanwhile.
SetInterval ==
  /\ device = "ready"
  /\ \E v \in Intervals : interval' = Clipped(v) \/ (sema = NoReader /\ interval' = v % 65536)
  /\ UNCHANGED <<scans, device, repo, stamp, now, sema, reader, killed, taken, lag, mixed>>

\* discover_sensors, before there is a reader: all of the repo, an empty one
\* (the card has no sensors of the type), or a failure, and then no hwmon.
Discover ==
  /\ device = "probe"
  /\ \/ repo' = ParseSdr(GetSdr, Cardinality(Sensors)) /\ device' = "found" /\ taken' = now
     \/ repo' = << >> /\ device' = "found" /\ taken' = now
     \/ device' = "error" /\ UNCHANGED <<repo, taken>>
  /\ UNCHANGED <<scans, stamp, interval, now, sema, reader, killed, lag, mixed>>

\* Its stamp, when it is parsed; the files of hwmon are there later.
Discovered ==
  /\ device = "found"
  /\ device' = "ready" /\ stamp' = now /\ lag' = now - taken
  /\ UNCHANGED <<scans, repo, interval, now, sema, reader, killed, taken, mixed>>

(***************************************************************************)
(* A read                                                                  *)
(***************************************************************************)
Step(r, x) == reader' = [reader EXCEPT ![r] = x]
Goto(r, pc) == Step(r, [reader[r] EXCEPT !.pc = pc])

\* The readers that have no semaphore in common.
Races(r) == {q \in Readers \ {r} : r \in Hwmon \/ q \in Hwmon}
Filling(q) == reader[q].pc = "fill"

\* What r would read now may be changed by a fetch, or be of two.
Met(r) == mixed \/ \E q \in Races(r) : Filling(q)

\* A file of a sensor that hwmon shows, or the ioctl for the value of any
\* channel.  The files of the status and of the average show the cache.
Ask(r) ==
  /\ device = "ready" /\ reader[r].pc = "idle" /\ reader[r].reads < MaxReads
  /\ \E x \in Asked[r] :
       /\ r \in Hwmon => HasRecord(x[1])
       /\ Step(r, [reader[r] EXCEPT !.of = x[1], !.attr = x[2], !.reads = @ + 1,
                !.pc = IF r \in Ioctl THEN "down" ELSE IF x[2] \in {"status", "avg"} THEN "get" ELSE "check",
                !.due = MaxTime + 1, !.exempt = Met(r)])
  /\ UNCHANGED <<scans, device, repo, stamp, interval, now, sema, killed, taken, lag, mixed>>

\* down_interruptible of ami_cdev.c, which a signal ends.
SemaIgnored == TRUE   \* mutant
SemaFree == sema = NoReader
Down(r) ==
  /\ reader[r].pc = "down" /\ SemaFree
  /\ sema' = r
  /\ Goto(r, "check")
  /\ UNCHANGED <<scans, device, repo, stamp, interval, now, killed, taken, lag, mixed>>

Interrupted(r) ==
  /\ reader[r].pc = "down" /\ sema # NoReader
  /\ Step(r, [Idle EXCEPT !.reads = reader[r].reads])
  /\ UNCHANGED <<scans, device, repo, stamp, interval, now, sema, killed, taken, lag, mixed>>

\* read_sensors.
StaleLate == now - stamp > interval + 1   \* mutant
Stale == interval = 0 \/ now - stamp > interval
Check(r) ==
  /\ reader[r].pc = "check"
  /\ Step(r, [reader[r] EXCEPT !.pc = IF Stale THEN "wait" ELSE "get", !.fresh = Stale,
              !.since = now, !.due = IF Stale THEN 0 ELSE interval + lag,
              !.exempt = ~ Stale /\ Met(r)])
  /\ UNCHANGED <<scans, device, repo, stamp, interval, now, sema, killed, taken, lag, mixed>>

\* get_all_sensors: the card makes an answer of its latest scan.
Answer(r) ==
  /\ reader[r].pc = "wait"
  /\ Step(r, [reader[r] EXCEPT !.pc = "trip", !.buf = Len(scans), !.at = now])
  /\ UNCHANGED <<scans, device, repo, stamp, interval, now, sema, killed, taken, lag, mixed>>

\* Later the driver has it.
Arrive(r) ==
  /\ reader[r].pc = "trip"
  /\ mixed' = \E q \in Races(r) : Filling(q)
  /\ reader' = [q \in Readers |->
       IF q = r THEN [reader[r] EXCEPT !.pc = "fill", !.pos = 1]
       ELSE [reader[q] EXCEPT !.exempt = @ \/ (q \in Races(r) /\ reader[q].pc \in {"get", "status"})]]
  /\ UNCHANGED <<scans, device, repo, stamp, interval, now, sema, killed, taken, lag>>

\* The command fails, before the card has answered or after: the cache and its
\* stamp stay.
StampNow   == now   \* mutant
StampStays == stamp
Fail(r) ==
  /\ reader[r].pc \in {"wait", "trip"}
  /\ stamp' = StampStays
  /\ Step(r, [reader[r] EXCEPT !.pc = "done", !.buf = 0, !.at = 0])
  /\ UNCHANGED <<scans, device, repo, interval, now, sema, killed, taken, lag, mixed>>

\* The parse of the readings, a store at a time: each field of a record is
\* cleared and copied, the status only copied.
Place(r) == (reader[r].pos - 1) \div 7 + 1
Fill(r) ==
  LET s == (reader[r].pos - 1) % 7
      k == Place(r)
      f == IF s = 6 THEN "status" ELSE Readings[s \div 2 + 1]
      c == [ReadingsOf(k)[s \div 2 + 2] EXCEPT !.scan = reader[r].buf]
  IN
  /\ Filling(r) /\ k \in DOMAIN repo
  /\ repo' = [repo EXCEPT ![Find(k)] = [@ EXCEPT ![f] = IF s \in {0, 2, 4} THEN Zero ELSE c]]
  /\ Step(r, [reader[r] EXCEPT !.pos = @ + 1])
  /\ UNCHANGED <<scans, device, stamp, interval, now, sema, killed, taken, lag, mixed>>

\* The stamp is of now, not of the answer.
Filled(r) ==
  /\ Filling(r) /\ Place(r) \notin DOMAIN repo
  /\ stamp' = now /\ taken' = reader[r].at /\ lag' = now - reader[r].at
  /\ Step(r, [reader[r] EXCEPT !.pc = "get", !.pos = 0, !.buf = 0, !.at = 0, !.exempt = Met(r)])
  /\ UNCHANGED <<scans, device, repo, interval, now, sema, killed, mixed>>

\* read_sensor_val: the value, and the applications are killed if it is
\* critical; the ioctl goes on to the status.
OverAnyLimit(x) == Number(x.value) >= (IF "uc" \in x.mask THEN Number(x.limit["uc"]) ELSE 0)   \* mutant
Over(x) == "uc" \in x.mask /\ Number(x.value) >= Number(x.limit["uc"])
Kill(id, c) == [of |-> id, scan |-> c.scan]
Get(r) ==
  LET x == RecordOf(reader[r].of)  a == reader[r].attr IN
  /\ reader[r].pc = "get"
  /\ Step(r, [reader[r] EXCEPT !.pc = IF r \in Ioctl THEN "status" ELSE "done", !.val = x[a], !.ok = TRUE])
  /\ killed' = killed \cup {c \in {Kill(reader[r].of, x.value)} : a = "value" /\ Over(x)}
  /\ UNCHANGED <<scans, device, repo, stamp, interval, now, sema, taken, lag, mixed>>

GetStatus(r) ==
  /\ reader[r].pc = "status"
  /\ Step(r, [reader[r] EXCEPT !.pc = "done", !.status = RecordOf(reader[r].of).status])
  /\ UNCHANGED <<scans, device, repo, stamp, interval, now, sema, killed, taken, lag, mixed>>

\* The end of the ioctl, or of the callback.
UpOnSuccess(r) == sema' = IF sema = r /\ reader[r].ok THEN NoReader ELSE sema   \* mutant
Up(r) == sema' = IF sema = r THEN NoReader ELSE sema
Return(r) ==
  /\ reader[r].pc = "done"
  /\ Up(r)
  /\ Step(r, [Idle EXCEPT !.reads = reader[r].reads])
  /\ UNCHANGED <<scans, device, repo, stamp, interval, now, killed, taken, lag, mixed>>

Ends(r) ==
  \/ Down(r) \/ Check(r) \/ Answer(r) \/ Arrive(r) \/ Fail(r) \/ Fill(r) \/ Filled(r)
  \/ Get(r) \/ GetStatus(r) \/ Return(r)

Next ==
  \/ Scan \/ Tick \/ SetInterval \/ Discover \/ Discovered
  \/ \E r \in Readers : Ask(r) \/ Interrupted(r) \/ Ends(r)

Spec == Init /\ [][Next]_vars

\* A process in the driver runs on; a command is answered or times out
\* (AmiCommand); the semaphore is given to the process that waits longest.
FairSpec == Spec /\ \A r \in Readers : WF_vars(Ends(r))
=============================================================================
