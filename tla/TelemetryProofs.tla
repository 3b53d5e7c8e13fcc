---------------------------- MODULE TelemetryProofs -----------------------------
(***************************************************************************)
(* Proofs about the telemetry of the AMC: the types and the averages, what *)
(* the host is answered, and what the health of the card covers.           *)
(***************************************************************************)
EXTENDS TelemetryProps, FiniteSetTheorems, WellFoundedInduction, TLAPS

-----------------------------------------------------------------------------
(* Numbers.                                                                 *)

\* A nonempty set of numbers has a least member.
LEMMA NatMin ==
  ASSUME NEW T, T \subseteq Nat, T # {}
  PROVE  \E n \in T : \A m \in T : n <= m
<1> DEFINE R == {ss \in Nat \X Nat : ss[1] < ss[2]}
<1>1. IsWellFoundedOn(R, Nat)
  BY NatLessThanWellFounded DEF OpToRel
<1>2. \A x, y \in Nat : y < x => <<y, x>> \in R
  BY DEF R
<1> HIDE DEF R
<1>3. PICK n \in T : \A y \in T : ~ (<<y, n>> \in R)
  BY <1>1, WFMin
<1>4. \A m \in T : ~ (m < n)
  BY <1>2, <1>3
<1>5. \A m \in T : n <= m
  BY <1>4
<1> QED BY <1>3, <1>5

\* The greatest and the least of a set, and of two numbers.
LEMMA MaxIs ==
  ASSUME NEW S, S \subseteq Int, NEW m \in S, \A y \in S : m >= y
  PROVE  Max(S) = m
<1>1. Max(S) \in S /\ \A y \in S : Max(S) >= y
  BY DEF Max
<1>2. Max(S) >= m /\ m >= Max(S) /\ Max(S) \in Int /\ m \in Int
  BY <1>1
<1> QED BY <1>2

\* The same of the least.
LEMMA MinIs ==
  ASSUME NEW S, S \subseteq Int, NEW m \in S, \A y \in S : m <= y
  PROVE  Min(S) = m
<1>1. Min(S) \in S /\ \A y \in S : Min(S) <= y
  BY DEF Min
<1>2. Min(S) <= m /\ m <= Min(S) /\ Min(S) \in Int /\ m \in Int
  BY <1>1
<1> QED BY <1>2

\* The greater and the lesser of two.
LEMMA OfTwo ==
  ASSUME NEW a \in Int, NEW b \in Int
  PROVE  /\ Max({a, b}) = IF a >= b THEN a ELSE b
         /\ Min({a, b}) = IF a <= b THEN a ELSE b
<1>1. CASE a >= b
  <2>1. Max({a, b}) = a
    BY <1>1, MaxIs
  <2>2. CASE a = b
    BY <2>1, <2>2, MinIs
  <2>3. CASE a # b
    <3>1. Min({a, b}) = b
      BY <1>1, MinIs
    <3> QED BY <1>1, <2>1, <2>3, <3>1
  <2> QED BY <2>2, <2>3
<1>2. CASE ~ (a >= b)
  <2>1. Max({a, b}) = b /\ Min({a, b}) = a
    BY <1>2, MaxIs, MinIs
  <2> QED BY <1>2, <2>1
<1> QED BY <1>1, <1>2

\* A finite set of numbers that has a member has a greatest one.
LEMMA HasMax ==
  ASSUME NEW S, IsFiniteSet(S), S \subseteq Nat, S # {}
  PROVE  \E m \in S : \A y \in S : m >= y
<1> DEFINE Has(s) == \E m \in s : \A y \in s : m >= y
           F == {s \in SUBSET S : s # {} /\ ~ Has(s)}
           C == {Cardinality(s) : s \in F}
<1>1. SUFFICES ASSUME ~ Has(S) PROVE FALSE
  OBVIOUS
<1>2. \A s \in SUBSET S : IsFiniteSet(s) /\ Cardinality(s) \in Nat
  BY FS_Subset, FS_CardinalityType
<1>3. C \subseteq Nat /\ C # {}
  <2>1. S \in F
    BY <1>1
  <2> QED BY <1>2, <2>1
<1> HIDE DEF C
<1>4. PICK n \in C : \A m \in C : n <= m
  BY <1>3, NatMin
<1>5. PICK s \in F : n = Cardinality(s)
  BY <1>4 DEF C
<1>6. PICK x \in s : TRUE
  BY <1>5
<1> DEFINE t == s \ {x}
<1>7. t \in SUBSET S /\ Cardinality(t) = n - 1 /\ n \in Nat
  BY <1>2, <1>5, FS_RemoveElement
<1>8. t \notin F
  <2>1. Cardinality(t) \in C => n <= Cardinality(t)
    BY <1>4
  <2> HIDE DEF t, F
  <2>2. t \in F => Cardinality(t) \in C
    BY DEF C
  <2> QED BY <1>7, <2>1, <2>2
<1>9. CASE t = {}
  <2>1. s = {x} /\ x \in Nat
    BY <1>5, <1>9
  <2>2. Has(s)
    BY <2>1
  <2> QED BY <1>5, <2>2
<1>10. CASE t # {}
  <2>1. PICK m \in t : \A y \in t : m >= y
    BY <1>7, <1>8, <1>10
  <2>2. m \in Nat /\ x \in Nat /\ \A y \in s : y = x \/ y \in t
    BY <1>5, <1>6
  <2>3. \A y \in s : y \in Nat
    BY <1>5
  <2>4. CASE m >= x
    <3>1. m \in s /\ \A y \in s : m >= y
      BY <2>1, <2>2, <2>4
    <3> QED BY <1>5, <3>1
  <2>5. CASE ~ (m >= x)
    <3>1. x \in s /\ \A y \in s : x >= y
      <4>1. \A y \in s : y = x \/ m >= y
        BY <2>1, <2>2
      <4> QED BY <1>6, <2>2, <2>3, <2>5, <4>1
    <3> QED BY <1>5, <3>1
  <2> QED BY <2>4, <2>5
<1> QED BY <1>9, <1>10

\* What a division gives, and a multiple of a step more.
LEMMA Quotient ==
  ASSUME NEW a \in Nat, NEW n \in Nat \ {0}
  PROVE  a \div n \in 0 .. a /\ n * (a \div n) <= a /\ a < n * (a \div n) + n
OBVIOUS

\* A multiple is no less.
LEMMA Multiple ==
  ASSUME NEW n \in Nat \ {0}, NEW x \in Nat
  PROVE  x <= n * x
OBVIOUS

\* The running average stays within what it averages (iGetSensorData of the
\* ASC and iCalculateTotalPower), although each of its divisions rounds.
LEMMA AverageWithin ==
  ASSUME NEW a \in Nat, NEW v \in Nat, NEW h \in Nat, a <= h, v <= h, NEW n \in Nat \ {0}
  PROVE  Averaged(a, v, n) \in 0 .. h
<1> DEFINE p == a \div n
           q == v \div n
           r == h \div n
<1>1. /\ p \in 0 .. a /\ n * p <= a /\ a < n * p + n
      /\ q \in Nat /\ n * q <= v
      /\ r \in Nat /\ n * r <= h /\ h < n * r + n
  BY Quotient
<1>2. Averaged(a, v, n) = a - p + q
  BY DEF Averaged
<1> HIDE DEF p, q, r
<1>3. q <= r
  <2>1. CASE r < q
    <3>1. PICK d \in Nat : d = q - r - 1
      BY <1>1, <2>1
    <3>2. d <= n * d /\ n * d = n * q - n * r - n
      BY <1>1, <3>1, Multiple
    <3>3. n * q \in Nat /\ n * r \in Nat /\ n * d \in Nat
      BY <1>1, <3>1
    <3> QED BY <1>1, <3>1, <3>2, <3>3
  <2> QED BY <1>1, <2>1
<1>4. r - p <= h - a
  <2>1. CASE r > p
    <3>1. PICK d \in Nat : d = r - p - 1
      BY <1>1, <2>1
    <3>2. d <= n * d /\ n * d = n * r - n * p - n
      BY <1>1, <3>1, Multiple
    <3>3. n * p \in Nat /\ n * r \in Nat /\ n * d \in Nat
      BY <1>1, <3>1
    <3>4. n * d < h - a
      BY <1>1, <3>2, <3>3
    <3> QED BY <1>1, <3>1, <3>2, <3>3, <3>4
  <2> QED BY <1>1, <2>1
<1> QED BY <1>1, <1>2, <1>3, <1>4

\* The recursion by which a sum over a set is defined, on the sets of up to n.
Summand(x, f, s) == IF s = {} THEN 0 ELSE LET z == CHOOSE z \in s : TRUE IN x[z].value + f[s \ {z}]
Small(n) == {s \in SUBSET Sensors : Cardinality(s) <= n}
Sums(x, f, n) == f = [s \in Small(n) |-> Summand(x, f, s)]

\* What is taken from a set, and how many are left of it.
LEMMA TakenFrom ==
  ASSUME NEW s \in SUBSET Sensors, s # {}
  PROVE  /\ (CHOOSE z \in s : TRUE) \in s
         /\ s \ {CHOOSE z \in s : TRUE} \in SUBSET Sensors
         /\ Cardinality(s) \in Nat \ {0}
         /\ Cardinality(s \ {CHOOSE z \in s : TRUE}) = Cardinality(s) - 1
<1> DEFINE z == CHOOSE y \in s : TRUE
<1>1. z \in s
  OBVIOUS
<1> HIDE DEF z
<1>2. IsFiniteSet(s)
  BY TelemetryAssumption, FS_Subset
<1>3. Cardinality(s \ {z}) = Cardinality(s) - 1 /\ Cardinality(s) \in Nat /\ Cardinality(s \ {z}) \in Nat
  BY <1>1, <1>2, FS_RemoveElement, FS_CardinalityType, FS_Subset
<1>4. Cardinality(s) # 0
  BY <1>3
<1>5. s \ {z} \in SUBSET Sensors
  OBVIOUS
<1> QED BY <1>1, <1>3, <1>4, <1>5 DEF z

\* It has a solution, built on the sets of up to n + 1 from that on those of up to n.
LEMMA SumExists ==
  ASSUME NEW x, NEW n \in Nat
  PROVE  \E f : Sums(x, f, n)
<1> DEFINE U == {m \in Nat : ~ \E f : Sums(x, f, m)}
<1>1. SUFFICES ASSUME U # {} PROVE FALSE
  OBVIOUS
<1>2. PICK m \in U : \A k \in U : m <= k
  BY <1>1, NatMin
<1>3. CASE m = 0
  <2> DEFINE g == [s \in Small(0) |-> 0]
  <2>1. \A s \in Small(0) : s = {}
    <3> SUFFICES ASSUME NEW s \in SUBSET Sensors, Cardinality(s) <= 0, s # {} PROVE FALSE
      BY DEF Small
    <3>1. Cardinality(s) \in Nat \ {0}
      BY TakenFrom
    <3> QED BY <3>1
  <2>2. Sums(x, g, 0)
    BY <2>1 DEF Sums, Summand
  <2> QED BY <1>2, <1>3, <2>2
<1>4. CASE m # 0
  <2>1. m - 1 \in Nat /\ m - 1 \notin U
    BY <1>2, <1>4
  <2>2. PICK f : Sums(x, f, m - 1)
    BY <2>1
  <2> DEFINE g == [s \in Small(m) |-> Summand(x, f, s)]
  <2>3. \A s \in Small(m) : Summand(x, g, s) = Summand(x, f, s)
    <3> SUFFICES ASSUME NEW s \in Small(m) PROVE Summand(x, g, s) = Summand(x, f, s)
      OBVIOUS
    <3>1. CASE s = {}
      BY <3>1 DEF Summand
    <3>2. CASE s # {}
      <4> DEFINE t == s \ {CHOOSE z \in s : TRUE}
      <4>1. t \in Small(m - 1) /\ t \in Small(m)
        BY <1>2, <3>2, TakenFrom DEF Small
      <4> HIDE DEF t
      <4>2. g[t] = Summand(x, f, t) /\ f[t] = Summand(x, f, t)
        BY <2>2, <4>1 DEF Sums
      <4> QED BY <3>2, <4>2 DEF Summand, t
    <3> QED BY <3>1, <3>2
  <2>4. Sums(x, g, m)
    BY <2>3 DEF Sums
  <2> QED BY <1>2, <2>4
<1> QED BY <1>3, <1>4

\* A sum of values is within as many times the highest.
LEMMA SumWithin ==
  ASSUME NEW x, NEW h \in Nat, \A i \in Sensors : x[i].value \in 0 .. h
  PROVE  Sum(x) \in 0 .. Cardinality(Sensors) * h
<1> DEFINE V == Sensors
           Solves(f) == f = [s \in SUBSET V |-> Summand(x, f, s)]
           f == CHOOSE f : Solves(f)
           Within(s) == f[s] \in 0 .. Cardinality(s) * h
<1>1. Cardinality(V) \in Nat /\ \A s \in SUBSET V : Cardinality(s) \in Nat /\ Cardinality(s) <= Cardinality(V)
  BY TelemetryAssumption, FS_Subset, FS_CardinalityType
<1>2. Small(Cardinality(V)) = SUBSET V
  BY <1>1 DEF Small
<1>3. \E g : Solves(g)
  <2>1. PICK g : Sums(x, g, Cardinality(V))
    BY <1>1, SumExists
  <2>2. g = [s \in SUBSET V |-> Summand(x, g, s)]
    BY <1>2, <2>1 DEF Sums
  <2> HIDE DEF V
  <2> QED BY <2>2
<1>4. Sum(x) = f[V]
  BY DEF Sum, MapThenSumSet, MapThenFoldSet, Summand
<1>5. f = [s \in SUBSET V |-> Summand(x, f, s)]
  BY <1>3
<1> HIDE DEF f, Solves
<1>6. \A s \in SUBSET V : Within(s)
  <2> DEFINE C == {Cardinality(s) : s \in {s \in SUBSET V : ~ Within(s)}}
  <2>1. SUFFICES ASSUME NEW s0 \in SUBSET V, ~ Within(s0) PROVE FALSE
    OBVIOUS
  <2>2. C \subseteq Nat /\ Cardinality(s0) \in C
    BY <1>1, <2>1
  <2>3. \A s \in SUBSET V : ~ Within(s) => Cardinality(s) \in C
    OBVIOUS
  <2>4. \A c \in C : \E s \in SUBSET V : c = Cardinality(s) /\ ~ Within(s)
    OBVIOUS
  <2> HIDE DEF C
  <2>5. PICK c \in C : \A k \in C : c <= k
    BY <2>2, NatMin
  <2>6. PICK s \in SUBSET V : c = Cardinality(s) /\ ~ Within(s)
    BY <2>4
  <2>7. CASE s = {}
    <3>1. f[s] = 0 /\ c \in Nat
      BY <1>5, <2>2, <2>7 DEF Summand
    <3>2. c * h \in Nat
      BY <3>1
    <3> QED BY <2>6, <3>1, <3>2
  <2>8. CASE s # {}
    <3> DEFINE z == CHOOSE y \in s : TRUE
               t == s \ {z}
    <3>1. z \in V /\ t \in SUBSET V /\ c \in Nat \ {0} /\ Cardinality(t) = c - 1
      BY <2>6, <2>8, TakenFrom
    <3>2. f[s] = x[z].value + f[t]
      BY <1>5, <2>8 DEF Summand
    <3> HIDE DEF z, t
    <3>3. Cardinality(t) \notin C
      BY <2>5, <3>1
    <3>4. f[t] \in 0 .. (c - 1) * h /\ x[z].value \in 0 .. h
      BY <2>3, <3>1, <3>3
    <3>5. (c - 1) * h + h = c * h
      BY <3>1
    <3>6. (c - 1) * h \in Nat /\ c * h \in Nat
      BY <3>1
    <3>7. f[s] \in 0 .. c * h
      BY <3>2, <3>4, <3>5, <3>6
    <3> QED BY <2>6, <3>7
  <2> QED BY <2>7, <2>8
<1>7. V \in SUBSET V
  OBVIOUS
<1> QED BY <1>4, <1>6, <1>7

-----------------------------------------------------------------------------
(* Values and limits.                                                       *)

\* The highest value that a sensor may read.
LEMMA HighestIs ==
  /\ Highest \in Nat /\ Values \subseteq 0 .. Highest
  /\ Cardinality(Sensors) \in Nat \ {0} /\ Cardinality(Sensors) * Highest \in Nat
<1>1. IsFiniteSet(Values \cup {0})
  BY TelemetryAssumption, FS_AddElement
<1>2. Values \cup {0} \subseteq Nat /\ Values \cup {0} # {}
  BY TelemetryAssumption
<1> DEFINE S == Values \cup {0}
<1>3. S \subseteq Nat /\ S # {} /\ IsFiniteSet(S)
  BY <1>1, <1>2
<1>4. Highest = Max(S)
  BY DEF Highest
<1>5. \A v \in Values : v \in S
  OBVIOUS
<1> HIDE DEF S
<1>6. PICK m \in S : \A y \in S : m >= y
  BY <1>3, HasMax
<1>7. Highest = m
  <2>1. S \subseteq Int
    BY <1>3
  <2>2. Max(S) = m
    BY <1>6, <2>1, MaxIs
  <2> QED BY <1>4, <2>2
<1>8. Highest \in Nat /\ Values \subseteq 0 .. Highest
  <2>1. m \in Nat /\ \A v \in Values : v \in Nat /\ m >= v
    BY <1>3, <1>5, <1>6
  <2> QED BY <1>7, <2>1
<1>9. Cardinality(Sensors) \in Nat /\ Cardinality(Sensors) # 0
  BY TelemetryAssumption, FS_CardinalityType, FS_EmptySet
<1>10. Cardinality(Sensors) * Highest \in Nat
  BY <1>8, <1>9
<1> QED BY <1>8, <1>9, <1>10

\* The level of a value is at least that of each limit that it reaches.
LEMMA LevelIs ==
  ASSUME NEW v \in Nat
  PROVE  Level(v) \in 0 .. 3 /\ \A l \in DOMAIN Limits : v >= Limits[l] => l <= Level(v) /\ 0 < Level(v)
<1>1. Reached(v) \subseteq 1 .. 3
  BY TelemetryAssumption DEF Reached, Levels
<1>2. \A l \in DOMAIN Limits : v >= Limits[l] <=> l \in Reached(v)
  BY DEF Reached
<1>3. CASE Reached(v) = {}
  <2>1. Level(v) = 0
    BY <1>3 DEF Level
  <2> QED BY <1>2, <1>3, <2>1
<1>4. CASE Reached(v) # {}
  <2>1. IsFiniteSet(1 .. 3)
    <3>1. 1 \in Int /\ 3 \in Int
      OBVIOUS
    <3> QED BY <3>1, FS_Interval, Zenon
  <2>2. IsFiniteSet(Reached(v)) /\ Reached(v) \subseteq Nat
    BY <1>1, <2>1, FS_Subset
  <2>3. PICK m \in Reached(v) : \A y \in Reached(v) : m >= y
    BY <1>4, <2>2, HasMax
  <2>4. Max(Reached(v)) = m
    BY <2>2, <2>3, MaxIs
  <2>5. Level(v) = m
    BY <1>4, <2>4 DEF Level
  <2> QED BY <1>1, <1>2, <2>3, <2>5
<1> QED BY <1>3, <1>4

-----------------------------------------------------------------------------
(* What each step changes.                                                  *)

\* The actions that change each variable.
healthVars == <<health, current, compared, excused>>
LEMMA Frames ==
  ASSUME [Next]_vars
  PROVE  /\ UNCHANGED <<readings, count>> \/ ScanSensor
         /\ UNCHANGED scans \/ ScanStart
         /\ UNCHANGED threshold \/ BimThreshold
         /\ UNCHANGED copy \/ AsdmOne \/ AsdmAll
         /\ UNCHANGED sdr \/ AsdmUpdate
         /\ UNCHANGED <<total, shown>> \/ AsdmTotal
         /\ UNCHANGED <<fpt, spoiled>> \/ ApcTable
         /\ UNCHANGED fetched \/ FetchTake \/ Fetch
         /\ UNCHANGED record \/ FetchEnd
         /\ UNCHANGED healthVars \/ \E t \in Modules : Judge(t) \/ SetTimeout(t) \/ SetHealth(t)
         /\ UNCHANGED raiseVars \/ ApcEvent \/ ApcTable
         /\ UNCHANGED boot
         /\ waiting' \in BOOLEAN \/ UNCHANGED waiting
<1>1. CASE UNCHANGED vars
  BY <1>1 DEF vars, ascVars, asdmVars, fptVars, bimVars, raiseVars, healthVars
<1>2. CASE ScanStart \/ ScanEnd \/ Raise \/ AsdmTake \/ HostAsk \/ HostEnds
  BY <1>2 DEF ScanStart, ScanEnd, Raise, AsdmTake, HostAsk, HostEnds, HostAnswer, HostTimeout,
              ascVars, asdmVars, fptVars, bimVars, raiseVars, healthVars
<1>3. CASE ScanSensor \/ AsdmOne \/ BimThreshold
  BY <1>3 DEF ScanSensor, AsdmOne, BimThreshold, ascVars, asdmVars, fptVars, bimVars, raiseVars, healthVars
<1>4. CASE AsdmAll \/ AsdmUpdate \/ AsdmTotal
  BY <1>4 DEF AsdmAll, AsdmUpdate, AsdmTotal, ascVars, asdmVars, fptVars, bimVars, raiseVars, healthVars
<1>5. CASE FetchTake \/ Fetch \/ FetchEnd
  BY <1>5 DEF FetchTake, Fetch, FetchEnd, ascVars, asdmVars, fptVars, bimVars, raiseVars, healthVars
<1>6. CASE ApcEvent \/ ApcTable
  BY <1>6 DEF ApcEvent, ApcTable, ApcOp, ascVars, asdmVars, fptVars, bimVars, raiseVars, healthVars
<1>7. ASSUME NEW t \in Modules, Bim(t)
      PROVE  /\ UNCHANGED <<ascVars, asdmVars, fptVars, raiseVars, boot, waiting>>
             /\ UNCHANGED healthVars \/ Judge(t) \/ SetTimeout(t) \/ SetHealth(t)
  BY <1>7 DEF Bim, Judge, SetTake, SetTimeout, SetHealth, bimVars, raiseVars, healthVars
<1>8. CASE Bim("asc") \/ Bim("apc")
  <2>1. PICK t \in Modules : Bim(t)
    BY <1>8 DEF Modules
  <2> QED BY <1>7, <2>1 DEF healthVars, raiseVars, ascVars, asdmVars, fptVars
<1> QED BY <1>1, <1>2, <1>3, <1>4, <1>5, <1>6, <1>8 DEF Next, Asc, ApcHandles

\* A task that moves leaves the others where they are.
Is(x, pc, i, ev) == x.pc = pc /\ x.i = i /\ x.ev = ev
Moves(t) == task' \in [Modules -> Task] /\ \A m \in Modules \ {t} : task'[m] = task[m]
LEMMA Moved ==
  ASSUME task \in [Modules -> Task], NEW t \in Modules, NEW r \in Task,
         task' = [task EXCEPT ![t] = r]
  PROVE  Moves(t) /\ task'[t] = r
BY DEF Moves

LEMMA Going ==
  ASSUME task \in [Modules -> Task], NEW t \in Modules, NEW pc \in AscPcs \cup ApcPcs, Goto(t, pc)
  PROVE  Moves(t) /\ Is(task'[t], pc, task[t].i, task[t].ev)
<1>1. PICK r : r = [task[t] EXCEPT !.pc = pc]
  OBVIOUS
<1>2. task[t] \in Task
  OBVIOUS
<1>3. r \in Task /\ Is(r, pc, task[t].i, task[t].ev)
  BY <1>1, <1>2 DEF Task, Is
<1>4. task' = [task EXCEPT ![t] = r]
  BY <1>1 DEF Goto
<1> QED BY <1>3, <1>4, Moved

\* A record of a task is one of its three fields.
At(pc, i, ev) == [pc |-> pc, i |-> i, ev |-> ev]
LEMMA AtIs ==
  ASSUME NEW pc \in AscPcs \cup ApcPcs, NEW i \in 0 .. Cardinality(Sensors) + 1, NEW ev \in 0 .. 3
  PROVE  At(pc, i, ev) \in Task /\ Is(At(pc, i, ev), pc, i, ev)
BY DEF At, Task, Is

LEMMA Starting ==
  ASSUME task \in [Modules -> Task], NEW t \in Modules, NEW pc \in AscPcs \cup ApcPcs,
         NEW i \in 0 .. Cardinality(Sensors) + 1, NEW ev \in 0 .. 3,
         task' = [task EXCEPT ![t] = At(pc, i, ev)]
  PROVE  Moves(t) /\ Is(task'[t], pc, i, ev)
BY AtIs, Moved

\* Where an event that has been handled leaves its task.
Back(t) ==
  LET x == task[t] IN
  IF t = "apc" THEN Is(task'[t], "idle", 0, 0)
  ELSE IF x.ev = 0 THEN Is(task'[t], "sleep", 0, 0)
  ELSE Is(task'[t], "raise", x.i + 1, 0)
LEMMA ComingBack ==
  ASSUME TaskInv, NEW t \in Modules, task[t].pc \in {"judge", "lock", "set"},
         task' = [task EXCEPT ![t] = Returned(t)]
  PROVE  Moves(t) /\ Back(t)
<1>1. task \in [Modules -> Task] /\ task[t] \in Task
  BY DEF TaskInv
<1>2. CASE t = "apc"
  <2>1. Returned(t) = At("idle", 0, 0)
    BY <1>2 DEF Returned, At
  <2>2. "idle" \in AscPcs \cup ApcPcs /\ 0 \in 0 .. Cardinality(Sensors) + 1 /\ 0 \in 0 .. 3
    BY HighestIs DEF AscPcs, ApcPcs
  <2>3. Moves(t) /\ Is(task'[t], "idle", 0, 0)
    BY <1>1, <2>1, <2>2, Starting
  <2> QED BY <1>2, <2>3 DEF Back
<1>3. CASE t # "apc" /\ task[t].ev = 0
  <2>1. Returned(t) = At("sleep", 0, 0)
    BY <1>3 DEF Returned, At
  <2>2. "sleep" \in AscPcs \cup ApcPcs /\ 0 \in 0 .. Cardinality(Sensors) + 1 /\ 0 \in 0 .. 3
    BY HighestIs DEF AscPcs, ApcPcs
  <2>3. Moves(t) /\ Is(task'[t], "sleep", 0, 0)
    BY <1>1, <2>1, <2>2, Starting
  <2> QED BY <1>3, <2>3 DEF Back
<1>4. CASE t # "apc" /\ task[t].ev # 0
  <2>1. Returned(t) = At("raise", task[t].i + 1, 0)
    BY <1>4 DEF Returned, At
  <2>2. t = "asc"
    BY <1>4 DEF Modules
  <2>3. task["asc"].i \in Sensors /\ Sensors = 1 .. Cardinality(Sensors)
    BY <1>4, <2>2, TelemetryAssumption DEF TaskInv, Handling
  <2>4. task[t].i + 1 \in 0 .. Cardinality(Sensors) + 1
    BY <2>2, <2>3, HighestIs
  <2>5. "raise" \in AscPcs \cup ApcPcs /\ 0 \in 0 .. 3
    BY DEF AscPcs
  <2>6. Moves(t) /\ Is(task'[t], "raise", task[t].i + 1, 0)
    BY <1>1, <2>1, <2>4, <2>5, Starting
  <2> QED BY <1>4, <2>6 DEF Back
<1> QED BY <1>2, <1>3, <1>4

\* The moves of a task whose event the BIM judges.
LEMMA BimMoves ==
  ASSUME TaskInv, NEW t \in Modules, Bim(t)
  PROVE  LET x == task[t] y == task'[t] IN
         /\ Moves(t)
         /\ \/ Judge(t) /\ x.pc = "judge" /\ (Is(y, "lock", x.i, x.ev) \/ Back(t))
            \/ SetTake(t) /\ x.pc = "lock" /\ Is(y, "set", x.i, x.ev)
            \/ SetTimeout(t) /\ x.pc = "lock" /\ Back(t)
            \/ SetHealth(t) /\ x.pc = "set" /\ Back(t)
<1>1. task \in [Modules -> Task] /\ {"lock", "set"} \subseteq AscPcs \cup ApcPcs
  BY DEF TaskInv, AscPcs
<1>2. CASE Judge(t)
  <2>1. task[t].pc = "judge" /\ (Goto(t, "lock") \/ task' = [task EXCEPT ![t] = Returned(t)])
    BY <1>2 DEF Judge
  <2>2. CASE Goto(t, "lock")
    BY <1>1, <1>2, <2>1, <2>2, Going
  <2>3. CASE task' = [task EXCEPT ![t] = Returned(t)]
    BY <1>2, <2>1, <2>3, ComingBack
  <2> QED BY <2>1, <2>2, <2>3
<1>3. CASE SetTake(t)
  <2>1. task[t].pc = "lock" /\ Goto(t, "set")
    BY <1>3 DEF SetTake
  <2> QED BY <1>1, <1>3, <2>1, Going
<1>4. CASE SetTimeout(t)
  <2>1. task[t].pc = "lock" /\ task' = [task EXCEPT ![t] = Returned(t)]
    BY <1>4 DEF SetTimeout
  <2> QED BY <1>4, <2>1, ComingBack
<1>5. CASE SetHealth(t)
  <2>1. task[t].pc = "set" /\ task' = [task EXCEPT ![t] = Returned(t)]
    BY <1>5 DEF SetHealth
  <2> QED BY <1>5, <2>1, ComingBack
<1> QED BY <1>2, <1>3, <1>4, <1>5 DEF Bim

\* The moves of the ASC task.
LEMMA AscMoves ==
  ASSUME TaskInv, TypeOK,
         \/ ScanStart \/ ScanSensor \/ ScanEnd \/ Raise \/ AsdmOne \/ BimThreshold
         \/ AsdmAll \/ AsdmTake \/ AsdmUpdate \/ AsdmTotal
  PROVE  LET x == task["asc"] y == task'["asc"] IN
         /\ Moves("asc")
         /\ \/ ScanStart /\ x.pc = "sleep" /\ Is(y, "scan", 1, 0)
            \/ ScanSensor /\ x.pc = "scan" /\ x.i \in Sensors /\ Is(y, "scan", x.i + 1, x.ev)
            \/ ScanEnd /\ x.pc = "scan" /\ x.i \notin Sensors /\ Is(y, "raise", 1, 0)
            \/ /\ Raise /\ x.pc = "raise" /\ x.i \in Sensors
               /\ IF Level(readings[x.i].value) = 0 THEN Is(y, "raise", x.i + 1, x.ev)
                  ELSE Is(y, "one", x.i, Level(readings[x.i].value))
            \/ AsdmOne /\ x.pc = "one" /\ Is(y, "threshold", x.i, x.ev)
            \/ BimThreshold /\ x.pc = "threshold" /\ Is(y, "judge", x.i, x.ev)
            \/ AsdmAll /\ x.pc = "raise" /\ x.i \notin Sensors /\ Is(y, "take", x.i, x.ev)
            \/ AsdmTake /\ x.pc = "take" /\ Is(y, "update", 1, 0)
            \/ AsdmUpdate /\ x.pc = "update" /\ x.i \in Sensors /\ Is(y, "update", x.i + 1, x.ev)
            \/ AsdmTotal /\ x.pc = "update" /\ x.i \notin Sensors /\ Is(y, "judge", x.i, x.ev)
<1> DEFINE x == task["asc"]
           N == Cardinality(Sensors)
<1>1. task \in [Modules -> Task] /\ x \in Task /\ "asc" \in Modules /\ AscPcs \subseteq AscPcs \cup ApcPcs
  BY DEF TaskInv, Modules
<1>2. {"scan", "raise", "one", "threshold", "take", "update", "judge"} \subseteq AscPcs \cup ApcPcs
  BY DEF AscPcs
<1>3. 1 \in 0 .. N + 1 /\ 0 \in 0 .. 3 /\ \A i \in Sensors : i \in 0 .. N + 1 /\ i + 1 \in 0 .. N + 1
  BY HighestIs, TelemetryAssumption
<1>4. x.i \in 0 .. N + 1 /\ x.ev \in 0 .. 3 /\ x.pc \in AscPcs \cup ApcPcs
  BY <1>1 DEF Task
<1>5. \A i \in Sensors : x.i = i => [x EXCEPT !.i = i + 1] = At(x.pc, i + 1, x.ev)
  BY <1>1 DEF Task, At
<1>6. CASE ScanStart
  <2>1. x.pc = "sleep" /\ task' = [task EXCEPT !["asc"] = At("scan", 1, 0)]
    BY <1>6 DEF ScanStart, At
  <2> QED BY <1>1, <1>2, <1>3, <1>6, <2>1, Starting
<1>7. CASE ScanSensor \/ AsdmUpdate
  <2>1. x.i \in Sensors /\ task' = [task EXCEPT !["asc"] = [x EXCEPT !.i = x.i + 1]]
    BY <1>7 DEF ScanSensor, AsdmUpdate
  <2>2. PICK i \in Sensors : i = x.i
    BY <2>1
  <2>3. task' = [task EXCEPT !["asc"] = At(x.pc, i + 1, x.ev)]
    BY <1>5, <2>1, <2>2
  <2>4. Moves("asc") /\ Is(task'["asc"], x.pc, i + 1, x.ev)
    BY <1>1, <1>3, <1>4, <2>3, Starting
  <2> QED BY <1>7, <2>1, <2>2, <2>4 DEF ScanSensor, AsdmUpdate
<1>8. CASE ScanEnd
  <2>1. x.pc = "scan" /\ x.i \notin Sensors /\ task' = [task EXCEPT !["asc"] = At("raise", 1, 0)]
    BY <1>8 DEF ScanEnd, At
  <2> QED BY <1>1, <1>2, <1>3, <1>8, <2>1, Starting
<1>9. CASE Raise
  <2>1. PICK i \in Sensors : i = x.i
    BY <1>9 DEF Raise
  <2>2. PICK l : l = Level(readings[i].value)
    OBVIOUS
  <2>3. l \in 0 .. 3
    BY <2>2, LevelIs, HighestIs DEF TypeOK, Readings
  <2>4. x.pc = "raise"
    BY <1>9 DEF Raise
  <2>5. task' = [task EXCEPT !["asc"] = IF l = 0 THEN At(x.pc, i + 1, x.ev) ELSE At("one", i, l)]
    <3>1. task' = [task EXCEPT !["asc"] = IF l = 0 THEN [x EXCEPT !.i = i + 1] ELSE At("one", i, l)]
      BY <1>9, <2>1, <2>2 DEF Raise, At
    <3> QED BY <1>5, <2>1, <3>1
  <2>6. CASE l = 0
    <3>1. task' = [task EXCEPT !["asc"] = At(x.pc, i + 1, x.ev)]
      BY <2>5, <2>6
    <3>2. Moves("asc") /\ Is(task'["asc"], x.pc, i + 1, x.ev)
      BY <1>1, <1>3, <1>4, <3>1, Starting
    <3> QED BY <1>9, <2>1, <2>2, <2>4, <2>6, <3>2
  <2>7. CASE l # 0
    <3>1. task' = [task EXCEPT !["asc"] = At("one", i, l)]
      BY <2>5, <2>7
    <3>2. Moves("asc") /\ Is(task'["asc"], "one", i, l)
      BY <1>1, <1>2, <1>3, <2>3, <3>1, Starting
    <3> QED BY <1>9, <2>1, <2>2, <2>4, <2>7, <3>2
  <2> QED BY <2>6, <2>7
<1>10. CASE AsdmOne \/ BimThreshold \/ AsdmAll \/ AsdmTotal
  <2>1. \/ AsdmOne /\ x.pc = "one" /\ Goto("asc", "threshold")
        \/ BimThreshold /\ x.pc = "threshold" /\ Goto("asc", "judge")
        \/ AsdmAll /\ x.pc = "raise" /\ x.i \notin Sensors /\ Goto("asc", "take")
        \/ AsdmTotal /\ x.pc = "update" /\ x.i \notin Sensors /\ Goto("asc", "judge")
    BY <1>10 DEF AsdmOne, BimThreshold, AsdmAll, AsdmTotal
  <2>2. \A pc \in {"threshold", "take", "judge"} :
          Goto("asc", pc) => Moves("asc") /\ Is(task'["asc"], pc, x.i, x.ev)
    BY <1>1, <1>2, Going
  <2> QED BY <2>1, <2>2
<1>11. CASE AsdmTake
  <2>1. x.pc = "take" /\ task' = [task EXCEPT !["asc"] = At("update", 1, 0)]
    BY <1>11 DEF AsdmTake, At
  <2> QED BY <1>1, <1>2, <1>3, <1>11, <2>1, Starting
<1> QED BY <1>6, <1>7, <1>8, <1>9, <1>10, <1>11

\* An event of the APC is healthy or critical, and of one entry when it is
\* numbered before that of a new table.
LEMMA StatusIs ==
  ASSUME NEW e \in 0 .. 10
  PROVE  /\ ApcStatus[e] \in {0, Critical}
         /\ e < FptUpdate => ApcStatus[e] = Declared[e]
<1>1. \A d \in 0 .. 10 : Declared[d] \in {0, Critical}
  BY DEF Declared
<1> QED BY <1>1 DEF ApcStatus, FptUpdate

LEMMA ApcRaised ==
  ASSUME ApcEvent \/ ApcTable
  PROVE  /\ \E e \in 0 .. 10, pc \in {"take", "judge"} : ApcOp(e, pc)
         /\ ApcEvent => \E e \in 0 .. 10 : ApcOp(e, "judge")
<1>1. ApcEvent => \E e \in 0 .. 10 : ApcOp(e, "judge")
  BY DEF ApcEvent, ApcStatus
<1>2. CASE ApcTable
  <2>1. ApcOp(FptUpdate, "take") \/ ApcOp(DownloadFailed, "judge")
    BY <1>2 DEF ApcTable
  <2>2. FptUpdate \in 0 .. 10 /\ DownloadFailed \in 0 .. 10
    BY DEF FptUpdate, DownloadFailed
  <2> QED BY <1>1, <2>1, <2>2
<1> QED BY <1>1, <1>2

\* The moves of the APC task.
LEMMA ApcMoves ==
  ASSUME TaskInv, FetchTake \/ Fetch \/ FetchEnd \/ ApcEvent \/ ApcTable
  PROVE  LET x == task["apc"] y == task'["apc"] IN
         /\ Moves("apc")
         /\ \/ FetchTake /\ x.pc = "take" /\ Is(y, "fetch", x.i, x.ev)
            \/ Fetch /\ x.pc = "fetch" /\ Is(y, "populate", x.i, x.ev)
            \/ FetchEnd /\ x.pc = "populate" /\ Is(y, "judge", x.i, x.ev)
            \/ ApcEvent /\ x.pc = "idle" /\ y.pc = "judge" /\ y.ev \in {0, Critical}
            \/ ApcTable /\ x.pc = "idle" /\ y.pc \in {"take", "judge"} /\ y.ev \in {0, Critical}
<1> DEFINE x == task["apc"]
<1>1. task \in [Modules -> Task] /\ "apc" \in Modules
  BY DEF TaskInv, Modules
<1>2. {"take", "fetch", "populate", "judge"} \subseteq AscPcs \cup ApcPcs
  BY DEF AscPcs, ApcPcs
<1>3. 0 \in 0 .. Cardinality(Sensors) + 1
  BY HighestIs
<1>4. CASE FetchTake \/ Fetch \/ FetchEnd
  <2>1. \/ FetchTake /\ x.pc = "take" /\ Goto("apc", "fetch")
        \/ Fetch /\ x.pc = "fetch" /\ Goto("apc", "populate")
        \/ FetchEnd /\ x.pc = "populate" /\ Goto("apc", "judge")
    BY <1>4 DEF FetchTake, Fetch, FetchEnd
  <2>2. \A pc \in {"fetch", "populate", "judge"} :
          Goto("apc", pc) => Moves("apc") /\ Is(task'["apc"], pc, x.i, x.ev)
    BY <1>1, <1>2, Going
  <2> QED BY <2>1, <2>2
<1>5. ASSUME NEW e \in 0 .. 10, NEW pc \in {"take", "judge"}, ApcOp(e, pc)
      PROVE  Moves("apc") /\ x.pc = "idle" /\ Is(task'["apc"], pc, 0, ApcStatus[e])
  <2>1. task' = [task EXCEPT !["apc"] = At(pc, 0, ApcStatus[e])] /\ x.pc = "idle"
    BY <1>5 DEF ApcOp, At
  <2>2. ApcStatus[e] \in 0 .. 3 /\ pc \in AscPcs \cup ApcPcs
    BY <1>2, StatusIs DEF Critical
  <2> QED BY <1>1, <1>3, <2>1, <2>2, Starting
<1>7. CASE ApcEvent
  <2>1. PICK e \in 0 .. 10 : ApcOp(e, "judge")
    BY <1>7, ApcRaised
  <2> QED BY <1>5, <1>7, <2>1, StatusIs DEF Is
<1>8. CASE ApcTable
  <2>1. PICK e \in 0 .. 10, pc \in {"take", "judge"} : ApcOp(e, pc)
    BY <1>8, ApcRaised
  <2> QED BY <1>5, <1>8, <2>1, StatusIs DEF Is
<1> QED BY <1>4, <1>7, <1>8

\* Every step is one of a task, or of the host, which moves none.
Host == HostAsk \/ HostEnds \/ UNCHANGED vars
AscActs ==
  \/ ScanStart \/ ScanSensor \/ ScanEnd \/ Raise \/ AsdmOne \/ BimThreshold
  \/ AsdmAll \/ AsdmTake \/ AsdmUpdate \/ AsdmTotal
ApcActs == FetchTake \/ Fetch \/ FetchEnd \/ ApcEvent \/ ApcTable
LEMMA Steps ==
  ASSUME [Next]_vars
  PROVE  AscActs \/ ApcActs \/ (\E t \in Modules : Bim(t)) \/ Host
<1>1. Bim("asc") \/ Bim("apc") => \E t \in Modules : Bim(t)
  BY DEF Modules
<1> QED BY <1>1 DEF Next, Asc, ApcHandles, AscActs, ApcActs, Host

LEMMA HostRests ==
  ASSUME Host PROVE UNCHANGED <<ascVars, asdmVars, fptVars, bimVars, boot, task, lock>>
BY DEF Host, HostAsk, HostEnds, HostAnswer, HostTimeout, vars

\* The tasks stay where they can be.
LEMMA TaskKept ==
  ASSUME TypeOK, TaskInv, [Next]_vars
  PROVE  TaskInv'
<1> DEFINE N == Cardinality(Sensors)
           AscOK(x, r) ==
             /\ x.pc \in AscPcs
             /\ x.pc \in {"scan", "raise", "update"} => x.i > 0
             /\ x.pc \in {"raise", "take", "update"} => x.ev = 0
             /\ x.pc \in {"one", "threshold"} => x.ev = Level(r[x.i].value) /\ x.ev > 0
             /\ x.pc \in Handling => IF x.ev = 0 THEN x.i = N + 1 ELSE x.i \in Sensors
<1>1. task["asc"] \in Task /\ AscOK(task["asc"], readings) /\ task["apc"].pc \in ApcPcs
  BY DEF TaskInv, Modules
<1>2. N \in Nat /\ Sensors = 1 .. N
  BY HighestIs, TelemetryAssumption
<1>3. SUFFICES task' \in [Modules -> Task] /\ AscOK(task'["asc"], readings') /\ task'["apc"].pc \in ApcPcs
  BY DEF TaskInv
<1>4. task["asc"].ev \in 0 .. 3 /\ task["asc"].i \in 0 .. N + 1
  BY <1>1 DEF Task
<1>5. \A i \in Sensors : Level(readings[i].value) \in 0 .. 3
  BY LevelIs, HighestIs DEF TypeOK, Readings
<1>6. CASE AscActs
  <2>1. Moves("asc") /\ task'["apc"] = task["apc"]
    BY <1>6, AscMoves DEF AscActs, Moves, Modules
  <2>2. UNCHANGED readings \/ ScanSensor
    BY Frames
  <2>3. AscOK(task'["asc"], readings')
    <3> DEFINE x == task["asc"]
               y == task'["asc"]
    <3>1. CASE ScanSensor \/ ScanStart \/ ScanEnd
      <4>1. (y.pc = "scan" /\ y.i > 0) \/ Is(y, "raise", 1, 0)
        <5>1. DOMAIN task = Modules /\ "asc" \in Modules /\ DOMAIN x = {"pc", "i", "ev"}
          BY <1>1 DEF TaskInv, Modules, Task
        <5>2. CASE ScanStart
          <6>1. y = [pc |-> "scan", i |-> 1, ev |-> 0]
            BY <5>1, <5>2 DEF ScanStart
          <6> QED BY <6>1
        <5>3. CASE ScanSensor
          <6>1. y = [x EXCEPT !.i = @ + 1] /\ x.pc = "scan" /\ x.i \in Sensors
            BY <5>1, <5>3 DEF ScanSensor
          <6>2. y.pc = "scan" /\ y.i = x.i + 1
            BY <5>1, <6>1
          <6> QED BY <1>2, <6>1, <6>2
        <5>4. CASE ScanEnd
          <6>1. y = [pc |-> "raise", i |-> 1, ev |-> 0]
            BY <5>1, <5>4 DEF ScanEnd
          <6> QED BY <6>1 DEF Is
        <5> QED BY <3>1, <5>2, <5>3, <5>4
      <4> QED BY <4>1 DEF Is, AscPcs, Handling
    <3>2. CASE Raise
      <4>1. /\ UNCHANGED readings /\ x.pc = "raise" /\ x.i \in Sensors
            /\ IF Level(readings[x.i].value) = 0 THEN Is(y, "raise", x.i + 1, x.ev)
               ELSE Is(y, "one", x.i, Level(readings[x.i].value))
        BY <1>6, <3>2, AscMoves DEF AscActs, Raise, ascVars, ScanStart, ScanSensor, ScanEnd,
             AsdmOne, BimThreshold, AsdmAll, AsdmTake, AsdmUpdate, AsdmTotal
      <4> QED BY <1>1, <1>2, <1>5, <4>1 DEF Is, AscPcs, Handling
    <3>3. CASE ~ (ScanSensor \/ ScanStart \/ ScanEnd \/ Raise)
      <4>1. UNCHANGED readings
        BY <2>2, <3>3
      <4>2. \/ x.pc = "one" /\ Is(y, "threshold", x.i, x.ev)
            \/ x.pc = "threshold" /\ Is(y, "judge", x.i, x.ev)
            \/ x.pc = "raise" /\ x.i \notin Sensors /\ Is(y, "take", x.i, x.ev)
            \/ x.pc = "take" /\ Is(y, "update", 1, 0)
            \/ x.pc = "update" /\ x.i \in Sensors /\ Is(y, "update", x.i + 1, x.ev)
            \/ x.pc = "update" /\ x.i \notin Sensors /\ Is(y, "judge", x.i, x.ev)
        BY <1>6, <3>3, AscMoves DEF AscActs
      <4> QED BY <1>1, <1>2, <1>4, <4>1, <4>2 DEF Is, AscPcs, Handling
    <3> QED BY <3>1, <3>2, <3>3
  <2> QED BY <1>1, <2>1, <2>3 DEF Moves
<1>7. CASE ApcActs
  <2>1. Moves("apc") /\ task'["asc"] = task["asc"] /\ task'["apc"].pc \in ApcPcs
    BY <1>7, ApcMoves DEF ApcActs, Moves, Modules, Is, ApcPcs
  <2>2. UNCHANGED readings
    BY <1>7 DEF ApcActs, FetchTake, Fetch, FetchEnd, ApcEvent, ApcTable, ApcOp, ascVars
  <2> QED BY <1>1, <2>1, <2>2 DEF Moves
<1>8. ASSUME NEW t \in Modules, Bim(t)
      PROVE  task' \in [Modules -> Task] /\ AscOK(task'["asc"], readings') /\ task'["apc"].pc \in ApcPcs
  <2>1. UNCHANGED readings
    BY <1>8 DEF Bim, Judge, SetTake, SetTimeout, SetHealth, ascVars
  <2>2. LET x == task[t] y == task'[t] IN
        /\ Moves(t) /\ x.pc \in {"judge", "lock", "set"}
        /\ Is(y, "lock", x.i, x.ev) \/ Is(y, "set", x.i, x.ev) \/ Back(t)
    BY <1>8, BimMoves
  <2>3. CASE t = "asc"
    <3>1. AscOK(task'["asc"], readings)
      BY <1>1, <1>2, <1>4, <2>2, <2>3 DEF Is, Back, AscPcs, Handling
    <3>2. task'["apc"] = task["apc"]
      BY <2>2, <2>3 DEF Moves, Modules
    <3> QED BY <1>1, <2>1, <2>2, <3>1, <3>2 DEF Moves
  <2>4. CASE t = "apc"
    <3>1. task'["asc"] = task["asc"]
      BY <2>2, <2>4 DEF Moves, Modules
    <3>2. task'["apc"].pc \in ApcPcs
      BY <2>2, <2>4 DEF Is, Back, ApcPcs
    <3> QED BY <1>1, <2>1, <2>2, <3>1, <3>2 DEF Moves
  <2> QED BY <2>3, <2>4 DEF Modules
<1>9. CASE Host
  <2>1. task' = task /\ readings' = readings
    BY <1>9, HostRests DEF ascVars
  <2> QED BY <1>1, <2>1 DEF TaskInv
<1> QED BY <1>6, <1>7, <1>8, <1>9, Steps

-----------------------------------------------------------------------------
(* Each part of the invariant is kept.                                      *)

Locks == {"asc", "asdm", "bim"}
LEMMA LockStep ==
  ASSUME NEW m \in Locks, NEW t \in Modules, lock \in [Locks -> Modules \cup {None}], Take(m, t) \/ Release(m)
  PROVE  /\ lock' \in [Locks -> Modules \cup {None}] /\ \A k \in Locks \ {m} : lock'[k] = lock[k]
         /\ Take(m, t) => lock[m] = None /\ lock'[m] = t
         /\ Release(m) => lock'[m] = None
BY DEF Take, Release

\* A mutex is held exactly where its task needs it.
LEMMA LockKept ==
  ASSUME TypeOK, TaskInv, LockInv, [Next]_vars
  PROVE  LockInv' /\ lock' \in [Locks -> Modules \cup {None}]
<1> DEFINE x == task["asc"]
           y == task'["asc"]
           Typed(l) == l \in [Locks -> Modules \cup {None}]
           AscLocks(l, p) ==
             /\ l["asc"] # "apc" /\ (l["asc"] = "asc" <=> p = "scan")
             /\ l["asdm"] = "asc" <=> p = "update"
             /\ l["bim"] = "asc" <=> p = "set"
           ApcLocks(l, p) ==
             /\ l["asdm"] = "apc" <=> p \in {"fetch", "populate"}
             /\ l["bim"] = "apc" <=> p = "set"
<1>1. Typed(lock) /\ AscLocks(lock, x.pc) /\ ApcLocks(lock, task["apc"].pc)
  BY DEF TypeOK, LockInv, Locks, Modules
<1>2. SUFFICES Typed(lock') /\ AscLocks(lock', y.pc) /\ ApcLocks(lock', task'["apc"].pc)
  BY DEF LockInv, Locks, Modules
<1>3. None \notin Modules /\ Modules = {"asc", "apc"} /\ Locks = {"asc", "asdm", "bim"}
  BY TelemetryAssumption DEF Modules, Locks
<1>4. CASE AscActs
  <2>1. task'["apc"] = task["apc"]
    BY <1>4, AscMoves DEF AscActs, Moves, Modules
  <2>2. CASE ScanStart
    <3>1. Take("asc", "asc") /\ y.pc = "scan" /\ x.pc = "sleep"
      BY <1>3, <1>4, <2>2, AscMoves DEF AscActs, Is, ScanStart, ScanSensor, ScanEnd, Raise, AsdmOne,
         BimThreshold, AsdmAll, AsdmTake, AsdmUpdate, AsdmTotal
    <3> QED BY <1>1, <1>3, <2>1, <3>1, LockStep
  <2>3. CASE ScanEnd
    <3>1. Release("asc") /\ y.pc = "raise" /\ x.pc = "scan"
      BY <1>4, <2>3, AscMoves DEF AscActs, Is, ScanStart, ScanSensor, ScanEnd, ScanReleases, Raise, AsdmOne,
         BimThreshold, AsdmAll, AsdmTake, AsdmUpdate, AsdmTotal
    <3> QED BY <1>1, <1>3, <2>1, <3>1, LockStep
  <2>4. CASE AsdmTake
    <3>1. Take("asdm", "asc") /\ y.pc = "update" /\ x.pc = "take"
      BY <1>4, <2>4, AscMoves DEF AscActs, Is, ScanStart, ScanSensor, ScanEnd, Raise, AsdmOne,
         BimThreshold, AsdmAll, AsdmTake, AsdmUpdate, AsdmTotal
    <3> QED BY <1>1, <1>3, <2>1, <3>1, LockStep
  <2>5. CASE AsdmTotal
    <3>1. Release("asdm") /\ y.pc = "judge" /\ x.pc = "update"
      BY <1>4, <2>5, AscMoves DEF AscActs, Is, ScanStart, ScanSensor, ScanEnd, Raise, AsdmOne,
         BimThreshold, AsdmAll, AsdmTake, AsdmUpdate, AsdmTotal
    <3> QED BY <1>1, <1>3, <2>1, <3>1, LockStep
  <2>6. CASE ScanSensor \/ Raise \/ AsdmOne \/ BimThreshold \/ AsdmAll \/ AsdmUpdate
    <3>1. UNCHANGED lock
      BY <2>6 DEF ScanSensor, Raise, AsdmOne, BimThreshold, AsdmAll, AsdmUpdate
    <3>2. \/ x.pc = "scan" /\ y.pc = "scan"
          \/ x.pc = "update" /\ y.pc = "update"
          \/ /\ x.pc \notin {"scan", "update", "set"}
             /\ y.pc \notin {"scan", "update", "set"}
      BY <1>4, <2>6, AscMoves DEF AscActs, Is, ScanStart, ScanSensor, ScanEnd, Raise, AsdmOne,
         BimThreshold, AsdmAll, AsdmTake, AsdmUpdate, AsdmTotal
    <3> QED BY <1>1, <2>1, <3>1, <3>2
  <2> QED BY <1>4, <2>2, <2>3, <2>4, <2>5, <2>6 DEF AscActs
<1>5. CASE ApcActs
  <2> DEFINE z == task["apc"].pc
             w == task'["apc"].pc
  <2>1. task'["asc"] = task["asc"]
    BY <1>5, ApcMoves DEF ApcActs, Moves, Modules
  <2>2. CASE FetchTake
    <3>1. Take("asdm", "apc") /\ w = "fetch" /\ z = "take"
      BY <1>5, <2>2, ApcMoves DEF ApcActs, Is, FetchTake, Fetch, FetchEnd, ApcEvent, ApcTable, ApcOp
    <3> QED BY <1>1, <1>3, <2>1, <3>1, LockStep
  <2>3. CASE FetchEnd
    <3>1. Release("asdm") /\ w = "judge" /\ z = "populate"
      BY <1>5, <2>3, ApcMoves DEF ApcActs, Is, FetchTake, Fetch, FetchEnd, ApcEvent, ApcTable, ApcOp
    <3> QED BY <1>1, <1>3, <2>1, <3>1, LockStep
  <2>4. CASE Fetch \/ ApcEvent \/ ApcTable
    <3>1. UNCHANGED lock
      BY <2>4 DEF Fetch, ApcEvent, ApcTable, ApcOp
    <3>2. \/ z = "fetch" /\ w = "populate"
          \/ z = "idle" /\ w \in {"take", "judge"}
      BY <1>5, <2>4, ApcMoves DEF ApcActs, Is, FetchTake, Fetch, FetchEnd, ApcEvent, ApcTable, ApcOp
    <3> QED BY <1>1, <2>1, <3>1, <3>2
  <2> QED BY <1>5, <2>2, <2>3, <2>4 DEF ApcActs
<1>6. ASSUME NEW t \in Modules, Bim(t)
      PROVE  Typed(lock') /\ AscLocks(lock', y.pc) /\ ApcLocks(lock', task'["apc"].pc)
  <2> DEFINE z == task[t].pc
             w == task'[t].pc
             Quiet == {"judge", "lock", "idle", "sleep", "raise"}
  <2>1. \A m \in Modules \ {t} : task'[m] = task[m]
    BY <1>6, BimMoves DEF Moves
  <2>2. \/ z = "lock" /\ w = "set" /\ Take("bim", t)
        \/ z = "set" /\ w \in Quiet /\ Release("bim")
        \/ z \in {"judge", "lock"} /\ w \in Quiet /\ UNCHANGED lock
    BY <1>6, BimMoves DEF Judge, SetTake, SetTimeout, SetHealth, Is, Back
  <2>3. CASE z = "lock" /\ w = "set" /\ Take("bim", t)
    BY <1>1, <1>3, <2>1, <2>3, LockStep
  <2>4. CASE z = "set" /\ w \in Quiet /\ Release("bim")
    BY <1>1, <1>3, <2>1, <2>4, LockStep
  <2>5. CASE z \in {"judge", "lock"} /\ w \in Quiet /\ UNCHANGED lock
    BY <1>1, <1>3, <2>1, <2>5
  <2> QED BY <2>2, <2>3, <2>4, <2>5
<1>7. CASE Host
  <2>1. task' = task /\ lock' = lock
    BY <1>7, HostRests
  <2> QED BY <1>1, <2>1
<1> QED BY <1>4, <1>5, <1>6, <1>7, Steps

\* No sensor is counted more often than there were scans.
LEMMA CountKept ==
  ASSUME TypeOK, TaskInv, CountInv, [Next]_vars
  PROVE  CountInv' /\ count' \in [Sensors -> 0 .. MaxScans]
<1> DEFINE N == Cardinality(Sensors)
           Counted(c, s, p, i) ==
             /\ s \in 0 .. MaxScans /\ (p = "scan" => s > 0)
             /\ \A j \in Sensors : c[j] <= s - (IF p = "scan" /\ j >= i THEN 1 ELSE 0)
           x == task["asc"]
           y == task'["asc"]
<1>1. count \in [Sensors -> 0 .. MaxScans] /\ Counted(count, scans, x.pc, x.i)
  BY DEF TypeOK, CountInv
<1>2. SUFFICES count' \in [Sensors -> 0 .. MaxScans] /\ Counted(count', scans', y.pc, y.i)
  BY DEF CountInv
<1>3. Sensors = 1 .. N /\ N \in Nat /\ MaxScans \in Nat /\ x.i \in 0 .. N + 1
  BY HighestIs, TelemetryAssumption DEF TaskInv, Task, Modules
<1>4. CASE ScanStart
  <2>1. count' = count /\ scans < MaxScans /\ scans' = scans + 1 /\ x.pc = "sleep"
    BY <1>4 DEF ScanStart
  <2>2. y.pc = "scan" /\ y.i = 1
    BY <1>4, <2>1, AscMoves DEF Is
  <2> QED BY <1>1, <1>3, <2>1, <2>2
<1>5. CASE ScanSensor
  <2>1. /\ scans' = scans /\ x.pc = "scan" /\ x.i \in Sensors
        /\ count' = count \/ count' = [count EXCEPT ![x.i] = count[x.i] + 1]
    BY <1>5 DEF ScanSensor
  <2>2. y.pc = "scan" /\ y.i = x.i + 1
    BY <1>5, <2>1, AscMoves DEF Is, ScanEnd
  <2>3. PICK i \in Sensors : i = x.i
    BY <2>1
  <2>4. \A j \in Sensors : count[j] \in Nat /\ count[j] <= scans - (IF j >= i THEN 1 ELSE 0)
    BY <1>1, <2>1, <2>3
  <2>5. count' \in [Sensors -> Nat] /\ \A j \in Sensors : count'[j] <= scans - (IF j >= i + 1 THEN 1 ELSE 0)
    <3>1. CASE count' = count
      BY <1>1, <1>3, <2>3, <2>4, <3>1
    <3>2. CASE count' = [count EXCEPT ![i] = count[i] + 1]
      BY <1>1, <1>3, <2>3, <2>4, <3>2, SMTT(30)
    <3> QED BY <2>1, <2>3, <3>1, <3>2
  <2>6. count' \in [Sensors -> 0 .. MaxScans]
    <3>1. \A j \in Sensors : count'[j] \in 0 .. MaxScans
      BY <1>1, <1>3, <2>1, <2>5, SMTT(30)
    <3> QED BY <2>5, <3>1
  <2> QED BY <1>1, <2>1, <2>2, <2>3, <2>5, <2>6
<1>6. CASE count' = count /\ scans' = scans /\ y.pc # "scan"
  BY <1>1, <1>3, <1>6
<1>7. CASE count' = count /\ scans' = scans /\ y = x
  BY <1>1, <1>7
<1>8. y.pc # "scan" \/ y = x \/ ScanStart \/ ScanSensor
  <2>1. CASE AscActs
    BY <2>1, AscMoves DEF AscActs, Is
  <2>2. CASE ApcActs
    BY <2>2, ApcMoves DEF ApcActs, Moves, Modules
  <2>3. ASSUME NEW t \in Modules, Bim(t) PROVE y.pc # "scan" \/ y = x
    BY <2>3, BimMoves DEF Moves, Modules, Is, Back
  <2>4. CASE Host
    BY <2>4, HostRests
  <2> QED BY <2>1, <2>2, <2>3, <2>4, Steps
<1> QED BY <1>4, <1>5, <1>6, <1>7, <1>8, Frames

\* What is sampled is within the values read, and sound; so is what cannot be.
LEMMA SampledIs ==
  ASSUME NEW x \in Readings, Sound(x), NEW v \in Values, NEW n \in Nat \ {0}
  PROVE  Sampled(x, v, n) \in Readings /\ Sound(Sampled(x, v, n))
<1> DEFINE a == Averaged(x.avg, v, n)
           m == Max({x.max, v})
<1>1. x.avg \in 0 .. Highest /\ x.max \in 0 .. Highest /\ x.avg <= x.max /\ v \in 0 .. Highest /\ Highest \in Nat
  BY HighestIs DEF Readings, Sound
<1>2. m \in 0 .. Highest /\ x.max <= m /\ v <= m
  <2>1. m = IF x.max >= v THEN x.max ELSE v
    BY <1>1, OfTwo
  <2> QED BY <1>1, <2>1
<1> HIDE DEF m
<1>3. x.avg \in Nat /\ v \in Nat /\ m \in Nat /\ x.avg <= m
  BY <1>1, <1>2
<1>4. a \in 0 .. m
  BY <1>2, <1>3, AverageWithin
<1> HIDE DEF a
<1>5. a \in 0 .. Highest /\ a <= m
  BY <1>1, <1>2, <1>4
<1>6. Sampled(x, v, n) = [value |-> v, avg |-> a, max |-> m, ok |-> TRUE]
  BY DEF Sampled, a, m
<1>7. Sampled(x, v, n) \in Readings
  BY <1>1, <1>2, <1>5, <1>6 DEF Readings
<1> QED BY <1>2, <1>5, <1>6, <1>7 DEF Sound

LEMMA MissedIs ==
  ASSUME NEW x \in Readings, Sound(x)
  PROVE  [x EXCEPT !.ok = FALSE] \in Readings /\ Sound([x EXCEPT !.ok = FALSE])
BY DEF Readings, Sound

\* The readings, and all that is copied from them, stay within the values.
SoundAll(f) == f \in [Sensors -> Readings] /\ \A i \in Sensors : Sound(f[i])
LEMMA ReadingsKept ==
  ASSUME TypeOK, TaskInv, SoundInv, [Next]_vars
  PROVE  /\ SoundAll(readings') /\ SoundAll(copy') /\ SoundAll(sdr')
         /\ shown' \in [Sensors -> Readings]
<1>1. SoundAll(readings) /\ SoundAll(copy) /\ SoundAll(sdr) /\ shown \in [Sensors -> Readings]
  BY DEF TypeOK, SoundInv, SoundAll
<1>2. 1 \in Sensors
  BY HighestIs, TelemetryAssumption
<1>3. SoundAll(readings')
  <2>1. CASE UNCHANGED readings
    BY <1>1, <2>1
  <2>2. CASE ScanSensor
    <3>1. PICK i \in Sensors : i = task["asc"].i
      BY <2>2 DEF ScanSensor
    <3>2. PICK r \in Readings : Sound(r) /\ readings' = [readings EXCEPT ![i] = r]
      <4>1. CASE \E v \in Values : readings' = [readings EXCEPT ![i] = Sampled(@, v, count[i] + 1)]
        <5>1. PICK v \in Values : readings' = [readings EXCEPT ![i] = Sampled(readings[i], v, count[i] + 1)]
          BY <4>1
        <5>2. count[i] + 1 \in Nat \ {0}
          <6>1. count \in [Sensors -> 0 .. MaxScans]
            BY DEF TypeOK
          <6> QED BY <6>1
        <5>3. readings[i] \in Readings /\ Sound(readings[i])
          BY <1>1 DEF SoundAll
        <5> QED BY <5>1, <5>2, <5>3, SampledIs
      <4>2. CASE readings' = [readings EXCEPT ![i].ok = FALSE]
        <5>1. readings[i] \in Readings /\ Sound(readings[i])
          BY <1>1 DEF SoundAll
        <5> QED BY <4>2, <5>1, MissedIs
      <4> QED BY <2>2, <3>1, <4>1, <4>2 DEF ScanSensor
    <3> QED BY <1>1, <3>2 DEF SoundAll
  <2> QED BY <2>1, <2>2, Frames
<1>4. SoundAll(copy')
  <2>1. CASE UNCHANGED copy
    BY <1>1, <2>1
  <2>2. CASE AsdmAll
    BY <1>1, <2>2 DEF AsdmAll, CopyAll
  <2>3. CASE AsdmOne
    <3>1. PICK i : i = task["asc"].i
      OBVIOUS
    <3>2. copy' = [copy EXCEPT ![1] = readings[i]]
      BY <2>3, <3>1 DEF AsdmOne
    <3>3. i \in Sensors
      <4>1. task["asc"].pc = "one"
        BY <2>3 DEF AsdmOne
      <4> QED BY <3>1, <4>1 DEF TaskInv, Handling
    <3> QED BY <1>1, <1>2, <3>2, <3>3 DEF SoundAll
  <2> QED BY <2>1, <2>2, <2>3, Frames
<1>5. SoundAll(sdr')
  <2>1. CASE UNCHANGED sdr
    BY <1>1, <2>1
  <2>2. CASE AsdmUpdate
    <3>1. PICK i \in Sensors : i = task["asc"].i
      BY <2>2 DEF AsdmUpdate
    <3>2. sdr' = [sdr EXCEPT ![i] = copy[i]]
      BY <2>2, <3>1 DEF AsdmUpdate
    <3> QED BY <1>1, <3>2 DEF SoundAll
  <2> QED BY <2>1, <2>2, Frames
<1>6. shown' \in [Sensors -> Readings]
  BY <1>1, Frames DEF AsdmTotal, SoundAll
<1> QED BY <1>3, <1>4, <1>5, <1>6

\* The records of the ASDM are those of one scan, but while it updates them.
LEMMA UpdateKept ==
  ASSUME TypeOK, TaskInv, SoundInv, UpdateInv, [Next]_vars
  PROVE  UpdateInv'
<1> DEFINE x == task["asc"]
           y == task'["asc"]
           Updated(p, i, r, c, s, h) ==
             /\ p # "update" => s = h
             /\ p \in {"take", "update"} => c = r
             /\ p = "update" => \A j \in Sensors : j < i => s[j] = r[j]
<1>1. Updated(x.pc, x.i, readings, copy, sdr, shown)
  BY DEF UpdateInv
<1>2. SUFFICES Updated(y.pc, y.i, readings', copy', sdr', shown')
  BY DEF UpdateInv
<1>3. Sensors = 1 .. Cardinality(Sensors) /\ Cardinality(Sensors) \in Nat /\ x.i \in 0 .. Cardinality(Sensors) + 1
  BY HighestIs, TelemetryAssumption DEF TaskInv, Task, Modules
<1>4. sdr \in [Sensors -> Readings] /\ readings \in [Sensors -> Readings]
  BY DEF TypeOK
<1>5. CASE AscActs
  <2>1. CASE ScanSensor \/ AsdmOne
    <3>1. UNCHANGED <<sdr, shown>> /\ x.pc \in {"scan", "one"}
      BY <2>1 DEF ScanSensor, AsdmOne, asdmVars
    <3>2. y.pc \notin {"take", "update"}
      BY <1>5, <3>1, AscMoves DEF AscActs, Is
    <3> QED BY <1>1, <3>1, <3>2
  <2>2. CASE AsdmAll
    <3>1. UNCHANGED <<readings, sdr, shown>> /\ x.pc = "raise" /\ x.i \notin Sensors /\ copy' = readings
      BY <2>2 DEF AsdmAll, CopyAll, ascVars
    <3>2. y.pc = "take"
      BY <1>5, <3>1, AscMoves DEF AscActs, Is
    <3> QED BY <1>1, <3>1, <3>2
  <2>3. CASE AsdmTake
    <3>1. UNCHANGED <<readings, copy, sdr, shown>> /\ x.pc = "take"
      BY <2>3 DEF AsdmTake, ascVars, asdmVars
    <3>2. y.pc = "update" /\ y.i = 1
      BY <1>5, <3>1, AscMoves DEF AscActs, Is
    <3> QED BY <1>1, <1>3, <3>1, <3>2
  <2>4. CASE AsdmUpdate
    <3>1. /\ UNCHANGED <<readings, copy, shown>> /\ x.pc = "update" /\ x.i \in Sensors
          /\ sdr' = [sdr EXCEPT ![x.i] = copy[x.i]]
      BY <2>4 DEF AsdmUpdate, ascVars
    <3>2. y.pc = "update" /\ y.i = x.i + 1
      BY <1>5, <3>1, AscMoves DEF AscActs, Is
    <3> QED BY <1>1, <1>3, <1>4, <3>1, <3>2
  <2>5. CASE AsdmTotal
    <3>1. /\ UNCHANGED <<readings, copy, sdr>> /\ x.pc = "update" /\ x.i \notin Sensors
          /\ shown' = readings
      BY <2>5 DEF AsdmTotal, ascVars
    <3>2. y.pc = "judge"
      BY <1>5, <3>1, AscMoves DEF AscActs, Is
    <3>3. \A j \in Sensors : j < x.i
      BY <1>3, <3>1 DEF TaskInv
    <3>4. sdr = readings
      BY <1>1, <1>4, <3>1, <3>3
    <3> QED BY <3>1, <3>2, <3>4
  <2>6. CASE ScanStart \/ ScanEnd \/ Raise \/ BimThreshold
    <3>1. UNCHANGED <<readings, copy, sdr, shown>> /\ x.pc \in {"sleep", "scan", "raise", "threshold"}
      BY <2>6 DEF ScanStart, ScanEnd, Raise, BimThreshold, ascVars, asdmVars
    <3>2. y.pc \notin {"take", "update"}
      <4>1. ~ AsdmAll
        BY <2>6, AscMoves DEF ScanStart, ScanEnd, Raise, BimThreshold, AsdmAll
      <4> QED BY <1>5, <3>1, <4>1, AscMoves DEF AscActs, Is
    <3> QED BY <1>1, <3>1, <3>2
  <2> QED BY <1>5, <2>1, <2>2, <2>3, <2>4, <2>5, <2>6 DEF AscActs
<1>6. CASE ~ AscActs
  <2>1. UNCHANGED <<readings, copy, sdr, shown>>
    BY <1>6, Frames DEF AscActs
  <2>2. y = x \/ (x.pc \notin {"take", "update"} /\ y.pc \notin {"take", "update"})
    <3>1. CASE ApcActs
      BY <3>1, ApcMoves DEF ApcActs, Moves, Modules
    <3>2. ASSUME NEW t \in Modules, Bim(t) PROVE y = x \/ (x.pc \notin {"take", "update"} /\ y.pc \notin {"take", "update"})
      BY <3>2, BimMoves DEF Moves, Modules, Is, Back
    <3>3. CASE Host
      BY <3>3, HostRests
    <3> QED BY <1>6, <3>1, <3>2, <3>3, Steps
  <2> QED BY <1>1, <2>1, <2>2
<1> QED BY <1>5, <1>6

\* The total power is that of the readings shown.
TotalOK(u) == {u.value, u.avg, u.max} \subseteq 0 .. Cardinality(Sensors) * Highest
LEMMA TotalKept ==
  ASSUME TypeOK, TaskInv, SoundInv, UpdateInv, [Next]_vars
  PROVE  OneTotal' /\ total'.n \in Nat /\ TotalOK(total')
<1> DEFINE h == Cardinality(Sensors) * Highest
           Whole(u, s) == u.value = Sum(s) /\ u.avg <= u.max /\ u.value <= u.max
<1>1. Whole(total, shown) /\ total.n \in Nat /\ TotalOK(total)
  BY DEF TypeOK, SoundInv, OneTotal, TotalOK
<1>2. SUFFICES Whole(total', shown') /\ total'.n \in Nat /\ TotalOK(total')
  BY DEF OneTotal
<1>3. CASE AsdmTotal
  <2>1. PICK v : v = Sum(sdr)
    OBVIOUS
  <2>2. PICK n : n = total.n + 1
    OBVIOUS
  <2>3. PICK m : m = Max({total.max, v})
    OBVIOUS
  <2>4. PICK a : a = Averaged(total.avg, v, n)
    OBVIOUS
  <2>5. total' = [value |-> v, avg |-> a, max |-> m, n |-> n] /\ shown' = readings /\ UNCHANGED sdr
    BY <1>3, <2>1, <2>2, <2>3, <2>4 DEF AsdmTotal
  <2>6. sdr = readings
    <3>1. AscActs
      BY <1>3 DEF AscActs
    <3>2. task["asc"].pc = "update" /\ task["asc"].i \notin Sensors
      BY <1>3 DEF AsdmTotal
    <3>3. task["asc"].i \in 0 .. Cardinality(Sensors) + 1 /\ task["asc"].i > 0
      BY <3>2 DEF TaskInv, Task, Modules
    <3>4. \A j \in Sensors : j < task["asc"].i
      BY <3>2, <3>3, HighestIs, TelemetryAssumption
    <3>5. \A j \in Sensors : sdr[j] = readings[j]
      BY <3>2, <3>4 DEF UpdateInv
    <3> QED BY <3>5 DEF TypeOK
  <2>7. v \in 0 .. h
    <3>1. \A i \in Sensors : sdr[i].value \in 0 .. Highest
      BY DEF TypeOK, Readings
    <3> QED BY <2>1, <3>1, SumWithin, HighestIs
  <2>8. total.avg \in Nat /\ total.max \in 0 .. h /\ total.avg <= total.max /\ h \in Nat
    <3>1. total.avg \in 0 .. h /\ total.max \in 0 .. h
      BY <1>1 DEF TotalOK
    <3> HIDE DEF h
    <3> QED BY <1>1, <3>1, HighestIs DEF h
  <2> HIDE DEF h
  <2>9. m \in 0 .. h /\ v <= m /\ total.max <= m
    <3>1. m = IF total.max >= v THEN total.max ELSE v
      BY <2>3, <2>7, <2>8, OfTwo
    <3> QED BY <2>7, <2>8, <3>1
  <2>10. a \in 0 .. m
    <3>1. m \in Nat /\ v \in Nat /\ total.avg <= m /\ n \in Nat \ {0}
      BY <1>1, <2>2, <2>7, <2>8, <2>9
    <3> QED BY <2>4, <2>8, <2>9, <3>1, AverageWithin
  <2>11. Whole(total', shown') /\ total'.n \in Nat
    BY <1>1, <2>1, <2>2, <2>5, <2>6, <2>9, <2>10
  <2>12. v \in 0 .. h /\ a \in 0 .. h /\ m \in 0 .. h
    BY <2>7, <2>8, <2>9, <2>10
  <2>13. TotalOK(total')
    BY <2>5, <2>12 DEF TotalOK, h
  <2> QED BY <2>11, <2>13
<1>4. CASE UNCHANGED <<total, shown>>
  BY <1>1, <1>4
<1> QED BY <1>3, <1>4, Frames

\* The sensors whose events have been handled are covered.
LEMMA ThresholdKept ==
  ASSUME TypeOK, TaskInv, CountInv, ThresholdInv, [Next]_vars
  PROVE  ThresholdInv' /\ threshold' \in [Sensors -> 0 .. 3]
<1> DEFINE x == task["asc"]
           y == task'["asc"]
           N == Cardinality(Sensors)
           H(s, p, i, j) ==
             /\ s > 0 /\ p # "scan"
             /\ p \in {"raise", "one", "threshold"} => j < i
             /\ p \in {"judge", "lock", "set"} => j <= i
           C(r, h, j) == \A l \in DOMAIN Limits : r[j].value >= Limits[l] => h[j] >= l
<1>1. \A j \in Sensors : H(scans, x.pc, x.i, j) => C(readings, threshold, j)
  BY DEF ThresholdInv, Handled, Covered
<1>2. SUFFICES /\ \A j \in Sensors : H(scans', y.pc, y.i, j) => C(readings', threshold', j)
               /\ threshold' \in [Sensors -> 0 .. 3]
  BY DEF ThresholdInv, Handled, Covered
<1>3. /\ Sensors = 1 .. N /\ N \in Nat /\ x.i \in 0 .. N + 1 /\ scans \in Nat
      /\ threshold \in [Sensors -> 0 .. 3] /\ DOMAIN Limits \subseteq 1 .. 3
      /\ \A l \in DOMAIN Limits : Limits[l] \in Nat
      /\ \A j \in Sensors : readings[j].value \in Nat
  <2>1. \A j \in Sensors : readings[j].value \in Nat
    BY HighestIs DEF TypeOK, Readings
  <2>2. threshold \in [Sensors -> 0 .. 3]
    BY DEF TypeOK
  <2>3. scans \in Nat
    BY TelemetryAssumption DEF CountInv
  <2> QED BY <2>1, <2>2, <2>3, HighestIs, TelemetryAssumption DEF TaskInv, Task, Modules, Levels
<1>4. CASE AscActs
  <2>1. CASE ScanStart \/ ScanSensor
    <3>1. threshold' = threshold
      BY <2>1 DEF ScanStart, ScanSensor
    <3>2. y.pc = "scan"
      BY <1>4, <2>1, AscMoves DEF AscActs, Is, ScanStart, ScanSensor, ScanEnd
    <3> QED BY <1>3, <3>1, <3>2
  <2>2. CASE BimThreshold
    <3>1. PICK i \in Sensors : i = x.i
      BY <2>2 DEF BimThreshold, TaskInv, Handling
    <3>2. PICK ev : ev = Level(readings[i].value)
      OBVIOUS
    <3>3. PICK m : m = Max({threshold[i], ev})
      OBVIOUS
    <3>4. /\ x.pc = "threshold" /\ UNCHANGED <<readings, scans>>
          /\ threshold' = [threshold EXCEPT ![i] = m]
      BY <2>2, <3>1, <3>2, <3>3 DEF BimThreshold, TaskInv
    <3>5. y.pc = "judge" /\ y.i = i
      BY <1>4, <3>1, <3>4, AscMoves DEF AscActs, Is
    <3>6. ev \in 0 .. 3 /\ \A l \in DOMAIN Limits : readings[i].value >= Limits[l] => l <= ev
      BY <1>3, <3>2, LevelIs
    <3>7. m \in 0 .. 3 /\ ev <= m /\ threshold[i] <= m
      <4>1. m = IF threshold[i] >= ev THEN threshold[i] ELSE ev
        BY <1>3, <3>3, <3>6, OfTwo
      <4> QED BY <1>3, <3>6, <4>1
    <3>8. C(readings, threshold', i)
      BY <1>3, <3>4, <3>6, <3>7
    <3>9. \A j \in Sensors : H(scans, y.pc, y.i, j) /\ j # i => H(scans, x.pc, x.i, j)
      BY <1>3, <3>1, <3>4, <3>5
    <3>10. \A j \in Sensors : C(readings, threshold, j) => C(readings, threshold', j)
      BY <1>3, <3>4, <3>7
    <3> QED BY <1>1, <1>3, <3>4, <3>7, <3>8, <3>9, <3>10
  <2>3. CASE ~ (ScanStart \/ ScanSensor \/ BimThreshold)
    <3>1. UNCHANGED <<readings, scans, threshold>>
      BY <2>3, Frames
    <3>2. \A j \in Sensors : H(scans, y.pc, y.i, j) /\ ~ H(scans, x.pc, x.i, j) => C(readings, threshold, j)
      <4>1. CASE Raise
        <5>1. /\ x.pc = "raise" /\ x.i \in Sensors
              /\ IF Level(readings[x.i].value) = 0 THEN Is(y, "raise", x.i + 1, x.ev)
                 ELSE y.pc = "one" /\ y.i = x.i
          BY <1>4, <4>1, AscMoves DEF AscActs, Is, Raise, ScanStart, ScanSensor, ScanEnd, AsdmOne, BimThreshold,
             AsdmAll, AsdmTake, AsdmUpdate, AsdmTotal
        <5>2. Level(readings[x.i].value) = 0 => C(readings, threshold, x.i)
          BY <1>3, <5>1, LevelIs
        <5> QED BY <1>3, <5>1, <5>2 DEF Is
      <4>2. CASE ~ Raise
        <5>1. \/ x.pc = "scan" /\ Is(y, "raise", 1, 0)
              \/ x.pc = "one" /\ Is(y, "threshold", x.i, x.ev)
              \/ x.pc = "raise" /\ x.i \notin Sensors /\ Is(y, "take", x.i, x.ev)
              \/ x.pc = "take" /\ Is(y, "update", 1, 0)
              \/ x.pc = "update" /\ y.pc = "update"
              \/ x.pc = "update" /\ x.i \notin Sensors /\ Is(y, "judge", x.i, x.ev)
          BY <1>4, <2>3, <4>2, AscMoves DEF AscActs, Is
        <5>2. x.pc = "raise" => x.i > 0
          BY DEF TaskInv
        <5> QED BY <1>3, <5>1, <5>2 DEF Is
      <4> QED BY <4>1, <4>2
    <3> QED BY <1>1, <1>3, <3>1, <3>2
  <2> QED BY <2>1, <2>2, <2>3
<1>5. CASE ~ AscActs
  <2>1. UNCHANGED <<readings, scans, threshold>>
    BY <1>5, Frames DEF AscActs
  <2>2. \/ y = x
        \/ x.pc \in {"judge", "lock", "set"} /\ Is(y, "lock", x.i, x.ev)
        \/ x.pc \in {"judge", "lock", "set"} /\ Is(y, "set", x.i, x.ev)
        \/ x.pc \in {"judge", "lock", "set"} /\ Back("asc")
    <3>1. CASE ApcActs
      BY <3>1, ApcMoves DEF ApcActs, Moves, Modules
    <3>2. ASSUME NEW t \in Modules, Bim(t)
          PROVE  \/ y = x
                 \/ x.pc \in {"judge", "lock", "set"} /\ Is(y, "lock", x.i, x.ev)
                 \/ x.pc \in {"judge", "lock", "set"} /\ Is(y, "set", x.i, x.ev)
                 \/ x.pc \in {"judge", "lock", "set"} /\ Back("asc")
      BY <3>2, BimMoves DEF Moves, Modules
    <3>3. CASE Host
      BY <3>3, HostRests
    <3> QED BY <1>5, <3>1, <3>2, <3>3, Steps
  <2>3. x.pc \in {"judge", "lock", "set"} /\ x.ev = 0 => x.i = N + 1
    BY DEF TaskInv, Handling
  <2>4. \A j \in Sensors : H(scans, y.pc, y.i, j) => H(scans, x.pc, x.i, j)
    BY <1>3, <2>2, <2>3 DEF Is, Back
  <2> QED BY <1>1, <1>3, <2>1, <2>4
<1> QED BY <1>4, <1>5

\* The cap of a module.
LEMMA CapIs ==
  \A a \in 0 .. 3 : \A m \in Modules : Min({a, Cap[m]}) = IF a <= 2 THEN a ELSE 2
<1> SUFFICES ASSUME NEW a \in 0 .. 3, NEW m \in Modules PROVE Min({a, Cap[m]}) = IF a <= 2 THEN a ELSE 2
  OBVIOUS
<1>1. Cap[m] = 2
  BY DEF Cap, Critical
<1>2. Min({a, 2}) = IF a <= 2 THEN a ELSE 2
  BY OfTwo
<1> QED BY <1>1, <1>2

\* A task that is about to set the health got there by judging its event.
LEMMA Rests ==
  ASSUME TypeOK, TaskInv, [Next]_vars, NEW m \in Modules, ~ Judge(m), task'[m].pc \in {"lock", "set"}
  PROVE  task[m].pc \in {"lock", "set"} /\ task'[m].ev = task[m].ev
<1>1. CASE AscActs
  <2>1. CASE m = "asc"
    BY <1>1, <2>1, AscMoves DEF AscActs, Is
  <2>2. CASE m # "asc"
    BY <1>1, <2>2, AscMoves DEF AscActs, Moves
  <2> QED BY <2>1, <2>2
<1>2. CASE ApcActs
  <2>1. CASE m = "apc"
    BY <1>2, <2>1, ApcMoves DEF ApcActs, Is
  <2>2. CASE m # "apc"
    BY <1>2, <2>2, ApcMoves DEF ApcActs, Moves
  <2> QED BY <2>1, <2>2
<1>3. ASSUME NEW t \in Modules, Bim(t)
      PROVE  task[m].pc \in {"lock", "set"} /\ task'[m].ev = task[m].ev
  <2>1. CASE m = t
    BY <1>3, <2>1, BimMoves DEF Is, Back
  <2>2. CASE m # t
    BY <1>3, <2>2, BimMoves DEF Moves
  <2> QED BY <2>1, <2>2
<1>4. CASE Host
  BY <1>4, HostRests
<1> QED BY <1>1, <1>2, <1>3, <1>4, Steps

\* The health of the card shows what the modules have noted.
LEMMA HealthKept ==
  ASSUME TypeOK, TaskInv, HealthInv, [Next]_vars
  PROVE  /\ HealthInv'
         /\ health' \in 0 .. 3 /\ current' \in [Modules -> 0 .. 3] /\ compared' \in [Modules -> 0 .. 3]
         /\ excused' \in BOOLEAN
<1> DEFINE Shows(h, c) == \A m \in Modules : h >= IF c[m] <= 2 THEN c[m] ELSE 2
           Less(a, c, t) == \A m \in Modules : t[m].pc \in {"lock", "set"} => a[m] < t[m].ev /\ c[m] < t[m].ev
           Types == /\ health' \in 0 .. 3 /\ current' \in [Modules -> 0 .. 3]
                    /\ compared' \in [Modules -> 0 .. 3] /\ excused' \in BOOLEAN
<1>1. /\ health \in 0 .. 3 /\ current \in [Modules -> 0 .. 3] /\ compared \in [Modules -> 0 .. 3]
      /\ excused \in BOOLEAN
  BY DEF TypeOK
<1>2. \A a \in 0 .. 3 : \A m \in Modules : Min({a, Cap[m]}) = IF a <= 2 THEN a ELSE 2
  BY CapIs
<1>3. (~ excused => Shows(health, current)) /\ Less(compared, current, task)
  BY <1>1, <1>2 DEF HealthInv
<1>4. SUFFICES Types /\ (~ excused' => Shows(health', current')) /\ Less(compared', current', task')
  <2>1. \A m \in Modules : current'[m] \in 0 .. 3
    BY <1>4
  <2> QED BY <1>2, <1>4, <2>1 DEF HealthInv
<1>5. ASSUME NEW t \in Modules, Judge(t) \/ SetTimeout(t) \/ SetHealth(t)
      PROVE  Types /\ (~ excused' => Shows(health', current')) /\ Less(compared', current', task')
  <2>1. PICK ev : ev = task[t].ev
    OBVIOUS
  <2>2. ev \in 0 .. 3
    BY <2>1 DEF TaskInv, Task
  <2>3. (\A m \in Modules \ {t} : task'[m] = task[m]) /\ Bim(t)
    BY <1>5, BimMoves DEF Bim, Moves
  <2>4. CASE Judge(t)
    <3>1. UNCHANGED <<health, excused>>
      BY <2>4 DEF Judge
    <3>2. CASE Worse(t, ev)
      <4>1. compared' = [compared EXCEPT ![t] = health] /\ UNCHANGED current
        BY <2>1, <2>4, <3>2 DEF Judge
      <4>2. Is(task'[t], "lock", task[t].i, ev)
        <5>1. task \in [Modules -> Task] /\ "lock" \in AscPcs \cup ApcPcs
          BY DEF TaskInv, AscPcs
        <5>2. Goto(t, "lock")
          BY <2>1, <2>4, <3>2 DEF Judge
        <5> QED BY <2>1, <5>1, <5>2, Going
      <4>3. health < ev /\ current[t] < ev
        BY <3>2, <1>1, <2>2 DEF Worse
      <4>4. Less(compared', current', task')
        BY <1>1, <1>3, <2>3, <4>1, <4>2, <4>3 DEF Is
      <4> QED BY <1>1, <1>3, <3>1, <4>1, <4>4
    <3>3. CASE ~ Worse(t, ev)
      <4>1. PICK m : m = Max({current[t], ev})
        OBVIOUS
      <4>2. m = IF current[t] >= ev THEN current[t] ELSE ev
        BY <1>1, <2>2, <4>1, OfTwo
      <4>3. current' = [current EXCEPT ![t] = m] /\ compared' = compared
        BY <2>1, <2>4, <3>3, <4>1 DEF Judge
      <4>4. Back(t)
        <5>1. task' = [task EXCEPT ![t] = Returned(t)] /\ task[t].pc = "judge"
          BY <2>1, <2>4, <3>3 DEF Judge
        <5> QED BY <5>1, ComingBack
      <4>5. task'[t].pc \notin {"lock", "set"}
        BY <4>4 DEF Back, Is
      <4>6. ~ excused' => Shows(health', current')
        BY <1>1, <1>3, <2>2, <3>1, <3>3, <4>2, <4>3 DEF Worse
      <4>7. Less(compared', current', task')
        BY <1>1, <1>3, <2>3, <4>3, <4>5
      <4> QED BY <1>1, <2>2, <3>1, <4>2, <4>3, <4>6, <4>7
    <3> QED BY <3>2, <3>3
  <2>5. CASE SetTimeout(t) \/ SetHealth(t)
    <3>1. compared' = compared /\ task[t].pc \in {"lock", "set"} /\ task' = [task EXCEPT ![t] = Returned(t)]
      BY <2>5 DEF SetTimeout, SetHealth
    <3>2. Back(t)
      BY <3>1, ComingBack
    <3>3. task'[t].pc \notin {"lock", "set"}
      BY <3>2 DEF Back, Is
    <3>4. Less(compared', current', task')
      <4>1. current' = [current EXCEPT ![t] = ev]
        BY <2>1, <2>5 DEF SetTimeout, SetHealth
      <4> QED BY <1>1, <1>3, <2>3, <3>1, <3>3, <4>1
    <3>5. compared[t] < ev
      BY <1>3, <2>1, <3>1
    <3>6. CASE SetTimeout(t)
      <4>1. excused' /\ health' = health /\ current' = [current EXCEPT ![t] = ev]
        BY <2>1, <3>6 DEF SetTimeout
      <4>2. excused' \in BOOLEAN
        BY <3>6 DEF SetTimeout
      <4> QED BY <1>1, <2>2, <3>1, <3>4, <4>1, <4>2
    <3>7. CASE SetHealth(t)
      <4>1. /\ health' = IF ev >= 2 THEN 2 ELSE ev
            /\ current' = [current EXCEPT ![t] = ev]
            /\ ~ excused' => ~ excused /\ ~ (health # compared[t] /\ health' < health)
            /\ excused' \in BOOLEAN
        BY <2>1, <3>7 DEF SetHealth, Cap, Critical
      <4>2. ~ excused' => Shows(health', current')
        <5> SUFFICES ASSUME ~ excused' PROVE Shows(health', current')
          OBVIOUS
        <5>1. ~ (health' < health) \/ health < ev
          BY <3>5, <4>1
        <5>2. health' >= IF health <= 2 THEN health ELSE 2
          BY <1>1, <2>2, <4>1, <5>1
        <5> QED BY <1>1, <1>3, <2>2, <4>1, <5>2
      <4> QED BY <1>1, <2>2, <3>1, <3>4, <4>1, <4>2
    <3> QED BY <2>5, <3>6, <3>7
  <2> QED BY <1>5, <2>4, <2>5
<1>6. CASE UNCHANGED healthVars
  <2>1. UNCHANGED <<health, current, compared, excused>>
    BY <1>6 DEF healthVars
  <2>2. CASE \E t \in Modules : Judge(t) \/ SetTimeout(t) \/ SetHealth(t)
    BY <1>5, <2>2
  <2>3. CASE ~ \E t \in Modules : Judge(t) \/ SetTimeout(t) \/ SetHealth(t)
    <3>1. \A m \in Modules : task'[m].pc \in {"lock", "set"} =>
            task[m].pc \in {"lock", "set"} /\ task'[m].ev = task[m].ev
      BY <2>3, Rests
    <3>2. Less(compared', current', task')
      BY <1>3, <2>1, <3>1
    <3> QED BY <1>1, <1>3, <2>1, <3>2
  <2> QED BY <2>2, <2>3
<1> QED BY <1>5, <1>6, Frames

\* What the tasks do outside the BIM leaves the health alone.
LEMMA BimRests ==
  /\ AscActs => UNCHANGED <<bimVars, raiseVars, healthVars>>
  /\ ApcActs => UNCHANGED <<healthVars, threshold>>
  /\ \A t \in Modules : Bim(t) => UNCHANGED <<raiseVars, threshold>>
<1>1. AscActs => UNCHANGED bimVars
  BY DEF AscActs, ScanStart, ScanSensor, ScanEnd, Raise, AsdmOne, BimThreshold, AsdmAll, AsdmTake,
         AsdmUpdate, AsdmTotal
<1>2. ApcActs => UNCHANGED <<healthVars, threshold>>
  <2>1. ASSUME FetchTake \/ Fetch \/ FetchEnd PROVE UNCHANGED <<healthVars, threshold>>
    BY <2>1 DEF FetchTake, Fetch, FetchEnd, bimVars, healthVars, ascVars
  <2>2. ASSUME NEW e, NEW pc, ApcOp(e, pc) PROVE UNCHANGED <<healthVars, threshold>>
    BY <2>2 DEF ApcOp, healthVars, ascVars
  <2> QED BY <2>1, <2>2, ApcRaised DEF ApcActs
<1>3. \A t \in Modules : Bim(t) => UNCHANGED <<raiseVars, threshold>>
  BY DEF Bim, Judge, SetTake, SetTimeout, SetHealth, bimVars, ascVars
<1>4. UNCHANGED bimVars => UNCHANGED <<raiseVars, healthVars>>
  BY DEF bimVars, raiseVars, healthVars
<1> QED BY <1>1, <1>2, <1>3, <1>4

\* What judging an event does to the health and to what the module has noted.
LEMMA BimSets ==
  ASSUME TypeOK, TaskInv, HealthInv, NEW t \in Modules, Bim(t)
  PROVE  LET ev == task[t].ev IN
         \/ UNCHANGED <<health, current>> /\ task'[t].ev = ev /\ Noting(t) /\ Noting(t)' /\ task'[t].i = task[t].i
         \/ /\ Back(t) /\ Noting(t)
            /\ \A m \in Modules \ {t} : current'[m] = current[m]
            /\ current'[t] \in 0 .. 3 /\ current'[t] >= current[t] /\ current'[t] >= ev
            /\ health' = health \/ (0 < ev /\ health' <= ev /\ health' \in 0 .. 3)
<1>1. /\ current \in [Modules -> 0 .. 3] /\ task[t].ev \in 0 .. 3 /\ health \in 0 .. 3
      /\ compared \in [Modules -> 0 .. 3]
      /\ task[t].pc \in {"lock", "set"} => compared[t] < task[t].ev /\ current[t] < task[t].ev
  BY DEF TypeOK, TaskInv, Task, HealthInv
<1>2. CASE (Judge(t) /\ Worse(t, task[t].ev)) \/ SetTake(t)
  <2>1. UNCHANGED <<health, current>>
    BY <1>2 DEF Judge, SetTake, bimVars
  <2>2. /\ task \in [Modules -> Task] /\ {"lock", "set"} \subseteq AscPcs \cup ApcPcs
        /\ task[t].pc \in {"judge", "lock"} /\ (Goto(t, "lock") \/ Goto(t, "set"))
    BY <1>2 DEF Judge, SetTake, TaskInv, AscPcs
  <2>3. Is(task'[t], "lock", task[t].i, task[t].ev) \/ Is(task'[t], "set", task[t].i, task[t].ev)
    BY <2>2, Going
  <2> QED BY <2>1, <2>2, <2>3 DEF Noting, Is
<1>3. CASE Judge(t) /\ ~ Worse(t, task[t].ev)
  <2>1. /\ task[t].pc = "judge" /\ task' = [task EXCEPT ![t] = Returned(t)] /\ health' = health
        /\ current' = [current EXCEPT ![t] = Max({@, task[t].ev})]
    BY <1>3 DEF Judge
  <2>2. Back(t)
    BY <2>1, ComingBack
  <2>3. Max({current[t], task[t].ev}) = IF current[t] >= task[t].ev THEN current[t] ELSE task[t].ev
    BY <1>1, OfTwo
  <2> QED BY <1>1, <2>1, <2>2, <2>3 DEF Noting
<1>4. CASE SetTimeout(t) \/ SetHealth(t)
  <2>1. /\ task[t].pc \in {"lock", "set"} /\ task' = [task EXCEPT ![t] = Returned(t)]
        /\ current' = [current EXCEPT ![t] = task[t].ev]
    BY <1>4 DEF SetTimeout, SetHealth
  <2>2. Back(t)
    BY <2>1, ComingBack
  <2>3. health' = health \/ health' = IF task[t].ev >= 2 THEN 2 ELSE task[t].ev
    BY <1>4 DEF SetTimeout, SetHealth, Cap, Critical
  <2> QED BY <1>1, <2>1, <2>2, <2>3 DEF Noting
<1> QED BY <1>2, <1>3, <1>4 DEF Bim

\* Each module has noted what it has raised, and the card looks no worse.
LEMMA RaisedKept ==
  ASSUME TypeOK, TaskInv, HealthInv, RaisedInv, [Next]_vars
  PROVE  RaisedInv' /\ raised' \in 0 .. 3 /\ shifted' \in BOOLEAN
<1> DEFINE x == task["asc"]
           y == task["apc"]
<1>1. /\ current \in [Modules -> 0 .. 3] /\ threshold \in [Sensors -> 0 .. 3] /\ health \in 0 .. 3
      /\ raised \in 0 .. 3 /\ shifted \in BOOLEAN
      /\ x.ev \in 0 .. 3 /\ y.ev \in 0 .. 3 /\ "asc" \in Modules /\ "apc" \in Modules /\ Modules = {"asc", "apc"}
  BY DEF TypeOK, TaskInv, Task, Modules
<1>2. /\ \A j \in Sensors : threshold[j] <= current["asc"] \/ (Noting("asc") /\ j = x.i /\ threshold[j] <= x.ev)
      /\ raised <= current["apc"] \/ (~ Resting("apc") /\ raised <= y.ev)
      /\ Noting("asc") /\ x.i \in Sensors => x.ev <= threshold[x.i]
      /\ y.ev <= raised \/ shifted \/ y.pc = "idle"
      /\ shifted \/ health <= raised \/ \E j \in Sensors : health <= threshold[j]
  BY DEF RaisedInv
<1>3. CASE AscActs
  <2>1. UNCHANGED <<health, current, raised, shifted>> /\ task'["apc"] = y
    BY <1>1, <1>3, BimRests, AscMoves DEF healthVars, raiseVars, AscActs, Moves
  <2>2. Resting("apc")' = Resting("apc")
    BY <2>1 DEF Resting
  <2>3. CASE BimThreshold
    <3>1. /\ x.pc = "threshold" /\ x.i \in Sensors /\ Is(task'["asc"], "judge", x.i, x.ev)
      <4>1. x.pc = "threshold" /\ Goto("asc", "judge") /\ x.i \in Sensors
        BY <2>3 DEF BimThreshold, TaskInv, Handling
      <4>2. task \in [Modules -> Task] /\ "judge" \in AscPcs \cup ApcPcs
        BY DEF TaskInv, AscPcs
      <4> QED BY <1>1, <4>1, <4>2, Going
    <3>2. PICK m : m = Max({threshold[x.i], x.ev})
      OBVIOUS
    <3>3. m = IF threshold[x.i] >= x.ev THEN threshold[x.i] ELSE x.ev
      <4>1. threshold[x.i] \in Int /\ x.ev \in Int
        BY <1>1, <3>1
      <4> QED BY <3>2, <4>1, OfTwo
    <3>4. threshold' = [threshold EXCEPT ![x.i] = m]
      BY <2>3, <3>2 DEF BimThreshold
    <3>5. ~ Noting("asc") /\ Noting("asc")'
      BY <3>1 DEF Noting, Is
    <3>6. \A j \in Sensors : threshold'[j] <= current["asc"] \/ (j = x.i /\ threshold'[j] <= x.ev)
      BY <1>1, <1>2, <3>1, <3>3, <3>4, <3>5
    <3>7. x.ev <= threshold'[x.i] /\ \A j \in Sensors : threshold[j] <= threshold'[j] /\ threshold'[j] \in 0 .. 3
      BY <1>1, <3>1, <3>3, <3>4
    <3>8. shifted \/ health <= raised \/ \E j \in Sensors : health <= threshold'[j]
      BY <1>1, <1>2, <3>7
    <3> QED BY <1>1, <1>2, <2>1, <2>2, <3>1, <3>5, <3>6, <3>7, <3>8 DEF RaisedInv, Is
  <2>4. CASE ~ BimThreshold
    <3>1. threshold' = threshold
      BY <2>4, Frames
    <3>2. ~ Noting("asc") /\ (Noting("asc")' => task'["asc"].i \notin Sensors)
      BY <1>3, <2>4, AscMoves DEF AscActs, Noting, Is
    <3> QED BY <1>1, <1>2, <2>1, <2>2, <3>1, <3>2 DEF RaisedInv
  <2> QED BY <2>3, <2>4
<1>4. CASE ApcActs
  <2>1. UNCHANGED <<health, current, threshold>> /\ task'["asc"] = x
    BY <1>1, <1>4, BimRests, ApcMoves DEF healthVars, ApcActs, Moves
  <2>2. Noting("asc")' = Noting("asc")
    BY <2>1 DEF Noting
  <2>3. CASE ApcEvent \/ ApcTable
    <3>1. PICK e \in 0 .. 10, pc \in {"take", "judge"} : ApcOp(e, pc)
      BY <2>3, ApcRaised
    <3>2. /\ y.pc = "idle" /\ task' = [task EXCEPT !["apc"] = At(pc, 0, ApcStatus[e])]
          /\ IF e < FptUpdate THEN raised' = Max({raised, Declared[e]}) /\ UNCHANGED shifted
             ELSE shifted' = TRUE /\ UNCHANGED raised
      BY <3>1 DEF ApcOp, At
    <3>3. ApcStatus[e] \in {0, 2} /\ (e < FptUpdate => ApcStatus[e] = Declared[e])
      BY StatusIs DEF Critical
    <3>4. Is(task'["apc"], pc, 0, ApcStatus[e])
      <4>1. task \in [Modules -> Task] /\ pc \in AscPcs \cup ApcPcs /\ 0 \in 0 .. Cardinality(Sensors) + 1
        BY HighestIs DEF TaskInv, AscPcs
      <4>2. ApcStatus[e] \in 0 .. 3
        BY <3>3
      <4> QED BY <1>1, <3>2, <4>1, <4>2, Starting
    <3>5. ~ Resting("apc")' /\ Resting("apc")
      BY <3>2, <3>4 DEF Resting, Is
    <3>6. CASE e < FptUpdate
      <4>1. Max({raised, Declared[e]}) = IF raised >= Declared[e] THEN raised ELSE Declared[e]
        <5>1. raised \in Int /\ Declared[e] \in Int
          BY <1>1, <3>3, <3>6
        <5> QED BY <5>1, OfTwo
      <4> QED BY <1>1, <1>2, <2>1, <2>2, <3>2, <3>3, <3>4, <3>5, <3>6, <4>1 DEF RaisedInv, Is
    <3>7. CASE ~ (e < FptUpdate)
      BY <1>1, <1>2, <2>1, <2>2, <3>2, <3>4, <3>5, <3>7 DEF RaisedInv, Is
    <3> QED BY <3>6, <3>7
  <2>4. CASE FetchTake \/ Fetch \/ FetchEnd
    <3>1. UNCHANGED <<raised, shifted>>
      BY <2>4 DEF FetchTake, Fetch, FetchEnd, bimVars, raiseVars
    <3>2. task'["apc"].ev = y.ev /\ ~ Resting("apc") /\ ~ Resting("apc")'
      <4>1. /\ task \in [Modules -> Task] /\ {"fetch", "populate", "judge"} \subseteq AscPcs \cup ApcPcs
            /\ y.pc \in {"take", "fetch", "populate"}
            /\ \E pc \in {"fetch", "populate", "judge"} : Goto("apc", pc)
        BY <2>4 DEF FetchTake, Fetch, FetchEnd, TaskInv, AscPcs, ApcPcs
      <4>2. \E pc \in {"fetch", "populate", "judge"} : Is(task'["apc"], pc, y.i, y.ev)
        BY <1>1, <4>1, Going
      <4> QED BY <4>1, <4>2 DEF Is, Resting
    <3>3. y.pc # "idle" /\ task'["apc"].pc # "idle"
      BY <3>2 DEF Resting
    <3> QED BY <1>1, <1>2, <2>1, <2>2, <3>1, <3>2, <3>3 DEF RaisedInv
  <2> QED BY <1>4, <2>3, <2>4 DEF ApcActs
<1>5. ASSUME NEW t \in Modules, Bim(t)
      PROVE  RaisedInv' /\ raised' \in 0 .. 3 /\ shifted' \in BOOLEAN
  <2>1. UNCHANGED <<raised, shifted, threshold>> /\ \A m \in Modules \ {t} : task'[m] = task[m]
    BY <1>5, BimRests, BimMoves DEF raiseVars, Moves
  <2>2. \A m \in Modules \ {t} : Noting(m)' = Noting(m) /\ Resting(m)' = Resting(m)
    BY <2>1 DEF Noting, Resting
  <2>3. CASE UNCHANGED <<health, current>> /\ task'[t].ev = task[t].ev /\ Noting(t) /\ Noting(t)' /\ task'[t].i = task[t].i
    <3>1. ~ Resting(t) /\ ~ Resting(t)' /\ task[t].pc # "idle" /\ task'[t].pc # "idle"
      BY <2>3 DEF Noting, Resting
    <3>2. CASE t = "asc"
      BY <1>1, <1>2, <2>1, <2>2, <2>3, <3>1, <3>2 DEF RaisedInv
    <3>3. CASE t = "apc"
      BY <1>1, <1>2, <2>1, <2>2, <2>3, <3>1, <3>3 DEF RaisedInv
    <3> QED BY <1>1, <3>2, <3>3
  <2>4. CASE /\ Back(t) /\ Noting(t)
             /\ \A m \in Modules \ {t} : current'[m] = current[m]
             /\ current'[t] \in 0 .. 3 /\ current'[t] >= current[t] /\ current'[t] >= task[t].ev
             /\ health' = health \/ (0 < task[t].ev /\ health' <= task[t].ev /\ health' \in 0 .. 3)
    <3>1. ~ Noting(t)'
      BY <2>4 DEF Noting, Back, Is
    <3>2. CASE t = "asc"
      <4>1. x.ev > 0 => x.i \in Sensors
        BY <2>4, <3>2 DEF Noting, TaskInv, Handling
      <4>2. \A j \in Sensors : threshold[j] <= current'["asc"]
        BY <1>1, <1>2, <2>4, <3>2
      <4>3. shifted \/ health' <= raised \/ \E j \in Sensors : health' <= threshold[j]
        BY <1>1, <1>2, <2>4, <3>2, <4>1
      <4>4. task'["apc"] = y /\ current'["apc"] = current["apc"] /\ Resting("apc")' = Resting("apc")
        BY <1>1, <2>1, <2>2, <2>4, <3>2
      <4> QED BY <1>1, <1>2, <2>1, <3>1, <3>2, <4>2, <4>3, <4>4 DEF RaisedInv
    <3>3. CASE t = "apc"
      <4>1. y.pc # "idle" /\ task'["apc"].pc = "idle"
        BY <2>4, <3>3 DEF Noting, Back, Is
      <4>2. raised <= current'["apc"]
        BY <1>1, <1>2, <2>4, <3>3
      <4>3. shifted \/ health' <= raised \/ \E j \in Sensors : health' <= threshold[j]
        BY <1>1, <1>2, <2>4, <3>3, <4>1
      <4>4. task'["asc"] = x /\ current'["asc"] = current["asc"] /\ Noting("asc")' = Noting("asc")
        BY <1>1, <2>1, <2>2, <2>4, <3>3
      <4> QED BY <1>1, <1>2, <2>1, <3>3, <4>1, <4>2, <4>3, <4>4 DEF RaisedInv
    <3> QED BY <1>1, <3>2, <3>3
  <2> QED BY <1>5, <2>3, <2>4, BimSets
<1>6. CASE Host
  <2>1. UNCHANGED <<bimVars, task, threshold>>
    BY <1>6, HostRests DEF ascVars
  <2> QED BY <1>1, <1>2, <2>1 DEF RaisedInv, Noting, Resting, bimVars, raiseVars
<1> QED BY <1>3, <1>4, <1>5, <1>6, Steps

\* The record that the ASDM makes of the tables is whole, and of those there are.
LEMMA PopulatedIs ==
  ASSUME NEW f, \A d \in Devices : fpt[d] # Absent =>
           /\ fpt[d].hdr \in Headers /\ fpt[d].parts \in Tables \cup {None} /\ fpt[d].valid \in BOOLEAN
           /\ fpt[d].valid => fpt[d].hdr = fpt[d].parts /\ fpt[d].hdr \in Tables
           /\ d \notin spoiled => fpt[d].valid,
         fpt["primary"] # Absent, f = Fetched(fpt)
  PROVE  /\ f \in [Devices -> Entries] /\ Populated(f) \in [Devices -> Entries]
         /\ FetchOk(fpt) /\ "primary" \notin spoiled =>
              \A d \in Devices : Populated(f)[d].parts = Populated(f)[d].hdr
         /\ \A d \in Devices : Populated(f)[d].hdr = IF fpt[d] = Absent THEN None ELSE fpt[d].hdr
         /\ spoiled = {} => FetchOk(fpt)
<1>1. /\ Devices = {"primary", "secondary"} /\ None \in Tables \cup {None} /\ None \in Headers
      /\ None \notin Tables /\ Entries = [hdr : Headers, parts : Tables \cup {None}]
  BY TelemetryAssumption DEF Devices, Headers, Entries
<1> DEFINE g == Populated(f)
<1>2. /\ DOMAIN f = Devices
      /\ \A d \in Devices : f[d] = IF fpt[d] = Absent THEN Entry(None, None)
                                   ELSE Entry(fpt[d].hdr, IF fpt[d].valid THEN fpt[d].parts ELSE None)
  BY DEF Fetched
<1>3. \A h \in Headers, p \in Tables \cup {None} : Entry(h, p) \in Entries
  BY <1>1 DEF Entry
<1>4. f \in [Devices -> Entries]
  <2>1. \A d \in Devices : f[d] \in Entries
    BY <1>1, <1>2, <1>3
  <2>2. f = [d \in Devices |-> f[d]]
    BY <1>2 DEF Fetched
  <2> QED BY <2>1, <2>2
<1>5. /\ \A d \in Devices : f[d].hdr = IF fpt[d] = Absent THEN None ELSE fpt[d].hdr
      /\ \A d \in Devices : fpt[d] = Absent => f[d].parts = None
      /\ \A d \in Devices : fpt[d] # Absent => f[d].parts = IF fpt[d].valid THEN fpt[d].parts ELSE None
  BY <1>2 DEF Entry
<1>6. g = IF f["primary"].parts = None THEN [f EXCEPT !["secondary"].parts = None] ELSE f
  BY DEF Populated
<1> HIDE DEF g
<1>7. g \in [Devices -> Entries] /\ \A d \in Devices : g[d].hdr = f[d].hdr
  <2>1. CASE g = f
    BY <1>4, <2>1
  <2>2. CASE g = [f EXCEPT !["secondary"].parts = None]
    <3>1. PICK e : e = f["secondary"]
      OBVIOUS
    <3>2. e \in Entries /\ g = [f EXCEPT !["secondary"] = [e EXCEPT !.parts = None]]
      BY <1>1, <1>4, <2>2, <3>1
    <3>3. [e EXCEPT !.parts = None] \in Entries /\ [e EXCEPT !.parts = None].hdr = e.hdr
      BY <1>1, <3>2
    <3> QED BY <1>1, <1>4, <3>1, <3>2, <3>3
  <2> QED BY <1>6, <2>1, <2>2
<1>8. ASSUME FetchOk(fpt), "primary" \notin spoiled PROVE \A d \in Devices : g[d].parts = g[d].hdr
  <2>1. fpt["primary"].valid
    BY <1>1, <1>8
  <2>2. g = f
    BY <1>1, <1>5, <1>6, <2>1
  <2>3. fpt["secondary"] # Absent => fpt["secondary"].valid
    BY <1>8 DEF FetchOk
  <2> QED BY <1>1, <1>5, <2>1, <2>2, <2>3
<1>9. spoiled = {} => FetchOk(fpt)
  BY <1>1 DEF FetchOk
<1> QED BY <1>4, <1>5, <1>7, <1>8, <1>9 DEF g

\* The tables of the APC, and the record of the ASDM.
LEMMA TableKept ==
  ASSUME TypeOK, TaskInv, TableInv, [Next]_vars
  PROVE  TableInv' /\ fetched' \in [Devices -> Entries] /\ record' \in [Devices -> Entries]
<1> DEFINE x == task["apc"].pc
           y == task'["apc"].pc
           FptIs(f, s) ==
             /\ DOMAIN f = Devices /\ f["primary"] # Absent /\ s \subseteq Devices
             /\ \A d \in Devices : f[d] # Absent =>
                  /\ f[d] \in [valid : BOOLEAN, hdr : Headers, parts : Tables \cup {None}]
                  /\ f[d].valid => f[d].hdr = f[d].parts /\ f[d].hdr \in Tables
                  /\ d \notin s => f[d].valid
           Rest(p) == p \notin {"take", "fetch", "populate"}
           Hdrs(f, r) == \A d \in Devices : r[d].hdr = IF f[d] = Absent THEN None ELSE f[d].hdr
           Whole(r) == \A d \in Devices : r[d].parts = r[d].hdr
<1>1. /\ FptIs(fpt, spoiled)
      /\ x = "populate" => fetched = Fetched(fpt)
      /\ "primary" \notin spoiled => Whole(record)
      /\ spoiled = {} /\ boot.listed /\ Rest(x) => Hdrs(fpt, record)
  BY DEF TableInv, FptOf
<1>2. fetched \in [Devices -> Entries] /\ record \in [Devices -> Entries]
  BY DEF TypeOK
<1>3. UNCHANGED boot
  BY Frames
<1>4. SUFFICES /\ FptIs(fpt', spoiled')
               /\ y = "populate" => fetched' = Fetched(fpt')
               /\ "primary" \notin spoiled' => Whole(record')
               /\ spoiled' = {} /\ boot.listed /\ Rest(y) => Hdrs(fpt', record')
               /\ fetched' \in [Devices -> Entries] /\ record' \in [Devices -> Entries]
  BY <1>3 DEF TableInv, FptOf
<1>5. CASE ApcTable
  <2>1. PICK d \in Devices, t \in Headers :
          /\ fpt[d] # Absent
          /\ fpt' = [fpt EXCEPT ![d] = IF t = None THEN [fpt[d] EXCEPT !.valid = FALSE] ELSE Loaded(t)]
          /\ IF t \in Tables THEN ApcOp(FptUpdate, "take") /\ UNCHANGED spoiled
             ELSE ApcOp(DownloadFailed, "judge") /\ spoiled' = spoiled \cup {d}
    BY <1>5 DEF ApcTable, Headers
  <2>2. UNCHANGED <<fetched, record>> /\ y = (IF t \in Tables THEN "take" ELSE "judge")
    <3>1. task \in [Modules -> Task] /\ "apc" \in Modules
      BY DEF TaskInv, Modules
    <3> QED BY <2>1, <3>1 DEF ApcOp
  <2>3. PICK e : e = IF t = None THEN [fpt[d] EXCEPT !.valid = FALSE] ELSE Loaded(t)
    OBVIOUS
  <2>4. /\ None \notin Tables /\ "primary" \in Devices
        /\ Absent \notin [valid : BOOLEAN, hdr : Headers, parts : Tables \cup {None}]
    BY TelemetryAssumption DEF Headers, Devices
  <2>5. /\ e \in [valid : BOOLEAN, hdr : Headers, parts : Tables \cup {None}]
        /\ e.valid => e.hdr = e.parts /\ e.hdr \in Tables
        /\ t \in Tables => e.valid
    <3>1. CASE t = None
      <4>1. PICK r \in [valid : BOOLEAN, hdr : Headers, parts : Tables \cup {None}] : r = fpt[d]
        BY <1>1, <2>1
      <4>2. e = [r EXCEPT !.valid = FALSE]
        BY <2>3, <3>1, <4>1
      <4> QED BY <2>4, <3>1, <4>2
    <3>2. CASE t # None
      <4>1. e = [valid |-> t \in Tables, hdr |-> t, parts |-> IF t \in Tables THEN t ELSE None]
        BY <2>3, <3>2 DEF Loaded
      <4>2. CASE t \in Tables
        <5>1. e = [valid |-> TRUE, hdr |-> t, parts |-> t]
          BY <4>1, <4>2
        <5> QED BY <2>1, <4>2, <5>1
      <4>3. CASE t \notin Tables
        <5>1. e = [valid |-> FALSE, hdr |-> t, parts |-> None]
          <6>1. (t \in Tables) = FALSE
            BY <4>3
          <6> QED BY <4>1, <4>3, <6>1, Zenon
        <5> QED BY <2>1, <4>3, <5>1
      <4> QED BY <4>2, <4>3
    <3> QED BY <3>1, <3>2
  <2>6. fpt' = [fpt EXCEPT ![d] = e] /\ e # Absent
    BY <2>1, <2>3, <2>4, <2>5
  <2>7. /\ spoiled \subseteq spoiled' /\ spoiled' \subseteq Devices
        /\ d \notin spoiled' => t \in Tables
        /\ spoiled' = {} => t \in Tables
    BY <1>1, <2>1
  <2>8. FptIs(fpt', spoiled')
    BY <1>1, <2>4, <2>5, <2>6, <2>7
  <2>9. y # "populate" /\ (spoiled' = {} => ~ Rest(y))
    BY <2>2, <2>7
  <2> QED BY <1>1, <1>2, <2>2, <2>7, <2>8, <2>9
<1>6. CASE FetchTake
  <2>1. UNCHANGED <<fpt, spoiled, record>> /\ fetched' = [d \in Devices |-> Entry(None, None)]
    BY <1>6 DEF FetchTake
  <2>2. y = "fetch"
    BY <1>6, ApcMoves DEF Is, FetchTake, Fetch, FetchEnd, ApcEvent, ApcTable, ApcOp
  <2>3. Entry(None, None) \in Entries
    BY DEF Entry, Entries
  <2> QED BY <1>1, <1>2, <2>1, <2>2, <2>3
<1>7. CASE Fetch
  <2>1. UNCHANGED <<fpt, spoiled, record>> /\ fetched' = Fetched(fpt)
    BY <1>7 DEF Fetch
  <2>2. y = "populate"
    BY <1>7, ApcMoves DEF Is, FetchTake, Fetch, FetchEnd, ApcEvent, ApcTable, ApcOp
  <2>3. Fetched(fpt) \in [Devices -> Entries]
    <3>1. PICK f : f = Fetched(fpt)
      OBVIOUS
    <3>2. f \in [Devices -> Entries]
      BY <1>1, <3>1, PopulatedIs
    <3> QED BY <3>1, <3>2
  <2> QED BY <1>1, <1>2, <2>1, <2>2, <2>3
<1>8. CASE FetchEnd
  <2>1. /\ UNCHANGED <<fpt, spoiled, fetched>> /\ x = "populate"
        /\ record' = IF FetchOk(fpt) THEN Populated(fetched) ELSE record
    BY <1>8 DEF FetchEnd
  <2>2. y = "judge"
    BY <1>8, ApcMoves DEF Is, FetchTake, Fetch, FetchEnd, ApcEvent, ApcTable, ApcOp
  <2>3. fetched = Fetched(fpt)
    BY <1>1, <2>1
  <2>4. /\ Populated(fetched) \in [Devices -> Entries]
        /\ FetchOk(fpt) /\ "primary" \notin spoiled => Whole(Populated(fetched))
        /\ Hdrs(fpt, Populated(fetched))
        /\ spoiled = {} => FetchOk(fpt)
    BY <1>1, <2>3, PopulatedIs
  <2> QED BY <1>1, <1>2, <2>1, <2>2, <2>4
<1>9. CASE ~ (ApcTable \/ FetchTake \/ Fetch \/ FetchEnd)
  <2>1. UNCHANGED <<fpt, spoiled, fetched, record>>
    BY <1>9, Frames
  <2>2. (y # "populate" /\ Rest(x)) \/ y = x
    <3>1. CASE ApcActs
      BY <1>9, <3>1, ApcMoves DEF ApcActs
    <3>2. CASE AscActs
      BY <3>2, AscMoves DEF AscActs, Moves, Modules
    <3>3. ASSUME NEW t \in Modules, Bim(t) PROVE (y # "populate" /\ Rest(x)) \/ y = x
      BY <3>3, BimMoves DEF Moves, Modules, Is, Back
    <3>4. CASE Host
      BY <3>4, HostRests
    <3> QED BY <3>1, <3>2, <3>3, <3>4, Steps
  <2> QED BY <1>1, <1>2, <2>1, <2>2
<1> QED BY <1>5, <1>6, <1>7, <1>8, <1>9

-----------------------------------------------------------------------------
(* The invariant, and what follows from it.                                 *)

\* The invariant holds when the AMC has started.
LEMMA InitHolds ==
  ASSUME Init
  PROVE  TypeOK /\ TelemetryInv
<1> DEFINE N == Cardinality(Sensors)
<1>1. Sensors = 1 .. N /\ N \in Nat \ {0} /\ Highest \in Nat /\ N * Highest \in Nat /\ MaxScans \in Nat
  BY HighestIs, TelemetryAssumption
<1>2. Blank \in Readings /\ Sound(Blank) /\ Blank.value = 0
  BY <1>1 DEF Blank, Readings, Sound
<1>3. /\ readings = [i \in Sensors |-> Blank] /\ copy = readings /\ sdr = readings /\ shown = readings
      /\ count = [i \in Sensors |-> 0] /\ threshold = [i \in Sensors |-> 0]
      /\ total = [value |-> 0, avg |-> 0, max |-> 0, n |-> 0]
      /\ health = 0 /\ current = [m \in Modules |-> 0] /\ excused = FALSE
      /\ compared = current /\ raised = 0 /\ shifted = FALSE
      /\ task = [asc |-> At("sleep", 0, 0), apc |-> At("idle", 0, 0)]
      /\ lock = [m \in {"asc", "asdm", "bim"} |-> None]
      /\ waiting = FALSE /\ scans = 0
  BY DEF Init, At
<1>4. task["asc"] = At("sleep", 0, 0) /\ task["apc"] = At("idle", 0, 0)
  BY <1>3
<1>5. TaskInv
  <2>1. 0 \in 0 .. N + 1 /\ 0 \in 0 .. 3 /\ "sleep" \in AscPcs /\ "idle" \in ApcPcs
    BY <1>1 DEF AscPcs, ApcPcs
  <2>2. /\ At("sleep", 0, 0) \in Task /\ Is(At("sleep", 0, 0), "sleep", 0, 0)
        /\ At("idle", 0, 0) \in Task /\ Is(At("idle", 0, 0), "idle", 0, 0)
    BY <2>1, AtIs
  <2>3. task \in [Modules -> Task]
    BY <1>3, <2>2 DEF Modules
  <2> QED BY <1>4, <2>1, <2>2, <2>3 DEF TaskInv, Is, Handling
<1>6. task["asc"].pc = "sleep" /\ task["apc"].pc = "idle"
  BY <1>4 DEF At
<1>7. LockInv
  BY <1>3, <1>6, TelemetryAssumption DEF LockInv, Modules
<1>8. SoundInv
  <2>1. Sum(shown) = 0
    <3>1. \A i \in Sensors : shown[i].value \in 0 .. 0
      BY <1>2, <1>3
    <3>2. Sum(shown) \in 0 .. N * 0
      BY <3>1, SumWithin
    <3> QED BY <1>1, <3>2
  <2>2. OneTotal /\ total.n \in Nat
    BY <1>3, <2>1 DEF OneTotal
  <2> QED BY <1>2, <1>3, <2>2 DEF SoundInv
<1>9. CountInv
  BY <1>1, <1>3, <1>6 DEF CountInv
<1>10. UpdateInv
  BY <1>3, <1>6 DEF UpdateInv
<1>11. ThresholdInv
  BY <1>3 DEF ThresholdInv, Handled
<1>12. HealthInv
  <2>1. \A m \in Modules : Min({current[m], Cap[m]}) = 0
    <3> SUFFICES ASSUME NEW m \in Modules PROVE Min({current[m], Cap[m]}) = 0
      OBVIOUS
    <3>1. current[m] = 0 /\ Cap[m] = 2
      BY <1>3 DEF Cap, Critical
    <3>2. Min({0, 2}) = 0
      BY OfTwo
    <3> QED BY <3>1, <3>2
  <2> QED BY <1>3, <1>6, <2>1 DEF HealthInv, Modules
<1>15. RaisedInv
  BY <1>1, <1>3, <1>4, <1>6 DEF RaisedInv, Noting, Resting, At, Modules
<1>13. TableInv /\ fetched \in [Devices -> Entries] /\ record \in [Devices -> Entries]
  <2>1. PICK t \in [Devices -> Shipped \cup {Bad, Absent}] :
          /\ t["primary"] # Absent
          /\ fpt = [d \in Devices |-> IF t[d] = Absent THEN Absent ELSE Loaded(t[d])]
          /\ spoiled = {d \in Devices : t[d] = Bad}
    BY DEF Init
  <2>2. Shipped \subseteq Tables /\ Bad \notin Tables /\ None \notin Tables /\ "primary" \in Devices
    BY TelemetryAssumption DEF Devices
  <2>3. Absent \notin [valid : BOOLEAN, hdr : Headers, parts : Tables \cup {None}]
    BY TelemetryAssumption DEF Headers
  <2>4. \A h \in Shipped \cup {Bad} :
          /\ Loaded(h) \in [valid : BOOLEAN, hdr : Headers, parts : Tables \cup {None}]
          /\ Loaded(h).valid => Loaded(h).hdr = Loaded(h).parts /\ Loaded(h).hdr \in Tables
          /\ h # Bad => Loaded(h).valid
    <3> SUFFICES ASSUME NEW h \in Shipped \cup {Bad}
                 PROVE  /\ Loaded(h) \in [valid : BOOLEAN, hdr : Headers, parts : Tables \cup {None}]
                        /\ Loaded(h).valid => Loaded(h).hdr = Loaded(h).parts /\ Loaded(h).hdr \in Tables
                        /\ h # Bad => Loaded(h).valid
      OBVIOUS
    <3>1. CASE h = Bad
      <4>1. (h \in Tables) = FALSE
        BY <2>2, <3>1
      <4>2. Loaded(h) = [valid |-> FALSE, hdr |-> h, parts |-> None]
        BY <2>2, <3>1, <4>1, Zenon DEF Loaded
      <4> QED BY <3>1, <4>2 DEF Headers
    <3>2. CASE h # Bad
      <4>1. Loaded(h) = [valid |-> TRUE, hdr |-> h, parts |-> h] /\ h \in Tables
        BY <2>2, <3>2 DEF Loaded
      <4> QED BY <3>2, <4>1 DEF Headers
    <3> QED BY <3>1, <3>2
  <2>5. DOMAIN fpt = Devices /\ \A d \in Devices : fpt[d] = Absent \/ (fpt[d] = Loaded(t[d]) /\ t[d] \in Shipped \cup {Bad})
    BY <2>1
  <2>6. \A d \in Devices : FptOf(d)
    BY <2>1, <2>4, <2>5 DEF FptOf
  <2>7. fpt["primary"] # Absent /\ spoiled \subseteq Devices
    BY <2>1, <2>2, <2>3, <2>4, <2>5
  <2>8. fetched = Fetched(fpt)
    BY DEF Init
  <2>9. /\ fetched \in [Devices -> Entries] /\ Populated(fetched) \in [Devices -> Entries]
        /\ FetchOk(fpt) /\ "primary" \notin spoiled =>
             \A d \in Devices : Populated(fetched)[d].parts = Populated(fetched)[d].hdr
        /\ \A d \in Devices : Populated(fetched)[d].hdr = IF fpt[d] = Absent THEN None ELSE fpt[d].hdr
    <3>1. \A d \in Devices : fpt[d] # Absent =>
           /\ fpt[d].hdr \in Headers /\ fpt[d].parts \in Tables \cup {None} /\ fpt[d].valid \in BOOLEAN
           /\ fpt[d].valid => fpt[d].hdr = fpt[d].parts /\ fpt[d].hdr \in Tables
           /\ d \notin spoiled => fpt[d].valid
      BY <2>6 DEF FptOf
    <3> QED BY <2>7, <2>8, <3>1, PopulatedIs
  <2>10. boot.listed = FetchOk(fpt)
    BY DEF Init
  <2>11. record = IF boot.listed THEN Populated(fetched) ELSE [d \in Devices |-> Entry(None, None)]
    BY DEF Init
  <2>12. Entry(None, None) \in Entries /\ Entry(None, None).hdr = None /\ Entry(None, None).parts = None
    BY DEF Entry, Entries
  <2>13. CASE boot.listed
    BY <1>6, <2>5, <2>6, <2>7, <2>9, <2>10, <2>11, <2>13 DEF TableInv
  <2>14. CASE ~ boot.listed
    BY <1>6, <2>5, <2>6, <2>7, <2>9, <2>11, <2>12, <2>14 DEF TableInv
  <2> QED BY <2>13, <2>14
<1>14. TypeOK
  <2>1. {readings, copy, sdr, shown} \subseteq [Sensors -> Readings]
    BY <1>2, <1>3
  <2>2. count \in [Sensors -> 0 .. MaxScans] /\ threshold \in [Sensors -> 0 .. 3]
    BY <1>1, <1>3
  <2>3. {total.value, total.avg, total.max} \subseteq 0 .. N * Highest
    BY <1>1, <1>3
  <2>4. /\ health \in 0 .. 3 /\ {current, compared} \subseteq [Modules -> 0 .. 3]
        /\ raised \in 0 .. 3 /\ shifted \in BOOLEAN /\ excused \in BOOLEAN
    <3>1. current \in [Modules -> 0 .. 3]
      BY <1>3
    <3>2. health \in 0 .. 3 /\ compared \in [Modules -> 0 .. 3] /\ raised \in 0 .. 3
      BY <1>3, <3>1
    <3>3. shifted \in BOOLEAN /\ excused \in BOOLEAN
      BY <1>3, Zenon
    <3> QED BY <3>1, <3>2, <3>3
  <2>5. lock \in [{"asc", "asdm", "bim"} -> Modules \cup {None}] /\ waiting \in BOOLEAN
    BY <1>3
  <2>6. \A d \in Devices : fpt[d] # Absent => fpt[d].valid \in BOOLEAN /\ Entry(fpt[d].hdr, fpt[d].parts) \in Entries
    BY <1>13 DEF TableInv, FptOf, Entry, Entries, Headers
  <2> QED BY <1>13, <2>1, <2>2, <2>3, <2>4, <2>5, <2>6 DEF TypeOK
<1> QED BY <1>5, <1>7, <1>8, <1>9, <1>10, <1>11, <1>12, <1>13, <1>14, <1>15 DEF TelemetryInv

\* Every step keeps it.
LEMMA NextKeeps ==
  ASSUME TypeOK, TelemetryInv, [Next]_vars
  PROVE  TypeOK' /\ TelemetryInv'
<1>1. TaskInv /\ LockInv /\ SoundInv /\ CountInv /\ UpdateInv /\ ThresholdInv /\ HealthInv /\ RaisedInv /\ TableInv
  BY DEF TelemetryInv
<1>2. TaskInv' /\ LockInv' /\ CountInv' /\ UpdateInv' /\ ThresholdInv' /\ HealthInv' /\ RaisedInv' /\ TableInv'
  BY <1>1, TaskKept, LockKept, CountKept, UpdateKept, ThresholdKept, HealthKept, RaisedKept, TableKept
<1>3. SoundInv'
  BY <1>1, ReadingsKept, TotalKept DEF SoundInv, SoundAll
<1>4. TypeOK'
  <2>1. {readings', copy', sdr', shown'} \subseteq [Sensors -> Readings]
    BY <1>1, ReadingsKept DEF SoundAll
  <2>2. count' \in [Sensors -> 0 .. MaxScans] /\ threshold' \in [Sensors -> 0 .. 3]
    BY <1>1, CountKept, ThresholdKept
  <2>3. {total'.value, total'.avg, total'.max} \subseteq 0 .. Cardinality(Sensors) * Highest
    BY <1>1, TotalKept DEF TotalOK
  <2>4. /\ health' \in 0 .. 3 /\ {current', compared'} \subseteq [Modules -> 0 .. 3]
        /\ raised' \in 0 .. 3 /\ shifted' \in BOOLEAN /\ excused' \in BOOLEAN
    BY <1>1, HealthKept, RaisedKept
  <2>5. lock' \in [{"asc", "asdm", "bim"} -> Modules \cup {None}]
    BY <1>1, LockKept DEF Locks
  <2>6. waiting' \in BOOLEAN
    <3>1. waiting \in BOOLEAN
      BY DEF TypeOK
    <3> QED BY <3>1, Frames
  <2>7. \A d \in Devices : fpt'[d] # Absent => fpt'[d].valid \in BOOLEAN /\ Entry(fpt'[d].hdr, fpt'[d].parts) \in Entries
    <3> SUFFICES ASSUME NEW d \in Devices, fpt'[d] # Absent
                 PROVE  fpt'[d].valid \in BOOLEAN /\ Entry(fpt'[d].hdr, fpt'[d].parts) \in Entries
      OBVIOUS
    <3>1. fpt'[d] \in [valid : BOOLEAN, hdr : Headers, parts : Tables \cup {None}]
      BY <1>2 DEF TableInv, FptOf
    <3> QED BY <3>1 DEF Entry, Entries, Headers
  <2>8. fetched' \in [Devices -> Entries] /\ record' \in [Devices -> Entries]
    BY <1>1, TableKept
  <2> QED BY <2>1, <2>2, <2>3, <2>4, <2>5, <2>6, <2>7, <2>8 DEF TypeOK
<1> QED BY <1>2, <1>3, <1>4 DEF TelemetryInv

\* The invariant behind the theorems below: it holds in every reachable state.
THEOREM Inductive == Spec => [](TypeOK /\ TelemetryInv)
<1>1. Init => TypeOK /\ TelemetryInv
  BY InitHolds
<1>2. TypeOK /\ TelemetryInv /\ [Next]_vars => (TypeOK /\ TelemetryInv)'
  BY NextKeeps
<1> QED BY <1>1, <1>2, PTL DEF Spec

\* The state of the ASC, the ASDM, the BIM and the APC keeps its types, and the
\* running averages of the sensors and of the total power, which round twice in
\* every sample, never leave the range of the values that they average.
THEOREM TypeCorrect == Spec => []TypeOK
<1>1. TypeOK /\ TelemetryInv => TypeOK
  OBVIOUS
<1> QED BY Inductive, <1>1, PTL

\* After a scan every limit that a sensor is at shows in its threshold status and
\* in the health of the card, and with the APC at rest so does every event that it
\* has raised, up to the cap of the module; and the card looks no worse than an
\* event or a threshold says.  What excuses it is a timeout, a comparison that
\* went stale, and an event of the APC that finds the entry of another.
THEOREM HealthCovered == Spec => []HealthCovers
<1>1. TypeOK /\ TelemetryInv => HealthCovers
  <2> SUFFICES ASSUME TypeOK, TelemetryInv PROVE HealthCovers
    OBVIOUS
  <2>1. TaskInv /\ ThresholdInv /\ HealthInv /\ RaisedInv
    BY DEF TelemetryInv
  <2>2. /\ current \in [Modules -> 0 .. 3] /\ threshold \in [Sensors -> 0 .. 3] /\ health \in 0 .. 3
        /\ raised \in 0 .. 3 /\ {"asc", "apc"} \subseteq Modules /\ DOMAIN Limits \subseteq 1 .. 3
    BY TelemetryAssumption DEF TypeOK, Modules, Levels
  <2>3. ~ excused => \A m \in Modules : health >= IF current[m] <= 2 THEN current[m] ELSE 2
    BY <2>1, <2>2, CapIs DEF HealthInv
  <2>4. ASSUME Resting("asc"), scans > 0, NEW j \in Sensors, NEW l \in DOMAIN Limits, readings[j].value >= Limits[l]
        PROVE  threshold[j] >= l /\ (excused \/ health >= Min({l, Cap["asc"]}))
    <3>1. threshold[j] >= l
      BY <2>1, <2>4 DEF ThresholdInv, Handled, Covered, Resting
    <3>2. threshold[j] <= current["asc"]
      BY <2>1, <2>4 DEF RaisedInv, Noting, Resting
    <3>3. Min({l, Cap["asc"]}) = IF l <= 2 THEN l ELSE 2
      BY <2>2, CapIs
    <3> QED BY <2>2, <2>3, <3>1, <3>2, <3>3
  <2>5. ASSUME Resting("apc"), ~ excused PROVE health >= Min({raised, Cap["apc"]})
    <3>1. raised <= current["apc"]
      BY <2>1, <2>5 DEF RaisedInv
    <3>2. Min({raised, Cap["apc"]}) = IF raised <= 2 THEN raised ELSE 2
      BY <2>2, CapIs
    <3> QED BY <2>2, <2>3, <2>5, <3>1, <3>2
  <2>6. shifted \/ health <= raised \/ \E i \in Sensors : health <= threshold[i]
    BY <2>1 DEF RaisedInv
  <2> QED BY <2>4, <2>5, <2>6 DEF HealthCovers
<1> QED BY Inductive, <1>1, PTL

\* An answer of the ASDM belongs together whenever the host asks: the sensor
\* records are those of one scan, the total power is theirs, and the partitions
\* listed are those of the table whose header is shown.
THEOREM AnswersBelong == Spec => AnswersWhole
<1>1. TypeOK /\ TelemetryInv /\ HostAnswer => OneScan /\ OneTotal /\ OneTable
  <2> SUFFICES ASSUME TypeOK, TelemetryInv, HostAnswer PROVE OneScan /\ OneTotal /\ OneTable
    OBVIOUS
  <2>1. task["asc"].pc # "update"
    <3>1. lock["asdm"] = None
      BY DEF HostAnswer, Readable
    <3>2. None # "asc"
      BY TelemetryAssumption DEF Modules
    <3> QED BY <3>1, <3>2 DEF TelemetryInv, LockInv
  <2>2. OneScan
    BY <2>1 DEF TelemetryInv, UpdateInv, SoundInv, Sound, OneScan
  <2>3. OneTotal
    BY DEF TelemetryInv, SoundInv
  <2>4. OneTable
    BY DEF TelemetryInv, TableInv, OneTable
  <2> QED BY <2>2, <2>3, <2>4
<1>2. TypeOK /\ TelemetryInv /\ [Next]_vars => [HostAnswer => OneScan /\ OneTotal /\ OneTable]_vars
  BY <1>1
<1> QED BY Inductive, <1>2, PTL DEF Spec, AnswersWhole
=============================================================================
