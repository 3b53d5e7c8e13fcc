---------------------------- MODULE SensorReadProofs ----------------------------
(***************************************************************************)
(* Proofs about the reading of sensors: the records that the driver parses *)
(* out of a message are those that the card put into it; the types, what a *)
(* read returns, and what the applications are killed for.                 *)
(***************************************************************************)
EXTENDS SensorReadProps, FiniteSetTheorems, WellFoundedInduction, TLAPS

-----------------------------------------------------------------------------
(* Numbers up to n, and sequences that are put together.                    *)

\* A nonempty set of numbers has a least member.
LEMMA NatMin ==
  ASSUME NEW T, T \subseteq Nat, T # {}
  PROVE  \E n \in T : \A m \in T : n <= m
<1> DEFINE R == {ss \in Nat \X Nat : ss[1] < ss[2]}
<1>1. IsWellFoundedOn(R, Nat)
  BY NatLessThanWellFounded DEF OpToRel
<1>2. \A x, y \in Nat : y < x => <<y, x>> \in R
  BY DEF R
<1> HIDE DEF R
<1>3. PICK n \in T : \A y \in T : ~ (<<y, n>> \in R)
  BY <1>1, WFMin
<1>4. \A m \in T : ~ (m < n)
  BY <1>2, <1>3
<1>5. \A m \in T : n <= m
  BY <1>4
<1> QED BY <1>3, <1>5

\* Induction up to n over the members of a set.
LEMMA UpTo ==
  ASSUME NEW n \in Nat, NEW T, 1 \in T, \A m \in 1 .. n - 1 : m \in T => m + 1 \in T
  PROVE  \A m \in 1 .. n : m \in T
<1> DEFINE U == {m \in 1 .. n : m \notin T}
<1>1. SUFFICES ASSUME U # {} PROVE FALSE
  OBVIOUS
<1>2. U \subseteq Nat /\ \A m \in U : m \in 1 .. n /\ m \notin T
  OBVIOUS
<1>3. \A m \in 1 .. n : m \notin U => m \in T
  OBVIOUS
<1> HIDE DEF U
<1>4. PICK m \in U : \A k \in U : m <= k
  BY <1>1, <1>2, NatMin
<1>5. m \in 1 .. n /\ m # 1
  BY <1>2
<1>6. m - 1 \in 1 .. n - 1 /\ m - 1 + 1 = m
  BY <1>5
<1>7. m - 1 \notin U
  BY <1>4, <1>5, <1>2
<1> QED BY <1>2, <1>3, <1>6, <1>7

\* The function by which FlattenSeq is defined, up to m.
Flattens(F, m, s) == F = [i \in 1 .. m |-> IF i = 1 THEN s[i] ELSE F[i - 1] \o s[i]]

\* The recursion of FlattenSeq has a solution, built up to m + 1 from that up to m.
LEMMA FlattenExists ==
  ASSUME NEW S, NEW n \in Nat \ {0}, NEW s \in [1 .. n -> Seq(S)]
  PROVE  \E F \in [1 .. n -> Seq(S)] : Flattens(F, n, s)
<1> DEFINE Has(m) == \E F \in [1 .. m -> Seq(S)] : Flattens(F, m, s)
           T == {m \in 1 .. n : Has(m)}
<1>1. Has(1)
  <2> DEFINE F == [i \in 1 .. 1 |-> s[i]]
  <2>1. F \in [1 .. 1 -> Seq(S)]
    OBVIOUS
  <2>2. Flattens(F, 1, s)
    BY DEF Flattens
  <2> QED BY <2>1, <2>2
<1>2. ASSUME NEW m \in 1 .. n - 1, Has(m)
      PROVE  Has(m + 1)
  <2>1. PICK F \in [1 .. m -> Seq(S)] : Flattens(F, m, s)
    BY <1>2
  <2> DEFINE G == [i \in 1 .. m + 1 |-> IF i <= m THEN F[i] ELSE F[m] \o s[m + 1]]
  <2>2. m \in 1 .. m /\ m + 1 \in 1 .. n /\ F[m] \in Seq(S) /\ s[m + 1] \in Seq(S)
    OBVIOUS
  <2>3. F[m] \o s[m + 1] \in Seq(S)
    BY <2>2
  <2>4. G \in [1 .. m + 1 -> Seq(S)]
    BY <2>3
  <2>5. \A i \in 1 .. m : F[i] = IF i = 1 THEN s[i] ELSE F[i - 1] \o s[i]
    BY <2>1 DEF Flattens
  <2>6. \A i \in 1 .. m : G[i] = F[i]
    OBVIOUS
  <2>7. G[m + 1] = F[m] \o s[m + 1]
    OBVIOUS
  <2>8. DOMAIN G = 1 .. m + 1 /\ G = [i \in 1 .. m + 1 |-> G[i]]
    OBVIOUS
  <2> HIDE DEF G
  <2>9. ASSUME NEW i \in 1 .. m + 1
        PROVE  G[i] = IF i = 1 THEN s[i] ELSE G[i - 1] \o s[i]
    <3>1. CASE i = m + 1
      <4>1. i # 1 /\ i - 1 = m
        BY <3>1
      <4> QED BY <3>1, <4>1, <2>2, <2>6, <2>7
    <3>2. CASE i # m + 1
      <4>1. i \in 1 .. m /\ (i # 1 => i - 1 \in 1 .. m)
        BY <3>2
      <4> QED BY <4>1, <2>5, <2>6
    <3> QED BY <3>1, <3>2
  <2>10. Flattens(G, m + 1, s)
    BY <2>8, <2>9 DEF Flattens
  <2> QED BY <2>4, <2>10
<1> HIDE DEF Has
<1>3. 1 \in T
  BY <1>1
<1>4. \A m \in 1 .. n - 1 : m \in T => m + 1 \in T
  BY <1>2
<1>5. n \in 1 .. n
  OBVIOUS
<1> HIDE DEF T
<1>6. n \in T
  BY <1>3, <1>4, <1>5, UpTo
<1>7. Has(n)
  BY <1>6 DEF T
<1> QED BY <1>7 DEF Has

\* What FlattenSeq adds up: F[k] is the first k sequences, one behind the other.
Flat(F, S, n, s) ==
  /\ F \in [1 .. n -> Seq(S)]
  /\ F[1] = s[1]
  /\ \A k \in 2 .. n : F[k] = F[k - 1] \o s[k]
  /\ FlattenSeq(s) = F[n]

\* FlattenSeq is the last of a function that adds a sequence at a time.
LEMMA FlattenBy ==
  ASSUME NEW S, NEW n \in Nat \ {0}, NEW s \in [1 .. n -> Seq(S)]
  PROVE  \E F : Flat(F, S, n, s)
<1>1. PICK H \in [1 .. n -> Seq(S)] : Flattens(H, n, s)
  BY FlattenExists, Zenon
<1> DEFINE F == CHOOSE G : G = [i \in 1 .. n |-> IF i = 1 THEN s[i] ELSE G[i - 1] \o s[i]]
<1>2. F = [i \in 1 .. n |-> IF i = 1 THEN s[i] ELSE F[i - 1] \o s[i]]
  BY <1>1, Zenon DEF Flattens
<1>3. Len(s) = n
  OBVIOUS
<1>4. FlattenSeq(s) = F[n]
  BY <1>3 DEF FlattenSeq
<1> HIDE DEF F
<1>5. \A k \in 1 .. n : F[k] = IF k = 1 THEN s[k] ELSE F[k - 1] \o s[k]
  BY <1>2
<1>6. \A k \in 1 .. n : H[k] = IF k = 1 THEN s[k] ELSE H[k - 1] \o s[k]
  BY <1>1 DEF Flattens
<1> DEFINE T == {m \in 1 .. n : F[m] = H[m]}
<1>7. 1 \in T
  BY <1>5, <1>6
<1>8. ASSUME NEW m \in 1 .. n - 1, m \in T
      PROVE  m + 1 \in T
  <2>1. PICK k \in 1 .. n : k = m + 1
    OBVIOUS
  <2>2. k # 1 /\ k - 1 = m
    BY <2>1
  <2>3. F[k] = F[k - 1] \o s[k]
    BY <1>5, <2>2, Zenon
  <2>4. H[k] = H[k - 1] \o s[k]
    BY <1>6, <2>2, Zenon
  <2>5. F[k] = H[k]
    BY <1>8, <2>2, <2>3, <2>4
  <2> QED BY <2>1, <2>5
<1> HIDE DEF T
<1>9. \A m \in 1 .. n : m \in T
  BY <1>7, <1>8, UpTo
<1>10. \A m \in 1 .. n : F[m] = H[m]
  BY <1>9 DEF T
<1>11. H[1] = s[1] /\ \A k \in 2 .. n : H[k] = H[k - 1] \o s[k]
  <2>1. 1 \in 1 .. n /\ \A k \in 2 .. n : k \in 1 .. n /\ k # 1
    OBVIOUS
  <2> QED BY <2>1, <1>6, Zenon
<1>12. FlattenSeq(s) = H[n]
  BY <1>4, <1>10
<1>13. Flat(H, S, n, s)
  BY <1>11, <1>12 DEF Flat
<1> QED BY <1>13

\* Each sequence stands in the whole, where those before it end.
Placed(F, n, s, k) ==
  /\ Len(F[k]) \in Nat /\ Len(F[n]) >= Len(F[k]) /\ Len(F[k]) >= Len(s[k])
  /\ \A j \in 1 .. Len(s[k]) : F[n][Len(F[k]) - Len(s[k]) + j] = s[k][j]

\* Where the k-th of the sequences is in the whole.
LEMMA FlattenPlace ==
  ASSUME NEW S, NEW n \in Nat \ {0}, NEW s \in [1 .. n -> Seq(S)],
         NEW F, Flat(F, S, n, s), NEW k \in 1 .. n
  PROVE  Placed(F, n, s, k)
<1>0. F \in [1 .. n -> Seq(S)] /\ F[1] = s[1] /\ \A h \in 2 .. n : F[h] = F[h - 1] \o s[h]
  BY DEF Flat
<1> DEFINE Pre(m) == Len(F[m]) >= Len(F[k]) /\ \A j \in 1 .. Len(F[k]) : F[m][j] = F[k][j]
           T == {m \in 1 .. n : m >= k => Pre(m)}
<1>1. \A m \in 1 .. n : F[m] \in Seq(S) /\ s[m] \in Seq(S) /\ Len(F[m]) \in Nat /\ Len(s[m]) \in Nat
  BY <1>0
<1>2. 1 \in T
  <2>1. 1 >= k => k = 1
    OBVIOUS
  <2> QED BY <2>1, <1>0, <1>1
<1>3. ASSUME NEW m \in 1 .. n - 1, m \in T
      PROVE  m + 1 \in T
  <2>1. PICK h \in 1 .. n : h = m + 1
    OBVIOUS
  <2>2. h \in 2 .. n /\ h - 1 = m /\ m \in 1 .. n
    BY <2>1
  <2>3. F[h] = F[m] \o s[h]
    <3>1. F[h] = F[h - 1] \o s[h]
      BY <1>0, <2>2, Zenon
    <3> QED BY <3>1, <2>2
  <2>4. Len(F[h]) = Len(F[m]) + Len(s[h])
    BY <1>1, <2>2, <2>3
  <2>5. \A j \in 1 .. Len(F[m]) : F[h][j] = F[m][j]
    BY <1>1, <2>2, <2>3
  <2>6. CASE h = k
    BY <2>1, <2>6, <1>1
  <2>7. CASE h # k /\ h >= k
    <3>1. Pre(m)
      BY <1>3, <2>7, <2>2
    <3>4. Len(F[m]) \in Nat /\ Len(s[h]) \in Nat /\ Len(F[k]) \in Nat
      BY <1>1, <2>2
    <3>5. Len(F[m]) >= Len(F[k])
      BY <3>1
    <3>2. Len(F[h]) >= Len(F[k])
      BY <3>4, <3>5, <2>4
    <3>3. ASSUME NEW j \in 1 .. Len(F[k])
          PROVE  F[h][j] = F[k][j]
      <4>1. j \in 1 .. Len(F[m])
        BY <3>1, <1>1, <2>2
      <4> QED BY <3>1, <4>1, <2>5
    <3> QED BY <3>2, <3>3, <2>1
  <2>8. CASE ~ (h >= k)
    BY <2>1, <2>8
  <2> QED BY <2>6, <2>7, <2>8, <2>1
<1> HIDE DEF T
<1>4. \A m \in 1 .. n : m \in T
  BY <1>2, <1>3, UpTo
<1>5. Pre(n)
  <2>1. n \in 1 .. n /\ n >= k
    OBVIOUS
  <2> QED BY <1>4, <2>1 DEF T
<1>6. /\ Len(F[k]) >= Len(s[k])
      /\ \A j \in 1 .. Len(s[k]) : F[k][Len(F[k]) - Len(s[k]) + j] = s[k][j]
  <2>1. CASE k = 1
    BY <2>1, <1>0, <1>1
  <2>2. CASE k # 1
    <3>1. k \in 2 .. n /\ k - 1 \in 1 .. n
      BY <2>2
    <3>2. F[k] = F[k - 1] \o s[k]
      BY <1>0, <3>1, Zenon
    <3>3. PICK f \in Seq(S) : f = F[k - 1]
      BY <3>1, <1>1
    <3>4. F[k] = f \o s[k]
      BY <3>2, <3>3
    <3>5. Len(F[k]) = Len(f) + Len(s[k]) /\ Len(f) \in Nat
      BY <3>4, <1>1
    <3>6. \A j \in 1 .. Len(s[k]) : F[k][Len(f) + j] = s[k][j]
      BY <3>4, <1>1
    <3>7. Len(F[k]) - Len(s[k]) = Len(f)
      BY <3>5, <1>1
    <3> QED BY <3>5, <3>6, <3>7, <1>1
  <2> QED BY <2>1, <2>2
<1>7. ASSUME NEW j \in 1 .. Len(s[k])
      PROVE  F[n][Len(F[k]) - Len(s[k]) + j] = s[k][j]
  <2>1. Len(F[k]) - Len(s[k]) + j \in 1 .. Len(F[k])
    BY <1>1, <1>6
  <2> QED BY <2>1, <1>5, <1>6
<1> QED BY <1>1, <1>5, <1>6, <1>7 DEF Placed

-----------------------------------------------------------------------------
(* The limits of a record.                                                  *)

\* Those among the first k that are supported.
Before(m, k) == {j \in 1 .. k : LimitOrder[j] \in m}

\* The six limits in the order of a message; each has one place.
LEMMA LimitNames ==
  /\ DOMAIN LimitOrder = 1 .. 6 /\ Len(LimitOrder) = 6
  /\ LimitOrder[1] = "lf" /\ LimitOrder[2] = "lc" /\ LimitOrder[3] = "lw"
  /\ LimitOrder[4] = "uf" /\ LimitOrder[5] = "uc" /\ LimitOrder[6] = "uw"
  /\ ToSet(LimitOrder) = {"lf", "lc", "lw", "uf", "uc", "uw"}
  /\ \A j, k \in 1 .. 6 : LimitOrder[j] = LimitOrder[k] => j = k
<1>1. Len(LimitOrder) = 6 /\ DOMAIN LimitOrder = 1 .. 6
  <2>1. Len(LimitOrder) = 6
    BY DEF LimitOrder
  <2>2. DOMAIN LimitOrder = 1 .. 6
    BY DEF LimitOrder
  <2> QED BY <2>1, <2>2
<1>2. /\ LimitOrder[1] = "lf" /\ LimitOrder[2] = "lc" /\ LimitOrder[3] = "lw"
      /\ LimitOrder[4] = "uf" /\ LimitOrder[5] = "uc" /\ LimitOrder[6] = "uw"
  BY DEF LimitOrder
<1>3. \A j \in 1 .. 6 : j = 1 \/ j = 2 \/ j = 3 \/ j = 4 \/ j = 5 \/ j = 6
  OBVIOUS
<1>4. ToSet(LimitOrder) = {"lf", "lc", "lw", "uf", "uc", "uw"}
  BY <1>1, <1>2, <1>3 DEF ToSet
<1>5. \A j, k \in 1 .. 6 : LimitOrder[j] = LimitOrder[k] => j = k
  BY <1>2, <1>3
<1> QED BY <1>1, <1>2, <1>4, <1>5

\* The limits before a place are finitely many.
LEMMA BeforeFinite ==
  ASSUME NEW m, NEW k \in Nat
  PROVE  IsFiniteSet(Before(m, k))
<1>1. IsFiniteSet(1 .. k)
  BY FS_Interval
<1>2. Before(m, k) \in SUBSET (1 .. k)
  BY DEF Before
<1> QED BY <1>1, <1>2, FS_Subset

\* One more is counted at each place whose limit is supported.
LEMMA BeforeCounts ==
  ASSUME NEW m, NEW k \in Nat
  PROVE  /\ Cardinality(Before(m, k)) \in Nat
         /\ Cardinality(Before(m, 0)) = 0
         /\ Cardinality(Before(m, k + 1))
              = Cardinality(Before(m, k)) + (IF LimitOrder[k + 1] \in m THEN 1 ELSE 0)
<1>3. IsFiniteSet(Before(m, k)) /\ Cardinality(Before(m, k)) \in Nat
  BY BeforeFinite, FS_CardinalityType
<1>4. Before(m, 0) = {}
  BY DEF Before
<1>5. k + 1 \notin Before(m, k)
  BY DEF Before
<1>6. CASE LimitOrder[k + 1] \in m
  <2>1. Before(m, k + 1) = Before(m, k) \cup {k + 1}
    BY <1>6 DEF Before
  <2>2. Cardinality(Before(m, k + 1)) = Cardinality(Before(m, k)) + 1
    BY <2>1, <1>3, <1>5, FS_AddElement
  <2>3. Cardinality(Before(m, 0)) = 0
    BY <1>4, FS_EmptySet
  <2> QED BY <2>2, <2>3, <1>3, <1>6
<1>7. CASE LimitOrder[k + 1] \notin m
  <2>1. Before(m, k + 1) = Before(m, k)
    BY <1>7 DEF Before
  <2>2. Cardinality(Before(m, 0)) = 0
    BY <1>4, FS_EmptySet
  <2> QED BY <2>1, <2>2, <1>3, <1>7
<1> QED BY <1>6, <1>7

\* Where the host looks for a limit is behind those before it.
LEMMA SkippedIsBefore ==
  ASSUME NEW m, NEW k \in 1 .. 6
  PROVE  Skipped(m, LimitOrder[k]) = Before(m, k - 1)
<1>1. ASSUME NEW j \in 1 .. 6
      PROVE  (\E h \in j + 1 .. 6 : LimitOrder[h] = LimitOrder[k]) <=> j \in 1 .. k - 1
  <2>1. \A h \in j + 1 .. 6 : h \in 1 .. 6
    OBVIOUS
  <2>2. \A h \in j + 1 .. 6 : LimitOrder[h] = LimitOrder[k] <=> h = k
    BY <2>1, LimitNames
  <2> QED BY <2>2
<1>2. Skipped(m, LimitOrder[k]) = {j \in 1 .. 6 : LimitOrder[j] \in m /\ j \in 1 .. k - 1}
  BY <1>1, LimitNames DEF Skipped
<1> QED BY <1>2 DEF Before

\* All the supported limits are before the end.
LEMMA LimitsCounted ==
  ASSUME NEW m
  PROVE  Cardinality(Limits(m)) = Cardinality(Before(m, 6)) /\ IsFiniteSet(Limits(m))
<1> DEFINE f == [j \in Before(m, 6) |-> LimitOrder[j]]
<1>1. IsFiniteSet(Before(m, 6))
  BY BeforeFinite
<1>2. \A j \in Before(m, 6) : j \in 1 .. 6 /\ LimitOrder[j] \in m
  BY DEF Before
<1>3. \A j \in 1 .. 6 : LimitOrder[j] \in ToSet(LimitOrder)
  BY LimitNames DEF ToSet
<1>4. f \in [Before(m, 6) -> Limits(m)]
  BY <1>2, <1>3 DEF Limits
<1>5. \A a, b \in Before(m, 6) : f[a] = f[b] => a = b
  BY <1>2, LimitNames
<1>6. ASSUME NEW l \in Limits(m)
      PROVE  \E a \in Before(m, 6) : f[a] = l
  <2>1. PICK j \in 1 .. 6 : LimitOrder[j] = l
    BY LimitNames DEF Limits, ToSet
  <2>2. j \in Before(m, 6)
    BY <2>1 DEF Before, Limits
  <2> QED BY <2>1, <2>2
<1>7. f \in Bijection(Before(m, 6), Limits(m))
  BY <1>4, <1>5, <1>6 DEF Bijection, Injection, Surjection, IsInjective
<1>8. ExistsBijection(Before(m, 6), Limits(m))
  BY <1>7 DEF ExistsBijection
<1> QED BY <1>1, <1>8, FS_Bijection

\* A mask has the limits that the profile has, and two bits more.
LEMMA MaskCounted ==
  ASSUME NEW i \in Sensors
  PROVE  /\ Limits(Mask(i)) = DOMAIN Limit[i]
         /\ Cardinality(Limits(Mask(i))) \in Nat
         /\ Cardinality(Mask(i)) = Cardinality(Limits(Mask(i))) + 2
         /\ Cardinality(Mask(i) \cap {"avg", "max"}) = 2
<1>1. DOMAIN Limit[i] \subseteq {"lf", "lc", "lw", "uf", "uc", "uw"}
  BY SensorReadAssumption, LimitNames
<1>2. Limits(Mask(i)) = DOMAIN Limit[i]
  BY <1>1, LimitNames DEF Limits, Mask
<1>3. IsFiniteSet(Limits(Mask(i))) /\ Cardinality(Limits(Mask(i))) \in Nat
  BY LimitsCounted, FS_CardinalityType
<1>4. "avg" \notin DOMAIN Limit[i] /\ "max" \notin DOMAIN Limit[i]
  BY <1>1
<1>5. Cardinality(Limits(Mask(i)) \cup {"avg"}) = Cardinality(Limits(Mask(i))) + 1
      /\ IsFiniteSet(Limits(Mask(i)) \cup {"avg"})
  BY <1>2, <1>3, <1>4, FS_AddElement
<1>6. "max" \notin Limits(Mask(i)) \cup {"avg"}
  BY <1>2, <1>4
<1>7. Cardinality((Limits(Mask(i)) \cup {"avg"}) \cup {"max"}) = Cardinality(Limits(Mask(i))) + 2
  <2>1. Cardinality((Limits(Mask(i)) \cup {"avg"}) \cup {"max"})
          = Cardinality(Limits(Mask(i)) \cup {"avg"}) + 1
    BY <1>5, <1>6, FS_AddElement
  <2> QED BY <2>1, <1>3, <1>5
<1>8. Mask(i) = (Limits(Mask(i)) \cup {"avg"}) \cup {"max"}
  BY <1>2 DEF Mask
<1>9. Mask(i) \cap {"avg", "max"} = {"avg"} \cup {"max"}
  BY DEF Mask
<1>10. Cardinality({"avg"}) = 1 /\ IsFiniteSet({"avg"}) /\ "max" \notin {"avg"}
  BY FS_Singleton
<1>11. Cardinality({"avg"} \cup {"max"}) = 2
  BY <1>10, FS_AddElement
<1> QED BY <1>2, <1>3, <1>7, <1>8, <1>9, <1>11

-----------------------------------------------------------------------------
(* A record of the card.                                                    *)

Masks == {{}} \cup {Mask(i) : i \in Sensors}
Names == ToSet(LimitOrder) \cup {"id", "name", "value", "unit", "mod", "mask", "status", "avg", "max", "eor"}
Cells == [field : Names, of : Sensors \cup {0}, scan : Nat, mask : Masks]

\* The cells of a record are cells of a message.
LEMMA CellsAreCells ==
  ASSUME NEW i \in Sensors, NEW f \in Names, Len(scans) \in Nat
  PROVE  /\ Cell(f, i) \in Cells
         /\ [Cell(f, i) EXCEPT !.mask = Mask(i)] \in Cells
         /\ Eor \in Cells
<1>1. Cell(f, i) \in Cells
  BY DEF Cell, Cells, Masks
<1>2. [Cell(f, i) EXCEPT !.mask = Mask(i)] = [field |-> f, of |-> i, scan |-> Len(scans), mask |-> Mask(i)]
  BY DEF Cell
<1>3. [Cell(f, i) EXCEPT !.mask = Mask(i)] \in Cells
  BY <1>2 DEF Cells, Masks
<1>4. Eor \in Cells
  <2>1. Zero \in [field : {"zero"}, of : Sensors \cup {0}, scan : Nat, mask : Masks]
    BY DEF Zero, Masks
  <2>2. "eor" \in Names
    BY DEF Names
  <2> QED BY <2>1, <2>2 DEF Eor, Cells
<1> QED BY <1>1, <1>3, <1>4

\* The limits of a record, one behind the other.
LimitCells(i) ==
  FlattenSeq([k \in DOMAIN LimitOrder |-> IF LimitOrder[k] \in Mask(i) THEN << Cell(LimitOrder[k], i) >> ELSE << >>])

\* The cells of the limits: one for each supported limit, where those before it are counted.
LEMMA LimitsInOrder ==
  ASSUME NEW i \in Sensors, Len(scans) \in Nat
  PROVE  /\ LimitCells(i) \in Seq(Cells)
         /\ Len(LimitCells(i)) = Cardinality(Limits(Mask(i)))
         /\ \A l \in Limits(Mask(i)) :
              /\ Cardinality(Skipped(Mask(i), l)) \in 0 .. Cardinality(Limits(Mask(i))) - 1
              /\ LimitCells(i)[Cardinality(Skipped(Mask(i), l)) + 1] = Cell(l, i)
<1> DEFINE K == Len(LimitOrder)
           s    == [k \in 1 .. K |-> IF LimitOrder[k] \in Mask(i) THEN << Cell(LimitOrder[k], i) >> ELSE << >>]
           n(k) == Cardinality(Before(Mask(i), k))
<1>0. K = 6 /\ K \in Nat \ {0} /\ K \in 1 .. K /\ DOMAIN LimitOrder = 1 .. K
  BY LimitNames
<1>1. \A k \in 1 .. K : LimitOrder[k] \in Names
  BY <1>0 DEF Names, ToSet
<1>2. \A k \in 1 .. K : Cell(LimitOrder[k], i) \in Cells
  BY <1>1, CellsAreCells
<1>3. s \in [1 .. K -> Seq(Cells)]
  BY <1>2
<1>4. \A k \in 1 .. K : /\ Len(s[k]) = IF LimitOrder[k] \in Mask(i) THEN 1 ELSE 0
                        /\ LimitOrder[k] \in Mask(i) => s[k][1] = Cell(LimitOrder[k], i)
  OBVIOUS
<1>5. LimitCells(i) = FlattenSeq(s)
  BY <1>0 DEF LimitCells
<1>14. K \in Nat \ {0} /\ K \in 1 .. K
  BY <1>0
<1> HIDE DEF s, K
<1>15. PICK F : Flat(F, Cells, K, s)
  BY <1>3, <1>14, FlattenBy
<1>6. /\ F \in [1 .. K -> Seq(Cells)] /\ F[1] = s[1]
      /\ \A k \in 2 .. K : F[k] = F[k - 1] \o s[k]
      /\ FlattenSeq(s) = F[K]
  BY <1>15 DEF Flat
<1>7. ASSUME NEW k \in 1 .. K
      PROVE  n(k) = n(k - 1) + Len(s[k]) /\ n(k) \in Nat /\ n(k - 1) \in Nat
  <2>1. PICK h \in Nat : h + 1 = k
    <3>1. k - 1 \in Nat /\ k - 1 + 1 = k
      OBVIOUS
    <3> QED BY <3>1
  <2>2. h = k - 1 /\ k \in Nat
    BY <2>1
  <2>3. n(h + 1) = n(h) + (IF LimitOrder[h + 1] \in Mask(i) THEN 1 ELSE 0)
    BY BeforeCounts
  <2>4. n(h) \in Nat /\ n(k) \in Nat
    BY <2>2, BeforeCounts
  <2> QED BY <2>1, <2>2, <2>3, <2>4, <1>4
<1>8. n(0) = 0
  BY BeforeCounts, 0 \in Nat
<1> HIDE DEF n
<1>9. \A k \in 1 .. K : Len(F[k]) = n(k)
  <2> DEFINE T == {k \in 1 .. K : Len(F[k]) = n(k)}
  <2>1. 1 \in T
    <3>0. 1 \in 1 .. K
      BY <1>14
    <3>1. n(1) = n(1 - 1) + Len(s[1]) /\ 1 - 1 = 0 /\ s[1] \in Seq(Cells)
      BY <3>0, <1>7, <1>3
    <3>2. Len(F[1]) = n(1)
      <4>1. Len(F[1]) = Len(s[1]) /\ Len(s[1]) \in Nat
        BY <3>1, <1>6
      <4> QED BY <4>1, <3>1, <1>8
    <3> QED BY <3>0, <3>2
  <2>2. ASSUME NEW m \in 1 .. K - 1, m \in T
        PROVE  m + 1 \in T
    <3>0. m + 1 \in 2 .. K
      BY <1>14
    <3>1. PICK h \in 2 .. K : h = m + 1
      BY <3>0
    <3>2. h - 1 = m /\ h \in 1 .. K /\ m \in 1 .. K
      BY <3>1, <1>14
    <3>3. F[h] = F[m] \o s[h]
      <4>1. F[h] = F[h - 1] \o s[h]
        BY <1>6, Zenon
      <4> QED BY <4>1, <3>2
    <3>4. Len(F[h]) = Len(F[m]) + Len(s[h])
      BY <3>2, <3>3, <1>3
    <3>5. n(h) = n(m) + Len(s[h])
      BY <1>7, <3>2
    <3>6. Len(F[m]) = n(m)
      BY <2>2
    <3> QED BY <3>1, <3>2, <3>4, <3>5, <3>6
  <2> HIDE DEF T
  <2>3. \A m \in 1 .. K : m \in T
    BY <2>1, <2>2, UpTo, <1>14
  <2> QED BY <2>3 DEF T
<1>10. Len(F[K]) = Cardinality(Limits(Mask(i))) /\ F[K] \in Seq(Cells)
  <2>1. Cardinality(Limits(Mask(i))) = n(K)
    BY <1>0, LimitsCounted DEF n
  <2>2. Len(F[K]) = n(K)
    BY <1>9, <1>14
  <2>3. F[K] \in Seq(Cells)
    BY <1>6, <1>14
  <2> QED BY <2>1, <2>2, <2>3
<1>11. ASSUME NEW l \in Limits(Mask(i))
       PROVE  /\ Cardinality(Skipped(Mask(i), l)) \in 0 .. Len(F[K]) - 1
              /\ F[K][Cardinality(Skipped(Mask(i), l)) + 1] = Cell(l, i)
  <2>1. PICK k \in 1 .. K : LimitOrder[k] = l
    BY <1>0 DEF Limits, ToSet
  <2>2. Cardinality(Skipped(Mask(i), l)) = n(k - 1)
    BY <2>1, <1>0, SkippedIsBefore DEF n
  <2>3. l \in Mask(i)
    BY DEF Limits
  <2>4. Len(s[k]) = 1 /\ s[k][1] = Cell(l, i)
    BY <2>1, <2>3, <1>4
  <2>5. n(k) = n(k - 1) + 1 /\ n(k - 1) \in Nat
    BY <1>7, <2>4
  <2>6. Len(F[k]) = n(k)
    BY <1>9
  <2>7. Placed(F, K, s, k)
    BY <1>3, <1>14, <1>15, FlattenPlace
  <2>8. F[K][Len(F[k]) - Len(s[k]) + 1] = s[k][1]
    BY <2>4, <2>7 DEF Placed
  <2>9. Len(F[k]) - Len(s[k]) + 1 = n(k - 1) + 1
    BY <2>4, <2>5, <2>6
  <2>10. Len(F[K]) >= n(k)
    BY <2>6, <2>7 DEF Placed
  <2>11. Len(F[K]) \in Nat
    BY <1>6, <1>14
  <2> QED BY <2>2, <2>5, <2>4, <2>8, <2>9, <2>10, <2>11
<1> QED BY <1>5, <1>6, <1>10, <1>11

\* A record has its limits where the host looks for them.
LEMMA SdrLayout ==
  ASSUME NEW i \in Sensors, Len(scans) \in Nat
  PROVE  LET n == Cardinality(Limits(Mask(i))) IN
         /\ SdrOf(i) \in Seq(Cells)
         /\ Len(SdrOf(i)) = 9 + n
         /\ SdrOf(i)[1] = Cell("id", i) /\ SdrOf(i)[3] = Cell("value", i)
         /\ SdrOf(i)[6] = [Cell("mask", i) EXCEPT !.mask = Mask(i)]
         /\ \A l \in Limits(Mask(i)) : SdrOf(i)[7 + Cardinality(Skipped(Mask(i), l))] = Cell(l, i)
         /\ SdrOf(i)[7 + n] = Cell("status", i)
         /\ SdrOf(i)[8 + n] = Cell("avg", i)
         /\ SdrOf(i)[9 + n] = Cell("max", i)
<1> DEFINE n    == Cardinality(Limits(Mask(i)))
           head == << Cell("id", i), Cell("name", i), Cell("value", i), Cell("unit", i), Cell("mod", i) >>
           tail == << Cell("status", i), Cell("avg", i), Cell("max", i) >>
           mask == [Cell("mask", i) EXCEPT !.mask = Mask(i)]
           mid  == LimitCells(i)
<1>1. SdrOf(i) = head \o << mask >> \o mid \o tail
  <2>1. \A fs : [k \in DOMAIN fs |-> Cell(fs[k], i)] = [k \in DOMAIN fs |-> Cell(fs[k], i)]
    OBVIOUS
  <2>2. LET fs == <<"id", "name", "value", "unit", "mod">> IN [k \in DOMAIN fs |-> Cell(fs[k], i)] = head
    OBVIOUS
  <2>3. LET fs == <<"status", "avg", "max">> IN [k \in DOMAIN fs |-> Cell(fs[k], i)] = tail
    OBVIOUS
  <2>4. mid = FlattenSeq([k \in DOMAIN LimitOrder |->
                 IF LimitOrder[k] \in Mask(i) THEN << Cell(LimitOrder[k], i) >> ELSE << >>])
    BY LimitNames DEF LimitCells
  <2> HIDE DEF head, mid, tail, mask
  <2> QED BY <2>2, <2>3, <2>4, Zenon DEF SdrOf, mask
<1>2. /\ head \in Seq(Cells) /\ Len(head) = 5 /\ head[1] = Cell("id", i) /\ head[3] = Cell("value", i)
  <2>1. /\ Cell("id", i) \in Cells /\ Cell("name", i) \in Cells /\ Cell("value", i) \in Cells
        /\ Cell("unit", i) \in Cells /\ Cell("mod", i) \in Cells
    BY CellsAreCells DEF Names
  <2> QED BY <2>1
<1>3. /\ tail \in Seq(Cells) /\ Len(tail) = 3
      /\ tail[1] = Cell("status", i) /\ tail[2] = Cell("avg", i) /\ tail[3] = Cell("max", i)
  <2>1. Cell("status", i) \in Cells /\ Cell("avg", i) \in Cells /\ Cell("max", i) \in Cells
    BY CellsAreCells DEF Names
  <2> QED BY <2>1
<1>4. mask \in Cells
  BY CellsAreCells DEF Names
<1>5. mid \in Seq(Cells) /\ Len(mid) = n /\ n \in Nat
  BY LimitsInOrder, MaskCounted
<1>6. \A l \in Limits(Mask(i)) :
        /\ Cardinality(Skipped(Mask(i), l)) \in 0 .. n - 1
        /\ mid[Cardinality(Skipped(Mask(i), l)) + 1] = Cell(l, i)
  BY LimitsInOrder
<1>16. head \in Seq(Cells) /\ tail \in Seq(Cells) /\ mid \in Seq(Cells) /\ << mask >> \in Seq(Cells)
  BY <1>2, <1>3, <1>4, <1>5
<1> HIDE DEF head, tail, mask, mid, n
<1> DEFINE a == head \o << mask >>
           b == a \o mid
<1>7. a \in Seq(Cells) /\ Len(a) = 6 /\ a[6] = mask /\ a[1] = head[1] /\ a[3] = head[3]
  <2>1. << mask >> \in Seq(Cells) /\ Len(<< mask >>) = 1 /\ << mask >>[1] = mask
    BY <1>4
  <2>2. a \in Seq(Cells) /\ Len(a) = Len(head) + Len(<< mask >>)
    BY <1>16
  <2>3. \A j \in 1 .. Len(head) : a[j] = head[j]
    BY <1>16
  <2>4. \A j \in 1 .. Len(<< mask >>) : a[Len(head) + j] = << mask >>[j]
    BY <1>16
  <2> HIDE DEF a
  <2>5. a[5 + 1] = << mask >>[1]
    BY <2>1, <2>4, <1>2
  <2>7. << mask >>[1] = mask /\ 5 + 1 = 6
    OBVIOUS
  <2>6. Len(a) = 6 /\ a[1] = head[1] /\ a[3] = head[3]
    BY <2>1, <2>2, <2>3, <1>2
  <2> QED BY <2>2, <2>5, <2>6, <2>7
<1> HIDE DEF a
<1>17. a \in Seq(Cells)
  BY <1>7
<1>8. /\ b \in Seq(Cells) /\ Len(b) = 6 + n /\ \A j \in 1 .. 6 : b[j] = a[j]
      /\ \A j \in 1 .. n : b[6 + j] = mid[j]
  <2>1. b \in Seq(Cells) /\ Len(b) = Len(a) + Len(mid)
    BY <1>16, <1>17
  <2>2. \A j \in 1 .. Len(a) : b[j] = a[j]
    BY <1>16, <1>17
  <2>3. \A j \in 1 .. Len(mid) : b[Len(a) + j] = mid[j]
    BY <1>16, <1>17
  <2> HIDE DEF b
  <2> QED BY <2>1, <2>2, <2>3, <1>5, <1>7
<1>9. SdrOf(i) = b \o tail
  BY <1>1 DEF a
<1> HIDE DEF b
<1>18. b \in Seq(Cells)
  BY <1>8
<1>10. /\ SdrOf(i) \in Seq(Cells) /\ Len(SdrOf(i)) = 9 + n
       /\ \A j \in 1 .. 6 + n : SdrOf(i)[j] = b[j]
       /\ \A j \in 1 .. 3 : SdrOf(i)[6 + n + j] = tail[j]
  <2>1. SdrOf(i) \in Seq(Cells) /\ Len(SdrOf(i)) = Len(b) + Len(tail)
    BY <1>16, <1>18, <1>9
  <2>2. \A j \in 1 .. Len(b) : SdrOf(i)[j] = b[j]
    BY <1>16, <1>18, <1>9
  <2>3. \A j \in 1 .. Len(tail) : SdrOf(i)[Len(b) + j] = tail[j]
    BY <1>16, <1>18, <1>9
  <2>4. Len(SdrOf(i)) = 9 + n
    BY <2>1, <1>3, <1>5, <1>8
  <2> QED BY <2>1, <2>2, <2>3, <2>4, <1>3, <1>8
<1>12. SdrOf(i)[7 + n] = tail[1] /\ SdrOf(i)[8 + n] = tail[2] /\ SdrOf(i)[9 + n] = tail[3]
  <2>1. 6 + n + 1 = 7 + n /\ 6 + n + 2 = 8 + n /\ 6 + n + 3 = 9 + n
    BY <1>5
  <2>2. 1 \in 1 .. 3 /\ 2 \in 1 .. 3 /\ 3 \in 1 .. 3
    OBVIOUS
  <2> QED BY <2>1, <2>2, <1>10
<1>13. \A j \in 1 .. 6 : SdrOf(i)[j] = a[j]
  BY <1>5, <1>8, <1>10
<1>14. SdrOf(i)[1] = head[1] /\ SdrOf(i)[3] = head[3] /\ SdrOf(i)[6] = mask
  BY <1>7, <1>13
<1>15. ASSUME NEW l \in Limits(Mask(i))
       PROVE  SdrOf(i)[7 + Cardinality(Skipped(Mask(i), l))] = Cell(l, i)
  <2>1. PICK h \in 0 .. n - 1 : h = Cardinality(Skipped(Mask(i), l)) /\ mid[h + 1] = Cell(l, i)
    BY <1>6
  <2>2. h + 1 \in 1 .. n /\ 7 + h \in 1 .. 6 + n /\ 7 + h = 6 + (h + 1)
    BY <1>5
  <2> QED BY <2>1, <2>2, <1>8, <1>10
<1> QED BY <1>2, <1>3, <1>10, <1>12, <1>14, <1>15 DEF n, mask

-----------------------------------------------------------------------------
(* What the host makes of it.                                               *)

\* Where ParseSdr finds the records.
Parses(at, c, n) == at = [k \in 1 .. n + 1 |-> IF k = 1 THEN 1 ELSE Following(c, at[k - 1])]

\* There is one way to walk through the records.
LEMMA ParseBy ==
  ASSUME NEW c, NEW n \in Nat, NEW at, Parses(at, c, n)
  PROVE  ParseSdr(c, n) = IF c[at[n + 1]] = Eor THEN [k \in 1 .. n |-> ParseRecord(c, at[k])] ELSE << >>
<1> DEFINE g == CHOOSE g : g = [k \in 1 .. n + 1 |-> IF k = 1 THEN 1 ELSE Following(c, g[k - 1])]
<1>1. Parses(g, c, n)
  BY DEF Parses
<1>2. ParseSdr(c, n) = IF c[g[n + 1]] = Eor THEN [k \in 1 .. n |-> ParseRecord(c, g[k])] ELSE << >>
  BY DEF ParseSdr
<1> HIDE DEF g
<1> DEFINE T == {k \in 1 .. n + 1 : g[k] = at[k]}
<1>3. \A k \in 1 .. n + 1 : /\ g[k] = IF k = 1 THEN 1 ELSE Following(c, g[k - 1])
                            /\ at[k] = IF k = 1 THEN 1 ELSE Following(c, at[k - 1])
  BY <1>1 DEF Parses
<1>4. 1 \in T
  BY <1>3
<1>5. ASSUME NEW m \in 1 .. n + 1 - 1, m \in T
      PROVE  m + 1 \in T
  <2>1. PICK k \in 1 .. n + 1 : k = m + 1
    OBVIOUS
  <2>2. k # 1 /\ k - 1 = m /\ g[m] = at[m]
    BY <2>1, <1>5
  <2>3. g[k] = Following(c, g[k - 1]) /\ at[k] = Following(c, at[k - 1])
    BY <1>3, <2>2, Zenon
  <2>4. g[k] = at[k]
    BY <2>2, <2>3
  <2> QED BY <2>1, <2>4
<1> HIDE DEF T
<1>6. n + 1 \in Nat
  OBVIOUS
<1>7. \A m \in 1 .. n + 1 : m \in T
  BY <1>4, <1>5, <1>6, UpTo
<1>8. \A m \in 1 .. n + 1 : g[m] = at[m]
  BY <1>7 DEF T
<1>9. g = at
  <2>1. /\ g = [k \in 1 .. n + 1 |-> IF k = 1 THEN 1 ELSE Following(c, g[k - 1])]
        /\ at = [k \in 1 .. n + 1 |-> IF k = 1 THEN 1 ELSE Following(c, at[k - 1])]
    BY <1>1, Zenon DEF Parses
  <2>2. g = [k \in 1 .. n + 1 |-> g[k]] /\ at = [k \in 1 .. n + 1 |-> at[k]]
    BY <2>1
  <2> QED BY <2>2, <1>8
<1> QED BY <1>2, <1>9

\* The record of a sensor as the host should have it.
RecordNow(i) ==
  [id |-> i, mask |-> Mask(i), value |-> Cell("value", i), status |-> Cell("status", i),
   limit |-> [l \in DOMAIN Limit[i] |-> Cell(l, i)], avg |-> Cell("avg", i), max |-> Cell("max", i)]

\* A record that stands at p is read as it was written, and the next one found.
Stands(c, p, i) == \A j \in 1 .. Len(SdrOf(i)) : c[p - 1 + j] = SdrOf(i)[j]

\* parse_sdr reads a record where it stands, and finds the next (ParseRecord, Following).
LEMMA RecordRead ==
  ASSUME NEW i \in Sensors, Len(scans) \in Nat, NEW p \in Nat, NEW c, Stands(c, p, i)
  PROVE  ParseRecord(c, p) = RecordNow(i) /\ Following(c, p) = p + Len(SdrOf(i))
<1> DEFINE n == Cardinality(Limits(Mask(i)))
           sk(l) == Cardinality(Skipped(Mask(i), l))
<1>1. /\ n \in Nat /\ Limits(Mask(i)) = DOMAIN Limit[i]
      /\ Cardinality(Mask(i)) = n + 2 /\ Cardinality(Mask(i) \cap {"avg", "max"}) = 2
  BY MaskCounted
<1>2. /\ Len(SdrOf(i)) = 9 + n
      /\ SdrOf(i)[1] = Cell("id", i) /\ SdrOf(i)[3] = Cell("value", i)
      /\ SdrOf(i)[6] = [Cell("mask", i) EXCEPT !.mask = Mask(i)]
      /\ SdrOf(i)[7 + n] = Cell("status", i)
      /\ SdrOf(i)[8 + n] = Cell("avg", i)
      /\ SdrOf(i)[9 + n] = Cell("max", i)
  BY SdrLayout
<1>3. \A l \in Limits(Mask(i)) : sk(l) \in 0 .. n - 1 /\ SdrOf(i)[7 + sk(l)] = Cell(l, i)
  BY SdrLayout, LimitsInOrder
<1> HIDE DEF n, sk
<1>4. \A j \in 1 .. 9 + n : c[p - 1 + j] = SdrOf(i)[j]
  BY <1>2 DEF Stands
<1>5. /\ c[p] = Cell("id", i) /\ c[p + 2] = Cell("value", i)
      /\ c[p + 5] = [Cell("mask", i) EXCEPT !.mask = Mask(i)]
  <2>1. 1 \in 1 .. 9 + n /\ 3 \in 1 .. 9 + n /\ 6 \in 1 .. 9 + n
    BY <1>1
  <2>2. p - 1 + 1 = p /\ p - 1 + 3 = p + 2 /\ p - 1 + 6 = p + 5
    OBVIOUS
  <2>3. c[p - 1 + 1] = SdrOf(i)[1] /\ c[p - 1 + 3] = SdrOf(i)[3] /\ c[p - 1 + 6] = SdrOf(i)[6]
    BY <2>1, <1>4, Zenon
  <2> QED BY <2>2, <2>3, <1>2
<1>6. c[p].of = i /\ c[p + 5].mask = Mask(i)
  BY <1>5 DEF Cell
<1> DEFINE q == p + 6 + n
<1>7. c[q] = Cell("status", i) /\ c[q + 1] = Cell("avg", i) /\ c[q + 2] = Cell("max", i)
  <2>1. 7 + n \in 1 .. 9 + n /\ 8 + n \in 1 .. 9 + n /\ 9 + n \in 1 .. 9 + n
    BY <1>1
  <2>2. p - 1 + (7 + n) = q /\ p - 1 + (8 + n) = q + 1 /\ p - 1 + (9 + n) = q + 2
    BY <1>1
  <2>3. /\ c[p - 1 + (7 + n)] = SdrOf(i)[7 + n] /\ c[p - 1 + (8 + n)] = SdrOf(i)[8 + n]
        /\ c[p - 1 + (9 + n)] = SdrOf(i)[9 + n]
    BY <2>1, <1>4, Zenon
  <2> QED BY <2>2, <2>3, <1>2
<1>8. ASSUME NEW l \in Limits(Mask(i))
      PROVE  c[p + 6 + sk(l)] = Cell(l, i)
  <2>1. sk(l) \in 0 .. n - 1 /\ SdrOf(i)[7 + sk(l)] = Cell(l, i)
    BY <1>3
  <2>2. 7 + sk(l) \in 1 .. 9 + n /\ p - 1 + (7 + sk(l)) = p + 6 + sk(l)
    BY <2>1, <1>1
  <2>3. c[p - 1 + (7 + sk(l))] = SdrOf(i)[7 + sk(l)]
    BY <2>2, <1>4, Zenon
  <2> QED BY <2>1, <2>2, <2>3
<1>9. [l \in Limits(Mask(i)) |-> c[p + 6 + sk(l)]] = [l \in DOMAIN Limit[i] |-> Cell(l, i)]
  BY <1>1, <1>8
<1>10. "avg" \in Mask(i) /\ "max" \in Mask(i)
  BY DEF Mask
<1>11. q + Cardinality(Mask(i) \cap {"avg", "max"}) = q + 2
  BY <1>1
<1>12. ParseRecord(c, p) =
         [id |-> c[p].of, mask |-> Mask(i), value |-> c[p + 2], status |-> c[q],
          limit |-> [l \in Limits(Mask(i)) |-> c[p + 6 + sk(l)]],
          avg |-> IF "avg" \in Mask(i) THEN c[q + 1] ELSE Zero,
          max |-> IF "max" \in Mask(i) THEN c[q + Cardinality(Mask(i) \cap {"avg", "max"})] ELSE Zero]
  BY <1>6, Zenon DEF ParseRecord, n, sk
<1> HIDE DEF q
<1>13. ParseRecord(c, p) =
         [id |-> i, mask |-> Mask(i), value |-> Cell("value", i), status |-> Cell("status", i),
          limit |-> [l \in DOMAIN Limit[i] |-> Cell(l, i)], avg |-> Cell("avg", i), max |-> Cell("max", i)]
  BY <1>5, <1>6, <1>7, <1>9, <1>10, <1>11, <1>12, Zenon
<1>14. ParseRecord(c, p) = RecordNow(i)
  BY <1>13, Zenon DEF RecordNow
<1>15. Following(c, p) = p + Len(SdrOf(i))
  <2>1. Following(c, p) = p + 7 + Cardinality(Mask(i))
    BY <1>6, Zenon DEF Following
  <2> QED BY <2>1, <1>1, <1>2
<1> QED BY <1>14, <1>15

\* parse_sdr gets back from an answer of iPopulateAsdmGetSdrResponse the records
\* that were put into it, whatever number of sensors and limits there are.
THEOREM RecordsComeBack ==
  ASSUME Len(scans) \in Nat
  PROVE  ParseSdr(GetSdr, Cardinality(Sensors)) = [i \in Sensors |-> RecordNow(i)]
<1> DEFINE N == Cardinality(Sensors)
           s == [i \in Sensors |-> SdrOf(i)]
           c == GetSdr
<1>1. Sensors = 1 .. N /\ N \in Nat \ {0}
  BY SensorReadAssumption, FS_CardinalityType, FS_EmptySet
<1>2. \A i \in Sensors : SdrOf(i) \in Seq(Cells) /\ Len(SdrOf(i)) \in Nat \ {0}
  <2>1. ASSUME NEW i \in Sensors
        PROVE  SdrOf(i) \in Seq(Cells) /\ Len(SdrOf(i)) \in Nat \ {0}
    <3>1. SdrOf(i) \in Seq(Cells) /\ Len(SdrOf(i)) = 9 + Cardinality(Limits(Mask(i)))
      BY SdrLayout
    <3>2. Cardinality(Limits(Mask(i))) \in Nat
      BY MaskCounted
    <3> QED BY <3>1, <3>2
  <2> QED BY <2>1
<1> HIDE DEF N
<1>3. s \in [1 .. N -> Seq(Cells)] /\ \A i \in 1 .. N : s[i] = SdrOf(i)
  BY <1>1, <1>2
<1>4. c = FlattenSeq(s) \o << Eor >>
  BY DEF GetSdr
<1> HIDE DEF s, c
<1>5. PICK F : Flat(F, Cells, N, s)
  BY <1>1, <1>3, FlattenBy
<1>6. /\ F \in [1 .. N -> Seq(Cells)] /\ F[1] = s[1] /\ FlattenSeq(s) = F[N]
      /\ \A k \in 2 .. N : F[k] = F[k - 1] \o s[k]
  BY <1>5 DEF Flat
<1>7. \A k \in 1 .. N : F[k] \in Seq(Cells) /\ Len(F[k]) \in Nat
  BY <1>6
<1>8. N \in 1 .. N /\ 1 \in 1 .. N
  BY <1>1
<1>9. /\ \A j \in 1 .. Len(F[N]) : c[j] = F[N][j]
      /\ c[Len(F[N]) + 1] = Eor
  <2>1. PICK f \in Seq(Cells) : f = F[N]
    BY <1>7, <1>8
  <2>2. << Eor >> \in Seq(Cells) /\ Len(<< Eor >>) = 1 /\ << Eor >>[1] = Eor
    <3>1. Eor \in Cells
      BY <1>1, <1>8, CellsAreCells DEF Names
    <3> QED BY <3>1
  <2>3. c = f \o << Eor >>
    BY <1>4, <1>6, <2>1
  <2>4. << Eor >> \in Seq(Cells)
    BY <2>2
  <2>5. \A j \in 1 .. Len(f) : c[j] = f[j]
    BY <2>3, <2>4
  <2>6. \A j \in 1 .. Len(<< Eor >>) : c[Len(f) + j] = << Eor >>[j]
    BY <2>3, <2>4
  <2>7. c[Len(f) + 1] = << Eor >>[1]
    BY <2>2, <2>6
  <2> QED BY <2>1, <2>2, <2>5, <2>7
<1> DEFINE start(k) == IF k = 1 THEN 1 ELSE Len(F[k - 1]) + 1
<1>10. ASSUME NEW k \in 1 .. N
       PROVE  /\ start(k) \in Nat /\ start(k) = Len(F[k]) - Len(s[k]) + 1
              /\ start(k + 1) = start(k) + Len(s[k])
              /\ Stands(c, start(k), k)
  <2>1. /\ s[k] = SdrOf(k) /\ s[k] \in Seq(Cells) /\ Len(s[k]) \in Nat /\ Len(F[k]) \in Nat
        /\ k \in Sensors
    BY <1>1, <1>2, <1>3, <1>7
  <2>2. start(k) = Len(F[k]) - Len(s[k]) + 1
    <3>1. CASE k = 1
      BY <3>1, <1>6, <2>1
    <3>2. CASE k # 1
      <4>1. k \in 2 .. N /\ k - 1 \in 1 .. N
        BY <3>2, <1>1
      <4>2. F[k] = F[k - 1] \o s[k]
        BY <4>1, <1>6, Zenon
      <4>3. F[k - 1] \in Seq(Cells) /\ Len(F[k - 1]) \in Nat
        BY <4>1, <1>7
      <4>4. Len(F[k]) = Len(F[k - 1]) + Len(s[k])
        BY <4>2, <4>3, <2>1
      <4> QED BY <3>2, <4>3, <4>4, <2>1
    <3> QED BY <3>1, <3>2
  <2>3. Placed(F, N, s, k)
    BY <1>1, <1>3, <1>5, FlattenPlace
  <2>4. /\ Len(F[N]) >= Len(F[k]) /\ Len(F[k]) >= Len(s[k])
        /\ \A j \in 1 .. Len(s[k]) : F[N][Len(F[k]) - Len(s[k]) + j] = s[k][j]
    BY <2>3 DEF Placed
  <2>5. start(k) \in Nat
    BY <2>1, <2>2, <2>4
  <2>6. start(k + 1) = Len(F[k]) + 1
    <3>1. k + 1 # 1 /\ k + 1 - 1 = k
      BY <1>1
    <3> QED BY <3>1
  <2>7. start(k + 1) = start(k) + Len(s[k])
    BY <2>1, <2>2, <2>6
  <2> HIDE DEF start
  <2>8. ASSUME NEW j \in 1 .. Len(s[k])
        PROVE  c[start(k) - 1 + j] = s[k][j]
    <3>1. start(k) - 1 + j = Len(F[k]) - Len(s[k]) + j
      BY <2>1, <2>2
    <3>2. Len(F[N]) \in Nat
      BY <1>7, <1>8
    <3>3. Len(F[k]) - Len(s[k]) + j \in 1 .. Len(F[N])
      BY <2>1, <2>4, <3>2
    <3>4. c[Len(F[k]) - Len(s[k]) + j] = F[N][Len(F[k]) - Len(s[k]) + j]
      BY <3>3, <1>9
    <3> QED BY <3>1, <3>4, <2>4
  <2>9. Stands(c, start(k), k)
    BY <2>1, <2>8 DEF Stands
  <2> QED BY <2>2, <2>5, <2>7, <2>9
<1>11. ASSUME NEW k \in 1 .. N
       PROVE  ParseRecord(c, start(k)) = RecordNow(k) /\ Following(c, start(k)) = start(k + 1)
  <2> HIDE DEF start
  <2>1. k \in Sensors /\ s[k] = SdrOf(k)
    BY <1>1, <1>3
  <2> QED BY <2>1, <1>10, RecordRead
<1> DEFINE at == [k \in 1 .. N + 1 |-> start(k)]
<1>12. Parses(at, c, N)
  <2>1. ASSUME NEW k \in 1 .. N + 1
        PROVE  start(k) = IF k = 1 THEN 1 ELSE Following(c, at[k - 1])
    <3>1. CASE k = 1
      BY <3>1
    <3>2. CASE k # 1
      <4>1. PICK h \in 1 .. N : h = k - 1
        BY <3>2, <1>1
      <4>2. h \in 1 .. N + 1 /\ h + 1 = k
        BY <4>1, <1>1
      <4>3. Following(c, start(h)) = start(h + 1)
        BY <1>11
      <4>4. at[h] = start(h)
        BY <4>2
      <4> HIDE DEF at, start
      <4> QED BY <3>2, <4>1, <4>2, <4>3, <4>4
    <3> QED BY <3>1, <3>2
  <2>2. at = [k \in 1 .. N + 1 |-> IF k = 1 THEN 1 ELSE Following(c, at[k - 1])]
    BY <2>1
  <2> HIDE DEF at
  <2> QED BY <2>2 DEF Parses
<1>13. at[N + 1] = Len(F[N]) + 1
  <2>1. PICK k \in 1 .. N + 1 : k = N + 1
    BY <1>1
  <2>2. k # 1 /\ k - 1 = N
    BY <2>1, <1>1
  <2>3. at[k] = Len(F[k - 1]) + 1
    BY <2>2
  <2> QED BY <2>1, <2>2, <2>3
<1>14. \A k \in 1 .. N : at[k] = start(k)
  BY <1>1
<1> HIDE DEF at, start
<1>15. ParseSdr(c, N) = IF c[at[N + 1]] = Eor THEN [k \in 1 .. N |-> ParseRecord(c, at[k])] ELSE << >>
  BY <1>1, <1>12, ParseBy
<1>16. ParseSdr(c, N) = [k \in 1 .. N |-> ParseRecord(c, at[k])]
  BY <1>9, <1>13, <1>15
<1>17. [k \in 1 .. N |-> ParseRecord(c, at[k])] = [k \in 1 .. N |-> RecordNow(k)]
  BY <1>11, <1>14
<1> QED BY <1>1, <1>16, <1>17 DEF c, N

-----------------------------------------------------------------------------
(* The cache and its readers.                                               *)

\* An interval that is set is cut to sixteen bits.
LEMMA ClippedFits ==
  ASSUME NEW v \in Int
  PROVE  Clipped(v) \in 0 .. ShortMax /\ v % 65536 \in 0 .. ShortMax
<1>1. ShortMax \in Nat /\ 65536 = ShortMax + 1
  BY DEF ShortMax
<1>2. v % (ShortMax + 1) \in 0 .. ShortMax
  BY <1>1
<1>3. v % 65536 \in 0 .. ShortMax /\ 0 \in 0 .. ShortMax
  BY <1>1, <1>2
<1> QED BY <1>3 DEF Clipped

\* The fields that a fetch stores.
LEMMA FieldNames == Fields = {"value", "max", "avg", "status"}
BY DEF Fields, Readings, ToSet

\* The parts of a record.
Record(i, v, w, l, a, m) ==
  [id |-> i, mask |-> Mask(i), value |-> v, status |-> w, limit |-> l, avg |-> a, max |-> m]
LimitsOK(l, i) ==
  DOMAIN l = DOMAIN Limit[i] /\ \A h \in DOMAIN Limit[i] : l[h].field = h /\ l[h].of = i

\* A record of the cache is right when each of its parts is.
LEMMA RecordParts ==
  ASSUME NEW i, NEW x
  PROVE  RecordOK(x, i) <=>
           \E v \in CellsOf("value", i), w \in CellsOf("status", i), a \in CellsOf("avg", i),
              m \in CellsOf("max", i) : \E l : LimitsOK(l, i) /\ x = Record(i, v, w, l, a, m)
<1>1. ASSUME RecordOK(x, i)
      PROVE  \E v \in CellsOf("value", i), w \in CellsOf("status", i), a \in CellsOf("avg", i),
                m \in CellsOf("max", i) : \E l : LimitsOK(l, i) /\ x = Record(i, v, w, l, a, m)
  <2>1. /\ x["value"] \in CellsOf("value", i) /\ x["status"] \in CellsOf("status", i)
        /\ x["avg"] \in CellsOf("avg", i) /\ x["max"] \in CellsOf("max", i)
    BY <1>1, FieldNames DEF RecordOK
  <2>2. LimitsOK(x.limit, i) /\ x = Record(i, x.value, x.status, x.limit, x.avg, x.max)
    BY <1>1, Zenon DEF RecordOK, LimitsOK, Record
  <2> QED BY <2>1, <2>2
<1>2. ASSUME NEW v \in CellsOf("value", i), NEW w \in CellsOf("status", i), NEW a \in CellsOf("avg", i),
             NEW m \in CellsOf("max", i), NEW l, LimitsOK(l, i), x = Record(i, v, w, l, a, m)
      PROVE  RecordOK(x, i)
  <2>1. x.value = v /\ x.status = w /\ x.limit = l /\ x.avg = a /\ x.max = m
    BY <1>2 DEF Record
  <2>2. \A f \in Fields : x[f] \in CellsOf(f, i)
    BY <1>2, FieldNames DEF Record
  <2>3. x = [id |-> i, mask |-> Mask(i), value |-> x.value, status |-> x.status,
             limit |-> x.limit, avg |-> x.avg, max |-> x.max]
    BY <1>2, <2>1, Zenon DEF Record
  <2>4. LimitsOK(x.limit, i)
    BY <1>2, <2>1
  <2> QED BY <2>2, <2>3, <2>4, Zenon DEF RecordOK, LimitsOK
<1> QED BY <1>1, <1>2

\* A right record is that of its sensor.
LEMMA RecordFacts ==
  ASSUME NEW i, NEW x, RecordOK(x, i)
  PROVE  x.id = i /\ x.mask = Mask(i)
BY RecordParts DEF Record

\* A record of the repo, with a field in another state.
LEMMA RecordStored ==
  ASSUME NEW i, NEW x, RecordOK(x, i), NEW f \in Fields, NEW c \in CellsOf(f, i)
  PROVE  /\ RecordOK([x EXCEPT ![f] = c], i)
         /\ [x EXCEPT ![f] = c][f] = c
         /\ \A g \in Fields \ {f} : [x EXCEPT ![f] = c][g] = x[g]
<1>0. PICK v \in CellsOf("value", i), w \in CellsOf("status", i), a \in CellsOf("avg", i),
           m \in CellsOf("max", i) : \E l : LimitsOK(l, i) /\ x = Record(i, v, w, l, a, m)
  BY RecordParts
<1>1. PICK l : LimitsOK(l, i) /\ x = Record(i, v, w, l, a, m)
  BY <1>0
<1>2. CASE f = "value"
  <2>1. [x EXCEPT !["value"] = c] = Record(i, c, w, l, a, m)
    BY <1>1 DEF Record
  <2>2. /\ Record(i, c, w, l, a, m)["value"] = c /\ Record(i, c, w, l, a, m)["max"] = x["max"]
        /\ Record(i, c, w, l, a, m)["avg"] = x["avg"] /\ Record(i, c, w, l, a, m)["status"] = x["status"]
    BY <1>1 DEF Record
  <2>3. RecordOK(Record(i, c, w, l, a, m), i)
    BY <1>1, <1>2, RecordParts
  <2> QED BY <1>2, <2>1, <2>2, <2>3, FieldNames
<1>3. CASE f = "max"
  <2>1. [x EXCEPT !["max"] = c] = Record(i, v, w, l, a, c)
    BY <1>1 DEF Record
  <2>2. /\ Record(i, v, w, l, a, c)["max"] = c /\ Record(i, v, w, l, a, c)["value"] = x["value"]
        /\ Record(i, v, w, l, a, c)["avg"] = x["avg"] /\ Record(i, v, w, l, a, c)["status"] = x["status"]
    BY <1>1 DEF Record
  <2>3. RecordOK(Record(i, v, w, l, a, c), i)
    BY <1>1, <1>3, RecordParts
  <2> QED BY <1>3, <2>1, <2>2, <2>3, FieldNames
<1>4. CASE f = "avg"
  <2>1. [x EXCEPT !["avg"] = c] = Record(i, v, w, l, c, m)
    BY <1>1 DEF Record
  <2>2. /\ Record(i, v, w, l, c, m)["avg"] = c /\ Record(i, v, w, l, c, m)["value"] = x["value"]
        /\ Record(i, v, w, l, c, m)["max"] = x["max"] /\ Record(i, v, w, l, c, m)["status"] = x["status"]
    BY <1>1 DEF Record
  <2>3. RecordOK(Record(i, v, w, l, c, m), i)
    BY <1>1, <1>4, RecordParts
  <2> QED BY <1>4, <2>1, <2>2, <2>3, FieldNames
<1>5. CASE f = "status"
  <2>1. [x EXCEPT !["status"] = c] = Record(i, v, c, l, a, m)
    BY <1>1 DEF Record
  <2>2. /\ Record(i, v, c, l, a, m)["status"] = c /\ Record(i, v, c, l, a, m)["value"] = x["value"]
        /\ Record(i, v, c, l, a, m)["max"] = x["max"] /\ Record(i, v, c, l, a, m)["avg"] = x["avg"]
    BY <1>1 DEF Record
  <2>3. RecordOK(Record(i, v, c, l, a, m), i)
    BY <1>1, <1>5, RecordParts
  <2> QED BY <1>5, <2>1, <2>2, <2>3, FieldNames
<1> QED BY <1>2, <1>3, <1>4, <1>5, FieldNames

\* The index of a record is its id.
LEMMA FindIs ==
  ASSUME TypeOK, repo # << >>, NEW i \in Sensors
  PROVE  /\ DOMAIN repo = Sensors /\ Find(i) = i /\ RecordOK(repo[i], i)
<1>1. DOMAIN repo = Sensors
  BY DEF TypeOK, RepoOK, OfSensors
<1>2. \A k \in Sensors : RecordOK(repo[k], k)
  BY <1>1 DEF TypeOK, RepoOK
<1>3. \A k \in Sensors : repo[k].id = k
  BY <1>2, RecordFacts
<1> QED BY <1>1, <1>2, <1>3 DEF Find

\* The sensors are numbered from 1.
LEMMA SensorsCounted ==
  /\ Sensors = 1 .. Cardinality(Sensors) /\ Cardinality(Sensors) \in Nat \ {0} /\ 0 \notin Sensors
BY SensorReadAssumption, FS_CardinalityType, FS_EmptySet

\* A reader is of hwmon or of the ioctl.
LEMMA NoBoth ==
  /\ Readers = Hwmon \cup Ioctl /\ Hwmon \cap Ioctl = {}
  /\ NoReader \notin Hwmon /\ NoReader \notin Ioctl
BY SensorReadAssumption DEF Readers

\* The clock and what is told by it.
LEMMA ClockTypes ==
  ASSUME TypeOK
  PROVE  /\ now \in Nat /\ now <= MaxTime /\ MaxTime \in Nat
         /\ stamp \in 0 .. now /\ taken \in 0 .. now /\ lag \in 0 .. now
         /\ interval \in 0 .. ShortMax /\ interval \in Nat
<1>1. ClockOK /\ MaxTime \in Nat
  BY SensorReadAssumption DEF TypeOK
<1>2. now \in 0 .. MaxTime /\ stamp \in 0 .. now /\ interval \in 0 .. ShortMax
  BY <1>1 DEF ClockOK
<1>3. taken \in 0 .. now /\ lag \in 0 .. now
  BY <1>1 DEF ClockOK
<1>4. ShortMax \in Nat
  BY SMT DEF ShortMax
<1>5. interval \in Nat
  BY <1>2, <1>4
<1> QED BY <1>1, <1>2, <1>3, <1>5

\* The types of what a step of a reader or of the driver may change.
LEMMA TypesKept ==
  ASSUME TypeOK, UNCHANGED <<scans, repo, now>>, reader' \in [Readers -> ReaderStates],
         stamp' \in 0 .. now, taken' \in 0 .. now, lag' \in 0 .. now, interval' \in 0 .. ShortMax,
         sema' \in Ioctl \cup {NoReader}, device' \in {"probe", "found", "ready", "error"},
         killed' \subseteq [of : Nat, scan : 0 .. Len(scans)], mixed' \in BOOLEAN
  PROVE  TypeOK'
<1>1. reader' \in [Readers -> ReaderStates']
  <2>1. ReaderStates' = ReaderStates
    BY DEF ReaderStates, ReadCells
  <2> QED BY <2>1
<1>2. RepoOK'
  <2>1. \A c, i : RecordOK(c, i)' <=> RecordOK(c, i)
    BY DEF RecordOK, CellsOf
  <2>2. (\A i \in DOMAIN repo : RecordOK(repo[i], i))'
    BY <2>1 DEF TypeOK, RepoOK
  <2>3. (repo = << >> \/ OfSensors(repo))'
    BY DEF TypeOK, RepoOK
  <2> QED BY <2>2, <2>3 DEF RepoOK
<1>3. ScansOK'
  BY DEF TypeOK, ScansOK
<1>4. ClockOK'
  <2>1. now \in 0 .. MaxTime
    BY ClockTypes
  <2>2. now' = now
    OBVIOUS
  <2> QED BY <2>1, <2>2 DEF ClockOK
<1>5. killed' \subseteq [of : Nat, scan : 0 .. Len(scans)]'
  OBVIOUS
<1> QED BY <1>1, <1>2, <1>3, <1>4, <1>5 DEF TypeOK

\* What depends on the scans of the card only.
LEMMA SameScans ==
  ASSUME UNCHANGED scans
  PROVE  /\ \A k, t : HadAt(k, t)' <=> HadAt(k, t)
         /\ \A c : Number(c)' = Number(c)
         /\ \A f, i : CellsOf(f, i)' = CellsOf(f, i)
         /\ \A i, n : Critical(i, n)' <=> Critical(i, n)
BY DEF HadAt, Number, CellsOf, Critical

\* A channel has a record if it is of a sensor, and the repo is there.
LEMMA RecordIs ==
  ASSUME TypeOK, NEW id
  PROVE  /\ HasRecord(id) <=> repo # << >> /\ id \in Sensors
         /\ HasRecord(id) => RecordOf(id) = repo[id] /\ RecordOK(repo[id], id)
<1>1. CASE repo = << >>
  BY <1>1 DEF HasRecord
<1>2. CASE repo # << >>
  <2>1. DOMAIN repo = Sensors
    BY <1>2 DEF TypeOK, RepoOK, OfSensors
  <2>2. \A k \in Sensors : RecordOK(repo[k], k)
    BY <2>1 DEF TypeOK, RepoOK
  <2>3. \A k \in Sensors : repo[k].id = k
    BY <2>2, RecordFacts
  <2>4. HasRecord(id) <=> id \in Sensors
    BY <2>1, <2>3 DEF HasRecord
  <2>5. id \in Sensors => Find(id) = id
    BY <1>2, FindIs
  <2> QED BY <1>2, <2>2, <2>4, <2>5 DEF RecordOf
<1> QED BY <1>1, <1>2

\* A kill has the same cause while the scans and the repo stay.
LEMMA SameCause ==
  ASSUME UNCHANGED <<scans, repo>>
  PROVE  \A c : Caused(c)' <=> Caused(c)
BY DEF Caused, HasRecord, Critical

\* A step kills for what is in K, each with a cause; and each reader that has
\* read a critical value had it before, or kills.
KillsFor(K) ==
  /\ killed' = killed \cup K /\ \A c \in K : Caused(c)
  /\ \A q \in Readers :
       \/ ~ reader'[q].ok
       \/ /\ reader[q].ok /\ reader'[q].attr = reader[q].attr
          /\ reader'[q].of = reader[q].of /\ reader'[q].val = reader[q].val
       \/ reader'[q].attr = "value" /\ Critical(reader'[q].of, Number(reader'[q].val)) =>
            Kill(reader'[q].of, reader'[q].val) \in killed'

\* Such a step keeps the promise.
LEMMA KillsKeep ==
  ASSUME KilledForCause, UNCHANGED <<scans, repo>>, NEW K, KillsFor(K)
  PROVE  KilledForCause'
<1>1. \A c \in killed' : Caused(c)'
  <2>1. \A c \in killed' : Caused(c)
    BY DEF KilledForCause, KillsFor
  <2> QED BY <2>1, SameCause
<1>2. ASSUME NEW q \in Readers, reader'[q].ok, reader'[q].attr = "value",
             Critical(reader'[q].of, Number(reader'[q].val))
      PROVE  Kill(reader'[q].of, reader'[q].val) \in killed'
  <2>1. CASE /\ reader[q].ok /\ reader'[q].attr = reader[q].attr
             /\ reader'[q].of = reader[q].of /\ reader'[q].val = reader[q].val
    <3>1. Kill(reader[q].of, reader[q].val) \in killed
      BY <1>2, <2>1 DEF KilledForCause, ValueRead
    <3> QED BY <2>1, <3>1 DEF KillsFor
  <2> QED BY <1>2, <2>1 DEF KillsFor
<1>3. ASSUME NEW q \in Readers
      PROVE  (ValueRead(reader[q]) /\ Critical(reader[q].of, Number(reader[q].val))
                => Kill(reader[q].of, reader[q].val) \in killed)'
  <2>1. ASSUME ValueRead(reader[q])', (Critical(reader[q].of, Number(reader[q].val)))'
        PROVE  (Kill(reader[q].of, reader[q].val) \in killed)'
    <3>1. reader'[q].ok /\ reader'[q].attr = "value"
      BY <2>1 DEF ValueRead
    <3>2. PICK c : c = reader'[q].val
      OBVIOUS
    <3>3. Number(c)' = Number(c) /\ Number(c)' = Number(reader[q].val)'
      BY <3>2, SameScans
    <3>4. Critical(reader'[q].of, Number(reader'[q].val))
      BY <2>1, <3>2, <3>3 DEF Critical
    <3> QED BY <1>2, <3>1, <3>4 DEF Kill
  <2> QED BY <2>1
<1>4. (\A c \in killed : Caused(c))'
  BY <1>1
<1>5. (\A q \in Readers : ValueRead(reader[q]) /\ Critical(reader[q].of, Number(reader[q].val))
         => Kill(reader[q].of, reader[q].val) \in killed)'
  BY <1>3
<1> QED BY <1>4, <1>5, Zenon DEF KilledForCause

\* A step of one reader, which leaves the cache alone and is not of the parse.
Alone(r, x) ==
  /\ reader' = [reader EXCEPT ![r] = x] /\ x \in ReaderStates
  /\ ~ Filling(r) /\ x.pc # "fill"
  /\ UNCHANGED <<scans, device, repo, stamp, interval, now, taken, lag, mixed>>

\* Such a step keeps the types.
LEMMA AloneTypes ==
  ASSUME TypeOK, NEW r \in Readers, NEW x, Alone(r, x), sema' \in Ioctl \cup {NoReader},
         killed' \subseteq [of : Nat, scan : 0 .. Len(scans)]
  PROVE  TypeOK'
<1>1. reader' \in [Readers -> ReaderStates]
  BY DEF Alone, TypeOK
<1>2. stamp' \in 0 .. now /\ taken' \in 0 .. now /\ lag' \in 0 .. now /\ interval' \in 0 .. ShortMax
  <2>1. stamp' = stamp /\ taken' = taken /\ lag' = lag /\ interval' = interval
    BY DEF Alone
  <2> QED BY <2>1, ClockTypes
<1>3. UNCHANGED <<scans, repo, now>>
  BY DEF Alone
<1>4. device' \in {"probe", "found", "ready", "error"} /\ mixed' \in BOOLEAN
  BY DEF Alone, TypeOK
<1> QED BY <1>1, <1>2, <1>3, <1>4, TypesKept

\* It keeps the cache, and what the other readers have.
LEMMA AloneKeeps ==
  ASSUME TypeOK, SensorInv, NEW r \in Readers, NEW x, Alone(r, x)
  PROVE  /\ OneFills' /\ CacheInv' /\ StampInv'
         /\ \A q \in Readers \ {r} : ReadInv(q)' /\ CalmInv(q)'
         /\ Met(r)' <=> Met(r)
         /\ AskedOK(r)' <=> device = "ready" /\ <<x.of, x.attr>> \in Asked[r] /\ (r \in Hwmon => HasRecord(x.of))
         /\ HasRecord(reader[r].of)' <=> HasRecord(x.of)
<1>1. \A q \in Readers \ {r} : reader'[q] = reader[q]
  BY DEF Alone, TypeOK
<1>2. reader'[r] = x
  BY DEF Alone, TypeOK
<1>3. \A q \in Readers : Filling(q)' <=> Filling(q)
  BY <1>1, <1>2 DEF Alone, Filling
<1>4. OneFills' /\ StampInv'
  BY <1>3 DEF SensorInv, OneFills, StampInv, Alone
<1>5. \A k, t : HadAt(k, t)' <=> HadAt(k, t)
  BY DEF Alone, HadAt
<1>6. CacheInv'
  <2>1. \A q \in Readers : Filling(q) => reader'[q] = reader[q]
    BY <1>1 DEF Alone
  <2> QED BY <1>3, <1>5, <2>1 DEF SensorInv, CacheInv, Alone
<1>7. \A q \in Readers : Met(q)' <=> Met(q)
  <2>1. \A q \in Readers : Races(q)' = Races(q) /\ Races(q) \subseteq Readers
    BY DEF Races
  <2> QED BY <1>3, <2>1 DEF Met, Alone
<1>8. \A id : HasRecord(id)' <=> HasRecord(id)
  BY DEF HasRecord, Alone
<1>9. ASSUME NEW q \in Readers \ {r}
      PROVE  ReadInv(q)' /\ CalmInv(q)'
  <2>1. PICK y : y = reader[q] /\ y = reader'[q]
    BY <1>1
  <2>2. ReadInv(q) /\ CalmInv(q)
    BY DEF SensorInv
  <2>3. HasRecord(y.of)' <=> HasRecord(y.of)
    BY <1>8
  <2>4. HasRecord(reader[q].of)' <=> HasRecord(reader[q].of)
    BY <2>1, <2>3
  <2>5. AskedOK(q)' <=> AskedOK(q)
    BY <2>1, <2>4 DEF AskedOK, Alone
  <2>6. HadAt(reader[q].buf, reader[q].at)' <=> HadAt(reader[q].buf, reader[q].at)
    BY <1>5, <2>1 DEF HadAt, Alone
  <2>7. ReadInv(q)'
    BY <2>1, <2>2, <2>5, <2>6 DEF ReadInv, Alone, CellsOf
  <2>8. HadAt(reader[q].val.scan, Since(reader[q]))' <=> HadAt(reader[q].val.scan, Since(reader[q]))
    BY <2>1 DEF HadAt, Since, Alone
  <2>9. Since(reader[q])' = Since(reader[q])
    BY <2>1 DEF Since
  <2>10. CalmInv(q)'
    BY <1>7, <2>1, <2>2, <2>4, <2>8, <2>9 DEF CalmInv, Alone
  <2> QED BY <2>7, <2>10
<1>10. HasRecord(reader[r].of)' <=> HasRecord(x.of)
  <2>1. PICK i : i = x.of
    OBVIOUS
  <2>2. HasRecord(i)' <=> HasRecord(i)
    BY <1>8
  <2>3. HasRecord(reader[r].of)' <=> HasRecord(i)'
    BY <1>2, <2>1 DEF HasRecord
  <2> QED BY <2>1, <2>2, <2>3
<1>11. AskedOK(r)' <=> device = "ready" /\ <<x.of, x.attr>> \in Asked[r] /\ (r \in Hwmon => HasRecord(x.of))
  BY <1>2, <1>10 DEF AskedOK, Alone
<1> QED BY <1>4, <1>6, <1>7, <1>9, <1>10, <1>11

\* The parts of the invariant that the step of one reader leaves to be shown.
LEMMA AloneInv ==
  ASSUME TypeOK, SensorInv, NEW r \in Readers, NEW x, Alone(r, x),
         SemaInv', KillInv', ReadInv(r)', CalmInv(r)'
  PROVE  SensorInv'
BY AloneKeeps DEF SensorInv

\* A reader that reads nothing, or has read it before, kills for nothing more.
LEMMA AloneKills ==
  ASSUME TypeOK, SensorInv, NEW r \in Readers, NEW x, Alone(r, x), killed' = killed,
         \/ ~ x.ok
         \/ reader[r].ok /\ x.attr = reader[r].attr /\ x.of = reader[r].of /\ x.val = reader[r].val
  PROVE  KillInv'
<1>1. UNCHANGED <<scans, repo>> /\ killed' = killed \cup {} /\ device' = device
  BY DEF Alone
<1>2. reader'[r] = x /\ \A q \in Readers \ {r} : reader'[q] = reader[q]
  BY DEF Alone, TypeOK
<1>3. \A q \in Readers :
        \/ ~ reader'[q].ok
        \/ reader[q].ok /\ reader'[q].attr = reader[q].attr
           /\ reader'[q].of = reader[q].of /\ reader'[q].val = reader[q].val
        \/ reader'[q] = reader[q]
  BY <1>2
<1>4. KilledForCause
  BY DEF SensorInv, KillInv
<1>5. \A q \in Readers :
        \/ ~ reader'[q].ok
        \/ reader[q].ok /\ reader'[q].attr = reader[q].attr
           /\ reader'[q].of = reader[q].of /\ reader'[q].val = reader[q].val
  BY <1>3
<1>6. KilledForCause'
  <2>1. KillsFor({})
    BY <1>1, <1>5 DEF KillsFor
  <2> QED BY <1>1, <1>4, <2>1, KillsKeep
<1> QED BY <1>1, <1>6 DEF SensorInv, KillInv

\* What every reader has by its type.
LEMMA SinceTyped ==
  ASSUME TypeOK, NEW r \in Readers
  PROVE  Since(reader[r]) \in Int /\ Since(reader[r]) <= now
<1>1. reader[r] \in ReaderStates
  BY DEF TypeOK
<1>2. reader[r].since \in 0 .. now /\ reader[r].due \in Nat /\ reader[r].fresh \in BOOLEAN
  BY <1>1 DEF ReaderStates
<1>3. reader[r].since \in Int /\ reader[r].since <= now
  BY <1>2, ClockTypes
<1> QED BY <1>2, <1>3, ClockTypes DEF Since

\* A read begins: nothing has been read.
LEMMA AskKeeps ==
  ASSUME TypeOK, SensorInv, NEW r \in Readers, Ask(r)
  PROVE  TypeOK' /\ SensorInv'
<1>1. PICK a \in Asked[r] :
        /\ r \in Hwmon => HasRecord(a[1])
        /\ Step(r, [reader[r] EXCEPT !.of = a[1], !.attr = a[2], !.reads = @ + 1,
                !.pc = IF r \in Ioctl THEN "down" ELSE IF a[2] \in {"status", "avg"} THEN "get" ELSE "check",
                !.due = MaxTime + 1, !.exempt = Met(r)])
  BY Zenon DEF Ask
<1> DEFINE x == [reader[r] EXCEPT !.of = a[1], !.attr = a[2], !.reads = @ + 1,
                !.pc = IF r \in Ioctl THEN "down" ELSE IF a[2] \in {"status", "avg"} THEN "get" ELSE "check",
                !.due = MaxTime + 1, !.exempt = Met(r)]
<1>2. reader[r] \in ReaderStates
  BY DEF TypeOK
<1>3. reader[r].pc = "idle" /\ device = "ready" /\ sema' = sema /\ killed' = killed
  BY DEF Ask
<1>4. a = <<a[1], a[2]>> /\ a[1] \in Nat /\ a[2] \in Fields
  BY SensorReadAssumption DEF Fields
<1>5. MaxTime + 1 \in Nat /\ Met(r) \in BOOLEAN
  BY SensorReadAssumption DEF Met, TypeOK
<1>6. x \in ReaderStates
  <2>1. reader[r].reads + 1 \in Nat
    BY <1>2 DEF ReaderStates
  <2> QED BY <1>2, <1>4, <1>5, <2>1 DEF ReaderStates
<1>7. /\ x.of = a[1] /\ x.attr = a[2] /\ x.since = reader[r].since /\ x.due = MaxTime + 1 /\ x.exempt = Met(r)
      /\ x.pc = IF r \in Ioctl THEN "down" ELSE IF a[2] \in {"status", "avg"} THEN "get" ELSE "check"
      /\ x.ok = reader[r].ok /\ x.fresh = reader[r].fresh
  BY <1>2 DEF ReaderStates
<1>b. Step(r, x)
  BY <1>1
<1> HIDE DEF x
<1>8. Alone(r, x)
  BY <1>b, <1>3, <1>6, <1>7 DEF Ask, Step, Alone, Filling
<1>9. reader'[r] = x /\ \A q \in Readers \ {r} : reader'[q] = reader[q]
  BY <1>8 DEF Alone, TypeOK
<1>10. ~ reader[r].ok /\ ~ reader[r].fresh
  BY <1>3 DEF SensorInv, ReadInv
<1>11. TypeOK'
  BY <1>3, <1>8, AloneTypes DEF TypeOK
<1>12. SemaInv'
  BY <1>3, <1>7, <1>9, NoBoth DEF SensorInv, SemaInv
<1>13. KillInv'
  BY <1>3, <1>7, <1>8, <1>10, AloneKills
<1>14. ReadInv(r)'
  <2>1. AskedOK(r)'
    BY <1>1, <1>3, <1>4, <1>7, <1>8, AloneKeeps
  <2> QED BY <1>7, <1>9, <1>10, <2>1 DEF ReadInv
<1>15. CalmInv(r)'
  <2>1. reader[r].since \in 0 .. now
    BY <1>2 DEF ReaderStates
  <2>2. taken >= reader[r].since - (MaxTime + 1)
    BY <2>1, ClockTypes
  <2>3. Since(reader[r])' = reader[r].since - (MaxTime + 1)
    BY <1>7, <1>9, <1>10 DEF Since
  <2>4. taken' = taken /\ (Met(r)' <=> x.exempt)
    BY <1>7, <1>8, AloneKeeps DEF Alone
  <2> QED BY <1>7, <1>9, <1>10, <2>2, <2>3, <2>4 DEF CalmInv
<1> QED BY <1>8, <1>11, <1>12, <1>13, <1>14, <1>15, AloneInv

\* What a reader is at rest, and the cells that it reads.
LEMMA IdleTyped ==
  ASSUME TypeOK, NEW n \in Nat
  PROVE  [Idle EXCEPT !.reads = n] \in ReaderStates
<1>1. 0 \in 0 .. now /\ 0 \in 0 .. 7 * Cardinality(Sensors) + 1 /\ 0 \in 0 .. Len(scans) /\ 0 \in Nat
  BY SensorsCounted, ClockTypes DEF TypeOK, ScansOK
<1>2. Zero \in ReadCells
  BY DEF ReadCells
<1>3. Idle \in ReaderStates
  BY <1>1, <1>2 DEF Idle, ReaderStates, Fields
<1> QED BY <1>3 DEF ReaderStates

\* What the cache holds is what a reader may read.
LEMMA CellsAreRead ==
  ASSUME NEW f \in Fields, NEW i \in Sensors
  PROVE  CellsOf(f, i) \subseteq ReadCells
BY DEF CellsOf, ReadCells, Reading

\* The semaphore is taken.
LEMMA DownKeeps ==
  ASSUME TypeOK, SensorInv, NEW r \in Readers, Down(r)
  PROVE  TypeOK' /\ SensorInv'
<1> DEFINE x == [reader[r] EXCEPT !.pc = "check"]
<1>1. reader[r] \in ReaderStates
  BY DEF TypeOK
<1>2. reader[r].pc = "down" /\ sema = NoReader /\ sema' = r /\ killed' = killed /\ reader' = [reader EXCEPT ![r] = x]
  BY DEF Down, SemaFree, Goto, Step
<1>3. x \in ReaderStates /\ x.pc = "check"
  BY <1>1 DEF ReaderStates
<1>4. x.of = reader[r].of /\ x.attr = reader[r].attr /\ x.ok = reader[r].ok
  BY <1>1 DEF ReaderStates
<1> HIDE DEF x
<1>5. Alone(r, x)
  BY <1>2, <1>3 DEF Down, Alone, Filling
<1>6. reader'[r] = x /\ \A q \in Readers \ {r} : reader'[q] = reader[q]
  BY <1>5 DEF Alone, TypeOK
<1>7. r \in Ioctl
  BY <1>2, NoBoth DEF SensorInv, SemaInv, Readers
<1>8. ~ reader[r].ok /\ AskedOK(r)
  BY <1>2 DEF SensorInv, ReadInv
<1>9. TypeOK'
  BY <1>2, <1>5, <1>7, AloneTypes DEF TypeOK
<1>10. SemaInv'
  <2>1. \A q \in Ioctl : reader[q].pc \notin {"idle", "down"} <=> sema = q
    BY DEF SensorInv, SemaInv
  <2>2. \A q \in Hwmon : reader[q].pc \notin {"down", "status"} /\ q # r
    BY <1>7, NoBoth DEF SensorInv, SemaInv
  <2>3. \A q \in Ioctl : reader'[q].pc \notin {"idle", "down"} <=> sema' = q
    BY <1>2, <1>3, <1>6, <1>7, <2>1, NoBoth DEF Readers
  <2>4. \A q \in Hwmon : reader'[q].pc \notin {"down", "status"}
    BY <1>6, <2>2 DEF Readers
  <2> QED BY <2>3, <2>4 DEF SemaInv
<1>11. KillInv'
  BY <1>2, <1>4, <1>5, <1>8, AloneKills
<1>12. ReadInv(r)'
  <2>1. AskedOK(r)'
    BY <1>4, <1>5, <1>8, AloneKeeps DEF AskedOK
  <2> QED BY <1>3, <1>4, <1>6, <1>8, <2>1 DEF ReadInv
<1>13. CalmInv(r)'
  BY <1>3, <1>4, <1>6, <1>8 DEF CalmInv
<1> QED BY <1>5, <1>9, <1>10, <1>11, <1>12, <1>13, AloneInv

\* The end of a read, or of the wait for the semaphore.
LEMMA EndsKeep ==
  ASSUME TypeOK, SensorInv, NEW r \in Readers, Interrupted(r) \/ Return(r)
  PROVE  TypeOK' /\ SensorInv'
<1> DEFINE x == [Idle EXCEPT !.reads = reader[r].reads]
<1>1. reader[r] \in ReaderStates
  BY DEF TypeOK
<1>2. /\ reader[r].pc \in {"down", "done"} /\ killed' = killed /\ reader' = [reader EXCEPT ![r] = x]
      /\ sema' = IF reader[r].pc = "done" /\ sema = r THEN NoReader ELSE sema
  BY DEF Interrupted, Return, Step, Up
<1>3. x \in ReaderStates
  BY <1>1, IdleTyped DEF ReaderStates
<1>4. x.pc = "idle" /\ x.ok = FALSE /\ x.fresh = FALSE
  BY DEF Idle
<1> HIDE DEF x
<1>5. Alone(r, x)
  BY <1>2, <1>3, <1>4 DEF Interrupted, Return, Alone, Filling
<1>6. reader'[r] = x /\ \A q \in Readers \ {r} : reader'[q] = reader[q]
  BY <1>5 DEF Alone, TypeOK
<1>9. TypeOK'
  BY <1>2, <1>5, AloneTypes DEF TypeOK
<1>10. SemaInv'
  <2>1. \A q \in Ioctl : reader[q].pc \notin {"idle", "down"} <=> sema = q
    BY DEF SensorInv, SemaInv
  <2>2. \A q \in Hwmon : reader[q].pc \notin {"down", "status"}
    BY DEF SensorInv, SemaInv
  <2>3. \A q \in Ioctl : reader'[q].pc \notin {"idle", "down"} <=> sema' = q
    BY <1>2, <1>4, <1>6, <2>1, NoBoth DEF Readers
  <2>4. \A q \in Hwmon : reader'[q].pc \notin {"down", "status"}
    BY <1>4, <1>6, <2>2 DEF Readers
  <2> QED BY <2>3, <2>4 DEF SemaInv
<1>11. KillInv'
  BY <1>2, <1>4, <1>5, AloneKills
<1>12. ReadInv(r)'
  BY <1>4, <1>6 DEF ReadInv
<1>13. CalmInv(r)'
  BY <1>4, <1>6 DEF CalmInv
<1> QED BY <1>5, <1>9, <1>10, <1>11, <1>12, <1>13, AloneInv

\* The age of the cache is seen, and kept or not.
LEMMA CheckKeeps ==
  ASSUME TypeOK, SensorInv, NEW r \in Readers, Check(r)
  PROVE  TypeOK' /\ SensorInv'
<1> DEFINE d == IF Stale THEN 0 ELSE interval + lag
           e == ~ Stale /\ Met(r)
           x == [reader[r] EXCEPT !.pc = IF Stale THEN "wait" ELSE "get", !.fresh = Stale,
                 !.since = now, !.due = d, !.exempt = e]
<1>1. reader[r] \in ReaderStates
  BY DEF TypeOK
<1>2. reader[r].pc = "check" /\ sema' = sema /\ killed' = killed /\ reader' = [reader EXCEPT ![r] = x]
  BY DEF Check, Step
<1>3. Stale \in BOOLEAN /\ e \in BOOLEAN /\ d \in Nat /\ now \in 0 .. now
  BY ClockTypes DEF Stale, Met, TypeOK
<1> HIDE DEF e, d
<1>4. /\ x.of = reader[r].of /\ x.attr = reader[r].attr /\ x.since = now /\ x.due = d /\ x.exempt = e
      /\ x.ok = reader[r].ok /\ x.fresh = Stale /\ x.pc = IF Stale THEN "wait" ELSE "get"
  BY <1>1 DEF ReaderStates
<1>5. x \in ReaderStates
  BY <1>1, <1>3 DEF ReaderStates
<1> HIDE DEF x
<1>6. Alone(r, x)
  BY <1>2, <1>4, <1>5 DEF Check, Alone, Filling
<1>7. reader'[r] = x /\ \A q \in Readers \ {r} : reader'[q] = reader[q]
  BY <1>6 DEF Alone, TypeOK
<1>8. ~ reader[r].ok /\ AskedOK(r)
  BY <1>2 DEF SensorInv, ReadInv
<1>9. TypeOK'
  BY <1>2, <1>6, AloneTypes DEF TypeOK
<1>10. SemaInv'
  BY <1>2, <1>4, <1>7 DEF SensorInv, SemaInv, Readers
<1>11. KillInv'
  BY <1>2, <1>4, <1>6, <1>8, AloneKills
<1>12. ReadInv(r)'
  <2>1. AskedOK(r)'
    BY <1>4, <1>6, <1>8, AloneKeeps DEF AskedOK
  <2> QED BY <1>4, <1>7, <1>8, <2>1 DEF ReadInv
<1>13. CalmInv(r)'
  <2>1. stamp = taken + lag
    BY <1>8 DEF SensorInv, StampInv, AskedOK
  <2>2. ~ Stale => taken >= now - (interval + lag)
    BY <2>1, ClockTypes DEF Stale
  <2>3. ~ Stale => d = interval + lag /\ (e <=> Met(r))
    BY DEF d, e
  <2>4. ~ Stale => Since(reader[r])' = now - (interval + lag)
    BY <1>4, <1>7, <2>3 DEF Since
  <2>5. taken' = taken /\ (Met(r)' <=> Met(r))
    BY <1>6, AloneKeeps DEF Alone
  <2> QED BY <1>4, <1>7, <1>8, <2>2, <2>3, <2>4, <2>5 DEF CalmInv
<1> QED BY <1>6, <1>9, <1>10, <1>11, <1>12, <1>13, AloneInv

\* The fetch fails.
LEMMA FailKeeps ==
  ASSUME TypeOK, SensorInv, NEW r \in Readers, Fail(r)
  PROVE  TypeOK' /\ SensorInv'
<1> DEFINE x == [reader[r] EXCEPT !.pc = "done", !.buf = 0, !.at = 0]
<1>1. reader[r] \in ReaderStates
  BY DEF TypeOK
<1>2. /\ reader[r].pc \in {"wait", "trip"} /\ sema' = sema /\ killed' = killed
      /\ reader' = [reader EXCEPT ![r] = x]
  BY DEF Fail, Step
<1>3. 0 \in 0 .. now /\ 0 \in 0 .. Len(scans)
  BY ClockTypes DEF TypeOK, ScansOK
<1>4. x.of = reader[r].of /\ x.attr = reader[r].attr /\ x.ok = reader[r].ok /\ x.pc = "done"
  BY <1>1 DEF ReaderStates
<1>5. x \in ReaderStates
  BY <1>1, <1>3 DEF ReaderStates
<1> HIDE DEF x
<1>6. Alone(r, x)
  BY <1>2, <1>4, <1>5 DEF Fail, StampStays, Alone, Filling
<1>7. reader'[r] = x /\ \A q \in Readers \ {r} : reader'[q] = reader[q]
  BY <1>6 DEF Alone, TypeOK
<1>8. ~ reader[r].ok /\ AskedOK(r)
  BY <1>2 DEF SensorInv, ReadInv
<1>9. TypeOK'
  BY <1>2, <1>6, AloneTypes DEF TypeOK
<1>10. SemaInv'
  BY <1>2, <1>4, <1>7 DEF SensorInv, SemaInv, Readers
<1>11. KillInv'
  BY <1>2, <1>4, <1>6, <1>8, AloneKills
<1>12. ReadInv(r)'
  <2>1. AskedOK(r)'
    BY <1>4, <1>6, <1>8, AloneKeeps DEF AskedOK
  <2> QED BY <1>4, <1>7, <1>8, <2>1 DEF ReadInv
<1>13. CalmInv(r)'
  BY <1>4, <1>7, <1>8 DEF CalmInv
<1> QED BY <1>6, <1>9, <1>10, <1>11, <1>12, <1>13, AloneInv

\* The card makes its answer, of the latest scan.
LEMMA AnswerKeeps ==
  ASSUME TypeOK, SensorInv, NEW r \in Readers, Answer(r)
  PROVE  TypeOK' /\ SensorInv'
<1> DEFINE x == [reader[r] EXCEPT !.pc = "trip", !.buf = Len(scans), !.at = now]
<1>1. reader[r] \in ReaderStates
  BY DEF TypeOK
<1>2. reader[r].pc = "wait" /\ sema' = sema /\ killed' = killed /\ reader' = [reader EXCEPT ![r] = x]
  BY DEF Answer, Step
<1>3. now \in 0 .. now /\ Len(scans) \in 0 .. Len(scans) /\ Len(scans) > 0
  BY ClockTypes DEF TypeOK, ScansOK
<1>4. /\ x.of = reader[r].of /\ x.attr = reader[r].attr /\ x.ok = reader[r].ok /\ x.pc = "trip"
      /\ x.fresh = reader[r].fresh /\ x.since = reader[r].since /\ x.buf = Len(scans) /\ x.at = now
  BY <1>1 DEF ReaderStates
<1>5. x \in ReaderStates
  BY <1>1, <1>3 DEF ReaderStates
<1> HIDE DEF x
<1>6. Alone(r, x)
  BY <1>2, <1>4, <1>5 DEF Answer, Alone, Filling
<1>7. reader'[r] = x /\ \A q \in Readers \ {r} : reader'[q] = reader[q]
  BY <1>6 DEF Alone, TypeOK
<1>8. ~ reader[r].ok /\ AskedOK(r) /\ reader[r].fresh
  BY <1>2 DEF SensorInv, ReadInv
<1>9. TypeOK'
  BY <1>2, <1>6, AloneTypes DEF TypeOK
<1>10. SemaInv'
  BY <1>2, <1>4, <1>7 DEF SensorInv, SemaInv, Readers
<1>11. KillInv'
  BY <1>2, <1>4, <1>6, <1>8, AloneKills
<1>12. ReadInv(r)'
  <2>1. AskedOK(r)'
    BY <1>4, <1>6, <1>8, AloneKeeps DEF AskedOK
  <2>2. x.since <= x.at
    <3>1. reader[r].since \in 0 .. now
      BY <1>1 DEF ReaderStates
    <3> QED BY <1>4, <3>1, ClockTypes
  <2>3. HadAt(reader[r].buf, reader[r].at)'
    BY <1>4, <1>6, <1>7 DEF HadAt, Alone
  <2> QED BY <1>3, <1>4, <1>7, <1>8, <2>1, <2>2, <2>3 DEF ReadInv
<1>13. CalmInv(r)'
  BY <1>4, <1>7, <1>8 DEF CalmInv
<1> QED BY <1>6, <1>9, <1>10, <1>11, <1>12, <1>13, AloneInv

\* The value is over the critical limit: that of its sensor.
LEMMA OverIsCritical ==
  ASSUME NEW i \in Sensors, NEW y, RecordOK(y, i)
  PROVE  Over(y) <=> Critical(i, Number(y.value))
<1>1. "uc" \in y.mask <=> "uc" \in DOMAIN Limit[i]
  BY RecordFacts DEF Mask
<1>2. ASSUME "uc" \in DOMAIN Limit[i]
      PROVE  Number(y.limit["uc"]) = Limit[i]["uc"]
  <2>1. y.limit["uc"].field = "uc" /\ y.limit["uc"].of = i
    BY <1>2 DEF RecordOK
  <2>2. i # 0
    BY SensorsCounted
  <2> QED BY <1>2, <2>1, <2>2 DEF Number
<1> QED BY <1>1, <1>2 DEF Over, Critical

\* Nothing that is 0 is critical.
LEMMA ZeroIsFine ==
  ASSUME NEW i
  PROVE  Number(Zero) = 0 /\ ~ Critical(i, 0)
<1>1. Number(Zero) = 0
  BY DEF Zero, Number
<1>2. i \in Sensors /\ "uc" \in DOMAIN Limit[i] => Limit[i]["uc"] \in Nat \ {0}
  BY SensorReadAssumption
<1> QED BY <1>1, <1>2 DEF Critical

\* A critical value in the cache is that of a scan.
LEMMA CriticalIsCause ==
  ASSUME TypeOK, NEW i \in Sensors, NEW c \in CellsOf("value", i), Critical(i, Number(c))
  PROVE  c.scan > 0 /\ Critical(i, scans[c.scan].val[i])
<1>1. c # Zero
  BY ZeroIsFine
<1>2. PICK k \in 1 .. Len(scans) : c = Reading("value", i, k)
  BY <1>1 DEF CellsOf
<1>3. c.field = "value" /\ c.of = i /\ c.scan = k
  BY <1>2 DEF Reading
<1>4. Number(c) = scans[k].val[i]
  BY <1>3 DEF Number
<1> QED BY <1>3, <1>4

\* The scan of a cell.
LEMMA CellScan ==
  ASSUME TypeOK, NEW f, NEW i, NEW c \in CellsOf(f, i)
  PROVE  c.scan \in 0 .. Len(scans)
<1>1. Len(scans) \in Nat
  BY DEF TypeOK, ScansOK
<1> QED BY <1>1 DEF CellsOf, Reading, Zero

\* If no fetch races a reader that has the semaphore, or needs none, none is
\* being parsed but its own.
LEMMA NobodyFills ==
  ASSUME SensorInv, NEW r \in Readers, reader[r].pc \in {"wait", "trip", "get", "status"},
         \A q \in Races(r) : ~ Filling(q)
  PROVE  \A q \in Readers : ~ Filling(q)
<1>1. CASE r \in Hwmon
  BY <1>1 DEF Races, Filling
<1>2. CASE r \in Ioctl
  <2>1. \A q \in Ioctl : reader[q].pc \notin {"idle", "down"} <=> sema = q
    BY DEF SensorInv, SemaInv
  <2>2. \A q \in Ioctl : q # r => ~ Filling(q)
    BY <1>2, <2>1 DEF Filling
  <2> QED BY <1>2, <2>2, NoBoth DEF Races, Filling
<1> QED BY <1>1, <1>2, NoBoth

\* While a fetch is parsed, all that are about to read are exempt.
LEMMA FillingExempts ==
  ASSUME SensorInv, NEW r \in Readers, Filling(r), NEW q \in Readers, reader[q].pc \in {"get", "status"}
  PROVE  reader[q].exempt
<1>1. SUFFICES ASSUME ~ reader[q].exempt
               PROVE  FALSE
  OBVIOUS
<1>2. ~ Met(q)
  BY <1>1 DEF SensorInv, CalmInv
<1>3. \A p \in Races(q) : ~ Filling(p)
  BY <1>2 DEF Met
<1> QED BY <1>3, NobodyFills

\* The elements of a sequence.
LEMMA Elements ==
  ASSUME NEW S, NEW s \in Seq(S)
  PROVE  \A j \in 1 .. Len(s) : s[j] \in S
OBVIOUS

\* The card has a scan no longer for an earlier time.
LEMMA HadBefore ==
  ASSUME TypeOK, NEW k \in 1 .. Len(scans), NEW t \in Int, NEW u \in Int, HadAt(k, t), u <= t
  PROVE  HadAt(k, u)
<1>1. CASE k = Len(scans)
  BY <1>1 DEF HadAt
<1>2. CASE k # Len(scans)
  <2>1. k + 1 \in 1 .. Len(scans)
    BY <1>2 DEF TypeOK, ScansOK
  <2>2. scans \in Seq([val : [Sensors -> Values \cup {0}], at : 0 .. now])
    BY DEF TypeOK, ScansOK
  <2>3. \A j \in 1 .. Len(scans) : scans[j] \in [val : [Sensors -> Values \cup {0}], at : 0 .. now]
    BY <2>2, Elements
  <2>4. scans[k + 1].at \in 0 .. now
    BY <2>1, <2>3
  <2>5. scans[k + 1].at \in Int
    BY <2>4, ClockTypes
  <2> QED BY <1>2, <2>5 DEF HadAt
<1> QED BY <1>1, <1>2

\* The status of the scan that a value is of.
LEMMA ReadingRenamed ==
  ASSUME NEW f, NEW g, NEW i, NEW k, NEW c, c = Reading(f, i, k)
  PROVE  [c EXCEPT !.field = g] = Reading(g, i, k)
BY DEF Reading

\* What a reader asks for, and the record that it reads: its own, or none.
LEMMA ReadsRecord ==
  ASSUME TypeOK, SensorInv, NEW r \in Readers, reader[r].pc # "idle"
  PROVE  LET i == reader[r].of  a == reader[r].attr  y == RecordOf(i) IN
         /\ AskedOK(r) /\ i \in Nat /\ a \in Fields /\ (r \in Ioctl => a = "value")
         /\ HasRecord(i) => i \in Sensors /\ repo # << >> /\ y = repo[i] /\ RecordOK(y, i)
         /\ ~ HasRecord(i) => r \in Ioctl /\ y = NoRecord
<1>1. AskedOK(r)
  BY DEF SensorInv, ReadInv
<1>2. reader[r].of \in Nat /\ reader[r].attr \in Fields /\ (r \in Ioctl => reader[r].attr = "value")
  BY <1>1, SensorReadAssumption DEF AskedOK, Fields
<1>3. ~ HasRecord(reader[r].of) => r \in Ioctl
  BY <1>1, NoBoth DEF AskedOK
<1> QED BY <1>1, <1>2, <1>3, RecordIs DEF RecordOf

\* A channel without a record reads as 0.
LEMMA NoRecordIs == NoRecord.value = Zero /\ NoRecord.status = Zero
BY DEF NoRecord

\* A field of a record is read, and the applications may be killed.
LEMMA GetKeeps ==
  ASSUME TypeOK, SensorInv, NEW r \in Readers, Get(r)
  PROVE  TypeOK' /\ SensorInv'
<1> DEFINE a == reader[r].attr
           i == reader[r].of
           y == RecordOf(i)
           c == Kill(i, y.value)
           K == {u \in {c} : a = "value" /\ Over(y)}
           x == [reader[r] EXCEPT !.pc = IF r \in Ioctl THEN "status" ELSE "done", !.val = y[a], !.ok = TRUE]
<1>1. reader[r] \in ReaderStates
  BY DEF TypeOK
<1>2. reader[r].pc = "get" /\ sema' = sema /\ reader' = [reader EXCEPT ![r] = x] /\ killed' = killed \cup K
  BY DEF Get, Step
<1>3. /\ AskedOK(r) /\ i \in Nat /\ a \in Fields /\ (r \in Ioctl => a = "value")
      /\ HasRecord(i) => i \in Sensors /\ repo # << >> /\ y = repo[i] /\ RecordOK(y, i)
      /\ ~ HasRecord(i) => r \in Ioctl /\ y = NoRecord
  BY <1>2, ReadsRecord
<1> HIDE DEF y
<1>4. y[a] \in CellsOf(a, i) /\ (HasRecord(i) => y.value \in CellsOf("value", i))
  <2>1. CASE HasRecord(i)
    BY <1>3, <2>1, FieldNames DEF RecordOK
  <2>2. CASE ~ HasRecord(i)
    <3>1. a = "value" /\ y.value = Zero
      BY <1>3, <2>2, NoRecordIs
    <3> QED BY <2>2, <3>1 DEF CellsOf
  <2> QED BY <2>1, <2>2
<1>5. y[a] \in ReadCells
  <2>1. CASE HasRecord(i)
    BY <1>3, <1>4, <2>1, CellsAreRead
  <2>2. CASE ~ HasRecord(i)
    BY <1>3, <2>2, NoRecordIs DEF ReadCells
  <2> QED BY <2>1, <2>2
<1>6. x \in ReaderStates
  BY <1>1, <1>5 DEF ReaderStates
<1>7. /\ x.pc = IF r \in Ioctl THEN "status" ELSE "done"
      /\ x.val = y[a] /\ x.ok = TRUE /\ x.exempt = reader[r].exempt
      /\ x.of = i /\ x.attr = a /\ x.since = reader[r].since /\ x.due = reader[r].due /\ x.fresh = reader[r].fresh
  BY <1>1 DEF ReaderStates
<1> HIDE DEF x
<1>8. Alone(r, x)
  BY <1>2, <1>6, <1>7 DEF Get, Alone, Filling
<1>9. reader'[r] = x /\ \A q \in Readers \ {r} : reader'[q] = reader[q]
  BY <1>8 DEF Alone, TypeOK
<1>10. TypeOK'
  <2>1. y.value.scan \in 0 .. Len(scans)
    <3>1. CASE HasRecord(i)
      BY <1>4, <3>1, CellScan
    <3>2. CASE ~ HasRecord(i)
      <4>1. y.value \in CellsOf("value", i)
        BY <1>3, <3>2, NoRecordIs DEF CellsOf
      <4> QED BY <4>1, CellScan
    <3> QED BY <3>1, <3>2
  <2>2. K \subseteq [of : Nat, scan : 0 .. Len(scans)]
    BY <1>3, <2>1 DEF Kill
  <2>3. killed' \subseteq [of : Nat, scan : 0 .. Len(scans)]
    BY <1>2, <2>2 DEF TypeOK
  <2> QED BY <1>2, <1>8, <2>3, AloneTypes DEF TypeOK
<1>11. SemaInv'
  BY <1>2, <1>7, <1>9, NoBoth DEF SensorInv, SemaInv
<1>12. KillInv'
  <2>1. ASSUME NEW u \in K
        PROVE  Caused(u)
    <3>1. u = c /\ Over(y)
      OBVIOUS
    <3>2. u.of = i /\ u.scan = y.value.scan
      BY <3>1 DEF Kill
    <3>3. HasRecord(i) => y.value.scan > 0 /\ Critical(i, scans[y.value.scan].val[i])
      BY <1>3, <1>4, <3>1, OverIsCritical, CriticalIsCause
    <3> QED BY <3>2, <3>3 DEF Caused
  <2>2. ASSUME x.attr = "value", Critical(x.of, Number(x.val))
        PROVE  Kill(x.of, x.val) \in killed'
    <3>1. a = "value" /\ x.val = y.value /\ Critical(i, Number(y.value))
      BY <1>7, <2>2
    <3>2. HasRecord(i)
      BY <1>3, <3>1, NoRecordIs, ZeroIsFine
    <3>3. Over(y)
      BY <1>3, <3>1, <3>2, OverIsCritical
    <3>4. Kill(x.of, x.val) = c
      BY <1>7, <3>1
    <3> QED BY <1>2, <3>1, <3>3, <3>4
  <2> HIDE DEF K
  <2>3. KillsFor(K)
    BY <1>2, <1>9, <2>1, <2>2 DEF KillsFor
  <2>4. UNCHANGED <<scans, repo>> /\ KilledForCause
    BY <1>8 DEF Alone, SensorInv, KillInv
  <2>5. KilledForCause'
    BY <2>3, <2>4, KillsKeep
  <2>6. device' = "ready"
    BY <1>3, <1>8 DEF AskedOK, Alone
  <2> QED BY <2>5, <2>6 DEF KillInv
<1>13. ReadInv(r)'
  <2>1. AskedOK(r)'
    BY <1>3, <1>7, <1>8, AloneKeeps DEF AskedOK
  <2>2. x.val \in CellsOf(x.attr, x.of)
    BY <1>4, <1>7
  <2>3. (reader[r].val \in CellsOf(reader[r].attr, reader[r].of))'
    BY <1>8, <1>9, <2>2 DEF Alone, CellsOf
  <2> QED BY <1>7, <1>9, <2>1, <2>3 DEF ReadInv
<1>14. CalmInv(r)'
  <2>1. ASSUME ~ reader[r].exempt, HasRecord(i)
        PROVE  /\ x.val # Zero /\ HadAt(x.val.scan, Since(reader[r]))
               /\ r \in Ioctl => repo[i].status = [x.val EXCEPT !.field = "status"]
    <3>1. ~ Met(r) /\ taken >= Since(reader[r])
      BY <1>2, <2>1 DEF SensorInv, CalmInv
    <3>2. \A q \in Readers : ~ Filling(q)
      BY <1>2, <3>1, NobodyFills DEF Met
    <3>3. ~ mixed /\ device = "ready" /\ repo # << >>
      BY <1>3, <2>1, <3>1 DEF Met, AskedOK
    <3>4. PICK k \in 1 .. Len(scans) :
            HadAt(k, taken) /\ \A j \in Sensors, f \in Fields : repo[j][f] = Reading(f, j, k)
      BY <3>2, <3>3 DEF SensorInv, CacheInv
    <3>5. x.val = Reading(a, i, k)
      BY <1>3, <1>7, <2>1, <3>4
    <3>6. x.val.scan = k /\ x.val.of = i /\ i # 0
      BY <1>3, <2>1, <3>5, SensorsCounted DEF Reading
    <3>7. x.val # Zero
      BY <3>6 DEF Zero
    <3>8. HadAt(k, Since(reader[r]))
      <4>1. taken \in Int /\ Since(reader[r]) \in Int
        BY ClockTypes, SinceTyped
      <4> QED BY <3>1, <3>4, <4>1, HadBefore
    <3>9. ASSUME r \in Ioctl
          PROVE  repo[i].status = [x.val EXCEPT !.field = "status"]
      <4>1. a = "value"
        BY <1>3, <3>9
      <4>2. repo[i]["status"] = Reading("status", i, k)
        BY <1>3, <2>1, <3>4, FieldNames
      <4>3. [x.val EXCEPT !.field = "status"] = Reading("status", i, k)
        BY <3>5, <4>1, ReadingRenamed
      <4> QED BY <4>2, <4>3
    <3> QED BY <3>6, <3>7, <3>8, <3>9
  <2>2. HadAt(reader[r].val.scan, Since(reader[r]))' <=> HadAt(x.val.scan, Since(reader[r]))
    <3>1. Since(reader[r])' = Since(reader[r])
      BY <1>7, <1>9 DEF Since
    <3> QED BY <1>8, <1>9, <3>1 DEF HadAt, Alone
  <2>3. (HasRecord(reader[r].of)' <=> HasRecord(i)) /\ (Met(r)' <=> Met(r)) /\ repo' = repo
    BY <1>7, <1>8, AloneKeeps DEF Alone
  <2>4. ~ reader[r].exempt => ~ Met(r)
    BY <1>2 DEF SensorInv, CalmInv
  <2> QED BY <1>7, <1>9, <2>1, <2>2, <2>3, <2>4 DEF CalmInv
<1> QED BY <1>8, <1>10, <1>11, <1>12, <1>13, <1>14, AloneInv

\* The ioctl goes on to the status.
LEMMA GetStatusKeeps ==
  ASSUME TypeOK, SensorInv, NEW r \in Readers, GetStatus(r)
  PROVE  TypeOK' /\ SensorInv'
<1> DEFINE i == reader[r].of
           c == RecordOf(i).status
           x == [reader[r] EXCEPT !.pc = "done", !.status = c]
<1>1. reader[r] \in ReaderStates
  BY DEF TypeOK
<1>2. reader[r].pc = "status" /\ sema' = sema /\ reader' = [reader EXCEPT ![r] = x] /\ killed' = killed
  BY DEF GetStatus, Step
<1>3. /\ AskedOK(r)
      /\ HasRecord(i) => i \in Sensors /\ repo # << >> /\ RecordOf(i) = repo[i] /\ RecordOK(repo[i], i)
      /\ ~ HasRecord(i) => RecordOf(i) = NoRecord
  BY <1>2, ReadsRecord
<1>4. c \in ReadCells /\ (HasRecord(i) => c = repo[i].status)
  <2>1. CASE HasRecord(i)
    <3>1. c = repo[i]["status"] /\ "status" \in Fields
      BY <1>3, <2>1, FieldNames
    <3> QED BY <1>3, <2>1, <3>1, CellsAreRead DEF RecordOK
  <2>2. CASE ~ HasRecord(i)
    BY <1>3, <2>2, NoRecordIs DEF ReadCells
  <2> QED BY <2>1, <2>2
<1> HIDE DEF c
<1>5. x \in ReaderStates
  BY <1>1, <1>4 DEF ReaderStates
<1>6. /\ x.pc = "done" /\ x.val = reader[r].val /\ x.ok = reader[r].ok /\ x.exempt = reader[r].exempt
      /\ x.of = i /\ x.attr = reader[r].attr /\ x.since = reader[r].since /\ x.due = reader[r].due
      /\ x.fresh = reader[r].fresh /\ x.status = c
  BY <1>1 DEF ReaderStates
<1> HIDE DEF x
<1>7. Alone(r, x)
  BY <1>2, <1>5, <1>6 DEF GetStatus, Alone, Filling
<1>8. reader'[r] = x /\ \A q \in Readers \ {r} : reader'[q] = reader[q]
  BY <1>7 DEF Alone, TypeOK
<1>9. ReadInv(r) /\ CalmInv(r) /\ reader[r].ok
  BY <1>2 DEF SensorInv, ReadInv
<1>10. TypeOK'
  BY <1>2, <1>7, AloneTypes DEF TypeOK
<1>11. SemaInv'
  BY <1>2, <1>6, <1>8, NoBoth DEF SensorInv, SemaInv
<1>12. KillInv'
  BY <1>2, <1>6, <1>7, <1>9, AloneKills
<1>13. ReadInv(r)'
  <2>1. AskedOK(r)'
    BY <1>3, <1>6, <1>7, AloneKeeps DEF AskedOK
  <2>2. x.val \in CellsOf(x.attr, x.of)
    BY <1>6, <1>9 DEF ReadInv
  <2>3. (reader[r].val \in CellsOf(reader[r].attr, reader[r].of))'
    BY <1>7, <1>8, <2>2 DEF Alone, CellsOf
  <2> QED BY <1>6, <1>8, <2>1, <2>3 DEF ReadInv
<1>14. CalmInv(r)'
  <2>1. HadAt(reader[r].val.scan, Since(reader[r]))' <=> HadAt(reader[r].val.scan, Since(reader[r]))
    <3>1. Since(reader[r])' = Since(reader[r])
      BY <1>6, <1>8 DEF Since
    <3> QED BY <1>6, <1>7, <1>8, <3>1 DEF HadAt, Alone
  <2>2. HasRecord(reader[r].of)' <=> HasRecord(i)
    BY <1>6, <1>7, AloneKeeps
  <2> QED BY <1>2, <1>4, <1>6, <1>8, <1>9, <2>1, <2>2 DEF CalmInv
<1> QED BY <1>7, <1>10, <1>11, <1>12, <1>13, <1>14, AloneInv

\* A step that touches neither the card, the cache, nor a reader keeps what
\* they have, whatever time it is.
LEMMA QuietKeeps ==
  ASSUME TypeOK, SensorInv, UNCHANGED <<scans, repo, sema, reader, killed, taken, mixed>>,
         ClockOK', now' >= now, StampInv',
         device' = device \/ (device = "found" /\ device' = "ready")
  PROVE  TypeOK' /\ SensorInv'
<1>1. now \in Nat /\ now' \in Nat /\ 0 .. now \subseteq 0 .. now'
  <2>1. now' \in 0 .. MaxTime
    BY DEF ClockOK
  <2> QED BY <2>1, ClockTypes
<1>2. ScansOK'
  <2> DEFINE S == [val : [Sensors -> Values \cup {0}], at : 0 .. now]
             T == [val : [Sensors -> Values \cup {0}], at : 0 .. now']
  <2>1. S \subseteq T
    BY <1>1
  <2>2. scans \in Seq(S) /\ Len(scans) \in 1 .. MaxScans
    BY DEF TypeOK, ScansOK
  <2>3. scans' \in Seq(T) /\ Len(scans') \in 1 .. MaxScans
    <3> HIDE DEF S, T
    <3> QED BY <2>1, <2>2
  <2> QED BY <2>3 DEF ScansOK
<1>3. RepoOK'
  <2>1. \A c, i : RecordOK(c, i)' <=> RecordOK(c, i)
    BY DEF RecordOK, CellsOf
  <2>2. (\A i \in DOMAIN repo : RecordOK(repo[i], i))'
    BY <2>1 DEF TypeOK, RepoOK
  <2>3. (repo = << >> \/ OfSensors(repo))'
    BY DEF TypeOK, RepoOK
  <2> QED BY <2>2, <2>3 DEF RepoOK
<1>4. ReaderStates \subseteq ReaderStates'
  BY <1>1 DEF ReaderStates, ReadCells
<1>5. TypeOK'
  <2>1. reader' \in [Readers -> ReaderStates']
    BY <1>4 DEF TypeOK
  <2>2. killed' \subseteq [of : Nat, scan : 0 .. Len(scans)]'
    BY DEF TypeOK
  <2>3. sema' \in Ioctl \cup {NoReader} /\ device' \in {"probe", "found", "ready", "error"} /\ mixed' \in BOOLEAN
    BY DEF TypeOK
  <2> QED BY <1>2, <1>3, <2>1, <2>2, <2>3 DEF TypeOK
<1>6. SemaInv' /\ OneFills'
  BY DEF SensorInv, SemaInv, OneFills, Filling
<1>7. KillInv'
  <2>1. KilledForCause
    BY DEF SensorInv, KillInv
  <2>2. KillsFor({})
    BY DEF KillsFor
  <2>3. KilledForCause'
    BY <2>1, <2>2, KillsKeep
  <2> QED BY <2>3 DEF SensorInv, KillInv
<1>8. \A k, t : HadAt(k, t)' <=> HadAt(k, t)
  BY SameScans
<1>9. \A q \in Readers : Filling(q)' <=> Filling(q)
  BY DEF Filling
<1>10. CacheInv'
  BY <1>8, <1>9 DEF SensorInv, CacheInv
<1>11. ASSUME NEW q \in Readers
       PROVE  ReadInv(q)' /\ CalmInv(q)'
  <2>1. PICK y : y = reader[q] /\ y = reader'[q]
    OBVIOUS
  <2>2. ReadInv(q) /\ CalmInv(q)
    BY DEF SensorInv
  <2>3. HasRecord(y.of)' <=> HasRecord(y.of)
    BY DEF HasRecord
  <2>4. HasRecord(reader[q].of)' <=> HasRecord(reader[q].of)
    BY <2>1, <2>3
  <2>5. AskedOK(q) => AskedOK(q)'
    BY <2>1, <2>4 DEF AskedOK
  <2>6. HadAt(reader[q].buf, reader[q].at)' <=> HadAt(reader[q].buf, reader[q].at)
    BY <1>8, <2>1 DEF HadAt
  <2>7. ReadInv(q)'
    BY <2>1, <2>2, <2>5, <2>6 DEF ReadInv, CellsOf
  <2>8. HadAt(reader[q].val.scan, Since(reader[q]))' <=> HadAt(reader[q].val.scan, Since(reader[q]))
    BY <2>1 DEF HadAt, Since
  <2>9. Since(reader[q])' = Since(reader[q])
    BY <2>1 DEF Since
  <2>10. Met(q)' <=> Met(q)
    BY <1>9 DEF Met, Races
  <2>11. CalmInv(q)'
    BY <2>1, <2>2, <2>4, <2>8, <2>9, <2>10 DEF CalmInv
  <2> QED BY <2>7, <2>11
<1> QED BY <1>5, <1>6, <1>7, <1>10, <1>11 DEF SensorInv

\* Time goes on, whatever the readers do.
LEMMA TickKeeps ==
  ASSUME TypeOK, SensorInv, Tick
  PROVE  TypeOK' /\ SensorInv'
<1>1. /\ now' = now + 1 /\ now < MaxTime
      /\ UNCHANGED <<scans, device, repo, stamp, interval, sema, reader, killed, taken, lag, mixed>>
  BY DEF Tick
<1>2. now' \in 0 .. MaxTime /\ now' >= now /\ 0 .. now \subseteq 0 .. now'
  BY <1>1, ClockTypes
<1>3. ClockOK'
  <2>1. stamp' \in 0 .. now' /\ taken' \in 0 .. now' /\ lag' \in 0 .. now'
    BY <1>1, <1>2, ClockTypes
  <2>2. interval' \in 0 .. ShortMax
    BY <1>1, ClockTypes
  <2> QED BY <1>2, <2>1, <2>2 DEF ClockOK
<1>4. StampInv'
  BY <1>1 DEF SensorInv, StampInv
<1> QED BY <1>1, <1>2, <1>3, <1>4, QuietKeeps

\* The interval is set: what a read was promised is what it saw of it.
LEMMA SetIntervalKeeps ==
  ASSUME TypeOK, SensorInv, SetInterval
  PROVE  TypeOK' /\ SensorInv'
<1>1. UNCHANGED <<scans, device, repo, stamp, now, sema, reader, killed, taken, lag, mixed>>
  BY DEF SetInterval
<1>2. PICK v \in Intervals : interval' = Clipped(v) \/ interval' = v % 65536
  BY DEF SetInterval
<1>3. interval' \in 0 .. ShortMax
  <2>1. v \in Int
    BY SensorReadAssumption
  <2> QED BY <1>2, <2>1, ClippedFits
<1>4. ClockOK'
  <2>1. now' = now /\ stamp' = stamp /\ taken' = taken /\ lag' = lag
    BY <1>1
  <2>2. now' \in 0 .. MaxTime /\ stamp' \in 0 .. now' /\ taken' \in 0 .. now' /\ lag' \in 0 .. now'
    BY <2>1, ClockTypes
  <2> QED BY <1>3, <2>2 DEF ClockOK
<1>5. StampInv'
  BY <1>1 DEF SensorInv, StampInv
<1>6. now' >= now
  BY <1>1, ClockTypes
<1> QED BY <1>1, <1>4, <1>5, <1>6, QuietKeeps

\* The probe stamps what it has found.
LEMMA DiscoveredKeeps ==
  ASSUME TypeOK, SensorInv, Discovered
  PROVE  TypeOK' /\ SensorInv'
<1>1. /\ device = "found" /\ device' = "ready" /\ stamp' = now /\ lag' = now - taken
      /\ UNCHANGED <<scans, repo, interval, now, sema, reader, killed, taken, mixed>>
  BY DEF Discovered
<1>2. now \in Nat /\ taken \in 0 .. now
  BY ClockTypes
<1>3. ClockOK'
  <2>1. now' = now /\ taken' = taken /\ interval' = interval
    BY <1>1
  <2>2. stamp' \in 0 .. now /\ lag' \in 0 .. now
    BY <1>1, <1>2
  <2>3. now \in 0 .. MaxTime /\ interval \in 0 .. ShortMax
    BY ClockTypes
  <2> QED BY <1>2, <2>1, <2>2, <2>3 DEF ClockOK
<1>4. StampInv'
  <2>1. stamp' = taken + lag'
    BY <1>1, <1>2
  <2> QED BY <1>1, <2>1 DEF StampInv
<1>5. now' >= now
  BY <1>1, <1>2
<1> QED BY <1>1, <1>3, <1>4, <1>5, QuietKeeps

\* The records of the card are the first cache, of its latest scan.
LEMMA RecordNowOK ==
  ASSUME TypeOK, NEW i \in Sensors
  PROVE  RecordOK(RecordNow(i), i) /\ \A f \in Fields : RecordNow(i)[f] = Reading(f, i, Len(scans))
<1>1. \A f : Cell(f, i) = Reading(f, i, Len(scans))
  BY DEF Cell, Reading
<1>2. Len(scans) \in 1 .. Len(scans)
  BY DEF TypeOK, ScansOK
<1>3. \A f : Cell(f, i) \in CellsOf(f, i)
  BY <1>1, <1>2 DEF CellsOf
<1> DEFINE l == [h \in DOMAIN Limit[i] |-> Cell(h, i)]
<1>4. LimitsOK(l, i)
  BY DEF LimitsOK, Cell
<1>5. RecordNow(i) = Record(i, Cell("value", i), Cell("status", i), l, Cell("avg", i), Cell("max", i))
  BY Zenon DEF RecordNow, Record
<1> HIDE DEF l
<1>6. RecordOK(RecordNow(i), i)
  BY <1>3, <1>4, <1>5, RecordParts
<1>7. \A f \in Fields : RecordNow(i)[f] = Cell(f, i)
  BY <1>5, FieldNames DEF Record
<1> QED BY <1>1, <1>6, <1>7

\* The probe makes the cache of the records, by RecordsComeBack.
LEMMA DiscoverKeeps ==
  ASSUME TypeOK, SensorInv, Discover
  PROVE  TypeOK' /\ SensorInv'
<1>1. /\ device = "probe" /\ device' \in {"found", "error"} /\ taken' \in {taken, now}
      /\ UNCHANGED <<scans, stamp, interval, now, sema, reader, killed, lag, mixed>>
  BY DEF Discover
<1>2. \A r \in Readers : reader[r].pc = "idle" /\ ~ reader[r].ok /\ ~ reader[r].fresh
  BY <1>1 DEF SensorInv, ReadInv, AskedOK
<1>3. \/ repo' = [i \in Sensors |-> RecordNow(i)] /\ taken' = now
      \/ repo' = << >>
      \/ repo' = repo /\ device' = "error"
  <2>1. Len(scans) \in Nat
    BY DEF TypeOK, ScansOK
  <2> QED BY <2>1, RecordsComeBack DEF Discover
<1>4. ClockOK'
  <2>1. now' = now /\ stamp' = stamp /\ interval' = interval /\ lag' = lag /\ taken' \in {taken, now}
    BY <1>1
  <2>2. taken' \in 0 .. now /\ now \in 0 .. MaxTime
    BY <2>1, ClockTypes
  <2>3. stamp \in 0 .. now /\ lag \in 0 .. now /\ interval \in 0 .. ShortMax
    BY ClockTypes
  <2> QED BY <2>1, <2>2, <2>3 DEF ClockOK
<1>5. ScansOK'
  BY <1>1 DEF TypeOK, ScansOK
<1>6. RepoOK'
  <2>1. \A c, i : RecordOK(c, i)' <=> RecordOK(c, i)
    BY <1>1 DEF RecordOK, CellsOf
  <2>2. CASE repo' = [i \in Sensors |-> RecordNow(i)]
    <3>1. DOMAIN repo' = Sensors /\ \A i \in Sensors : repo'[i] = RecordNow(i)
      BY <2>2
    <3>2. \A i \in DOMAIN repo' : RecordOK(repo'[i], i)
      BY <3>1, RecordNowOK
    <3>3. OfSensors(repo')
      BY <2>2 DEF OfSensors
    <3> QED BY <2>1, <3>2, <3>3 DEF RepoOK
  <2>3. CASE repo' = << >>
    BY <2>3 DEF RepoOK
  <2>4. CASE repo' = repo
    <3>1. (\A i \in DOMAIN repo : RecordOK(repo[i], i))'
      BY <2>4, <2>1 DEF TypeOK, RepoOK
    <3>2. (repo = << >> \/ OfSensors(repo))'
      BY <2>4 DEF TypeOK, RepoOK
    <3> QED BY <3>1, <3>2 DEF RepoOK
  <2> QED BY <1>3, <2>2, <2>3, <2>4
<1>7. ReaderStates' = ReaderStates
  BY <1>1 DEF ReaderStates, ReadCells
<1>8. TypeOK'
  BY <1>1, <1>4, <1>5, <1>6, <1>7 DEF TypeOK
<1>9. SemaInv' /\ OneFills' /\ StampInv'
  BY <1>1 DEF SensorInv, SemaInv, OneFills, Filling, StampInv
<1>10. KillInv'
  <2>1. killed = {}
    BY <1>1 DEF SensorInv, KillInv
  <2> QED BY <1>1, <1>2, <2>1 DEF KillInv, KilledForCause, ValueRead
<1>11. \A r \in Readers : ~ Filling(r)'
  BY <1>1, <1>2 DEF Filling
<1>12. CacheInv'
  <2>1. CASE repo' = [i \in Sensors |-> RecordNow(i)] /\ taken' = now
    <3>1. Len(scans) \in 1 .. Len(scans)
      BY DEF TypeOK, ScansOK
    <3>2. PICK k \in 1 .. Len(scans) : k = Len(scans)
      BY <3>1
    <3>3. HadAt(k, taken)'
      BY <1>1, <3>2 DEF HadAt
    <3>4. \A i \in Sensors, f \in Fields : repo'[i][f] = Reading(f, i, k)
      BY <2>1, <3>2, RecordNowOK
    <3> QED BY <1>1, <1>11, <3>3, <3>4 DEF CacheInv
  <2>2. CASE repo' = << >>
    BY <2>2 DEF CacheInv
  <2>3. CASE device' = "error"
    BY <2>3 DEF CacheInv
  <2> QED BY <1>3, <2>1, <2>2, <2>3
<1>13. \A r \in Readers : ReadInv(r)' /\ CalmInv(r)'
  BY <1>1, <1>2 DEF ReadInv, CalmInv
<1> QED BY <1>8, <1>9, <1>10, <1>12, <1>13 DEF SensorInv

\* The card scans: what it had, it had.
LEMMA ScanKeeps ==
  ASSUME TypeOK, SensorInv, Scan
  PROVE  TypeOK' /\ SensorInv'
<1>1. /\ Len(scans) < MaxScans
      /\ UNCHANGED <<device, repo, stamp, interval, now, sema, reader, killed, taken, lag, mixed>>
  BY DEF Scan
<1>2. PICK v \in [Sensors -> Values] : scans' = Append(scans, [val |-> v, at |-> now])
  BY DEF Scan
<1> DEFINE S == [val : [Sensors -> Values \cup {0}], at : 0 .. now]
           z == [val |-> v, at |-> now]
<1>3. now \in Nat /\ taken \in Nat /\ taken <= now
  BY ClockTypes
<1>4. scans \in Seq(S) /\ Len(scans) \in 1 .. MaxScans
  BY DEF TypeOK, ScansOK
<1>5. z \in S /\ z.at = now
  BY <1>3
<1> HIDE DEF S, z
<1>6. /\ scans' = Append(scans, z) /\ scans' \in Seq(S) /\ Len(scans') = Len(scans) + 1
      /\ scans'[Len(scans) + 1] = z /\ \A j \in 1 .. Len(scans) : scans'[j] = scans[j]
  BY <1>2, <1>4, <1>5 DEF z
<1>7. Len(scans) \in Nat \ {0} /\ 1 .. Len(scans) \subseteq 1 .. Len(scans')
      /\ 0 .. Len(scans) \subseteq 0 .. Len(scans') /\ Len(scans') \in 1 .. MaxScans
  BY <1>1, <1>4, <1>6, SensorReadAssumption
<1>8. ScansOK'
  BY <1>1, <1>6, <1>7 DEF S, ScansOK
<1>9. \A f, i : CellsOf(f, i) \subseteq CellsOf(f, i)'
  BY <1>7 DEF CellsOf
<1>10. RepoOK'
  <2>1. \A c, i : RecordOK(c, i) => RecordOK(c, i)'
    BY <1>9 DEF RecordOK
  <2>2. (\A i \in DOMAIN repo : RecordOK(repo[i], i))'
    BY <1>1, <2>1 DEF TypeOK, RepoOK
  <2>3. (repo = << >> \/ OfSensors(repo))'
    BY <1>1 DEF TypeOK, RepoOK
  <2> QED BY <2>2, <2>3 DEF RepoOK
<1>11. ReaderStates \subseteq ReaderStates'
  <2>1. ReadCells \subseteq ReadCells'
    BY <1>7 DEF ReadCells
  <2> QED BY <1>1, <1>7, <2>1 DEF ReaderStates
<1>12. ClockOK'
  <2>1. UNCHANGED <<now, stamp, interval, taken, lag>>
    BY <1>1
  <2>2. ClockOK
    BY DEF TypeOK
  <2> QED BY <2>1, <2>2 DEF ClockOK
<1>13. TypeOK'
  <2>1. killed' \subseteq [of : Nat, scan : 0 .. Len(scans)]'
    BY <1>1, <1>7 DEF TypeOK
  <2>2. reader' \in [Readers -> ReaderStates']
    BY <1>1, <1>11 DEF TypeOK
  <2> QED BY <1>1, <1>8, <1>10, <1>12, <2>1, <2>2 DEF TypeOK
<1>14. ASSUME NEW k \in 1 .. Len(scans), NEW t \in Int, t <= now, HadAt(k, t)
       PROVE  HadAt(k, t)'
  <2>1. CASE k = Len(scans)
    BY <1>3, <1>5, <1>6, <1>14, <2>1 DEF HadAt
  <2>2. CASE k # Len(scans)
    <3>1. PICK j \in 1 .. Len(scans) : j = k + 1
      BY <1>7, <2>2
    <3>2. scans'[j] = scans[j] /\ scans[j].at >= t
      BY <1>6, <1>14, <2>2, <3>1 DEF HadAt
    <3> QED BY <3>1, <3>2 DEF HadAt
  <2> QED BY <2>1, <2>2
<1>15. ASSUME NEW c, c = Zero \/ c.scan \in 1 .. Len(scans)
       PROVE  Number(c)' = Number(c)
  <2>1. c.field = "value" => c.scan \in 1 .. Len(scans)
    BY <1>15 DEF Zero
  <2>2. c.field = "value" => scans'[c.scan] = scans[c.scan]
    BY <1>6, <2>1
  <2> QED BY <2>2 DEF Number
<1>16. \A id : HasRecord(id)' <=> HasRecord(id)
  BY <1>1 DEF HasRecord
<1>17. \A i, n : Critical(i, n)' <=> Critical(i, n)
  BY DEF Critical
<1>18. \A r \in Readers :
         reader[r].ok => reader[r].val = Zero \/ reader[r].val.scan \in 1 .. Len(scans)
  <2>1. \A r \in Readers : reader[r].ok => reader[r].val \in CellsOf(reader[r].attr, reader[r].of)
    BY DEF SensorInv, ReadInv
  <2>2. \A f, i : \A c \in CellsOf(f, i) : c = Zero \/ c.scan \in 1 .. Len(scans)
    BY DEF CellsOf, Reading
  <2> QED BY <2>1, <2>2
<1>19. KillInv'
  <2>1. ASSUME NEW c \in killed
        PROVE  Caused(c)'
    <3>1. Caused(c) /\ c.scan \in 0 .. Len(scans)
      BY DEF SensorInv, KillInv, KilledForCause, TypeOK
    <3>2. c.scan > 0 => c.scan \in 1 .. Len(scans) /\ scans'[c.scan] = scans[c.scan]
      BY <1>6, <1>7, <3>1
    <3>3. HasRecord(c.of)' <=> HasRecord(c.of)
      BY <1>16
    <3> QED BY <3>1, <3>2, <3>3 DEF Caused, Critical
  <2>2. ASSUME NEW r \in Readers, reader[r].ok, reader[r].attr = "value",
               Critical(reader[r].of, Number(reader[r].val)')
        PROVE  Kill(reader[r].of, reader[r].val) \in killed
    <3>1. reader[r].val = Zero \/ reader[r].val.scan \in 1 .. Len(scans)
      BY <1>18, <2>2
    <3>2. PICK c : c = reader[r].val
      OBVIOUS
    <3>3. Number(c)' = Number(c)
      BY <1>15, <3>1, <3>2
    <3>4. c = reader'[r].val
      BY <1>1, <3>2
    <3>5. Number(c)' = Number(reader[r].val)'
      BY <3>4
    <3> QED BY <2>2, <3>2, <3>3, <3>5 DEF SensorInv, KillInv, KilledForCause, ValueRead
  <2>3. (\A c \in killed : Caused(c))'
    BY <1>1, <2>1
  <2>4. (\A r \in Readers : ValueRead(reader[r]) /\ Critical(reader[r].of, Number(reader[r].val))
           => Kill(reader[r].of, reader[r].val) \in killed)'
    BY <1>1, <1>17, <2>2 DEF ValueRead, Kill
  <2>5. KilledForCause'
    BY <2>3, <2>4, Zenon DEF KilledForCause
  <2>6. (killed # {} => device = "ready")'
    BY <1>1 DEF SensorInv, KillInv
  <2> QED BY <2>5, <2>6 DEF KillInv
<1>20. SemaInv' /\ OneFills' /\ StampInv'
  BY <1>1 DEF SensorInv, SemaInv, OneFills, Filling, StampInv
<1>21. \A r \in Readers : Filling(r)' <=> Filling(r)
  BY <1>1 DEF Filling
<1>22. CacheInv'
  <2> SUFFICES ASSUME device \in {"found", "ready"}, repo # << >>, ~ mixed
               PROVE  /\ (\A r \in Readers : ~ Filling(r)) =>
                           \E k \in 1 .. Len(scans') :
                             /\ HadAt(k, taken)'
                             /\ \A i \in Sensors, f \in Fields : repo[i][f] = Reading(f, i, k)
                      /\ \A r \in Readers : Filling(r) =>
                           \A i \in Sensors, f \in Fields :
                              reader[r].pos > 7 * (i - 1) + StoreOf(f) => repo[i][f] = Reading(f, i, reader[r].buf)
    BY <1>1, <1>21 DEF CacheInv
  <2>1. ASSUME \A r \in Readers : ~ Filling(r)
        PROVE  \E k \in 1 .. Len(scans') :
                 HadAt(k, taken)' /\ \A i \in Sensors, f \in Fields : repo[i][f] = Reading(f, i, k)
    <3>1. PICK k \in 1 .. Len(scans) :
            HadAt(k, taken) /\ \A i \in Sensors, f \in Fields : repo[i][f] = Reading(f, i, k)
      BY <2>1 DEF SensorInv, CacheInv
    <3>2. PICK t \in Int : t = taken
      BY <1>3
    <3>3. HadAt(k, t)'
      BY <1>3, <1>14, <3>1, <3>2
    <3>4. HadAt(k, taken)'
      BY <1>1, <3>2, <3>3
    <3> QED BY <1>7, <3>1, <3>4
  <2>2. ASSUME NEW r \in Readers, Filling(r)
        PROVE  \A i \in Sensors, f \in Fields :
                 reader[r].pos > 7 * (i - 1) + StoreOf(f) => repo[i][f] = Reading(f, i, reader[r].buf)
    BY <2>2 DEF SensorInv, CacheInv
  <2> QED BY <2>1, <2>2
<1>23. ASSUME NEW r \in Readers
       PROVE  ReadInv(r)' /\ CalmInv(r)'
  <2>1. ReadInv(r) /\ CalmInv(r) /\ reader[r] \in ReaderStates
    BY DEF SensorInv, TypeOK
  <2>2. HasRecord(reader[r].of)' <=> HasRecord(reader[r].of)
    BY <1>1 DEF HasRecord
  <2>3. AskedOK(r)' <=> AskedOK(r)
    BY <1>1, <2>2 DEF AskedOK
  <2>4. ASSUME reader[r].pc \in {"trip", "fill"}
        PROVE  HadAt(reader[r].buf, reader[r].at)'
    <3>1. reader[r].buf \in 0 .. Len(scans) /\ reader[r].at \in 0 .. now /\ reader[r].buf > 0
      BY <2>1, <2>4 DEF ReaderStates, ReadInv
    <3>2. PICK k \in 1 .. Len(scans), t \in Int : k = reader[r].buf /\ t = reader[r].at
      BY <1>7, <3>1
    <3>3. HadAt(k, t) /\ t <= now
      BY <1>3, <2>1, <2>4, <3>1, <3>2 DEF ReadInv
    <3>4. HadAt(k, t)'
      BY <1>14, <3>3
    <3>5. k = reader'[r].buf /\ t = reader'[r].at
      BY <1>1, <3>2
    <3> QED BY <3>4, <3>5
  <2>5. reader[r].ok => (reader[r].val \in CellsOf(reader[r].attr, reader[r].of))'
    BY <1>1, <1>7, <2>1 DEF ReadInv, CellsOf
  <2>6. ReadInv(r)'
    BY <1>1, <2>1, <2>3, <2>4, <2>5 DEF ReadInv
  <2>7. Since(reader[r])' = Since(reader[r])
    BY <1>1 DEF Since
  <2>8. Since(reader[r]) \in Int /\ Since(reader[r]) <= now
    BY SinceTyped
  <2>9. ASSUME reader[r].ok, HasRecord(reader[r].of), ~ reader[r].exempt
        PROVE  HadAt(reader[r].val.scan, Since(reader[r]))'
    <3>1. reader[r].val.scan \in 1 .. Len(scans)
      BY <1>18, <2>1, <2>9 DEF CalmInv
    <3>2. PICK k \in 1 .. Len(scans), t \in Int : k = reader[r].val.scan /\ t = Since(reader[r])
      BY <2>8, <3>1
    <3>3. HadAt(k, t) /\ t <= now
      BY <2>1, <2>8, <2>9, <3>2 DEF CalmInv
    <3>4. HadAt(k, t)'
      BY <1>14, <3>3
    <3>5. k = reader'[r].val.scan /\ t = Since(reader'[r])
      BY <1>1, <3>2
    <3> QED BY <3>4, <3>5
  <2>10. Met(r)' <=> Met(r)
    BY <1>1, <1>21 DEF Met, Races
  <2>11. CalmInv(r)'
    BY <1>1, <2>1, <2>2, <2>7, <2>9, <2>10 DEF CalmInv
  <2> QED BY <2>6, <2>11
<1> QED BY <1>13, <1>19, <1>20, <1>22, <1>23 DEF SensorInv

\* The driver has an answer, and the parse begins.
LEMMA ArriveKeeps ==
  ASSUME TypeOK, SensorInv, NEW r \in Readers, Arrive(r)
  PROVE  TypeOK' /\ SensorInv'
<1> DEFINE x == [reader[r] EXCEPT !.pc = "fill", !.pos = 1]
           e(q) == reader[q].exempt \/ (q \in Races(r) /\ reader[q].pc \in {"get", "status"})
           y(q) == [reader[q] EXCEPT !.exempt = e(q)]
<1>1. /\ reader[r].pc = "trip" /\ mixed' = \E q \in Races(r) : Filling(q)
      /\ reader' = [q \in Readers |-> IF q = r THEN x ELSE y(q)]
      /\ UNCHANGED <<scans, device, repo, stamp, interval, now, sema, killed, taken, lag>>
  BY DEF Arrive
<1>2. \A q \in Readers : reader[q] \in ReaderStates
  BY DEF TypeOK
<1>3. x \in ReaderStates
  <2>1. 1 \in 0 .. 7 * Cardinality(Sensors) + 1
    BY SensorsCounted
  <2>2. PICK z \in ReaderStates : z = reader[r]
    BY <1>2
  <2>3. [z EXCEPT !.pc = "fill", !.pos = 1] \in ReaderStates
    BY <2>1 DEF ReaderStates
  <2> QED BY <2>2, <2>3
<1>4. \A q \in Readers : y(q) \in ReaderStates
  <2>1. ASSUME NEW q \in Readers
        PROVE  y(q) \in ReaderStates
    <3>1. reader[q].exempt \in BOOLEAN
      BY <1>2 DEF ReaderStates
    <3>2. e(q) \in BOOLEAN
      BY <3>1
    <3> HIDE DEF e
    <3>3. PICK z \in ReaderStates : z = reader[q]
      BY <1>2
    <3>4. [z EXCEPT !.exempt = e(q)] \in ReaderStates
      BY <3>2 DEF ReaderStates
    <3> QED BY <3>3, <3>4
  <2> QED BY <2>1
<1>5. /\ x.pc = "fill" /\ x.pos = 1 /\ x.buf = reader[r].buf /\ x.at = reader[r].at
      /\ x.of = reader[r].of /\ x.attr = reader[r].attr /\ x.since = reader[r].since /\ x.due = reader[r].due
      /\ x.ok = reader[r].ok /\ x.fresh = reader[r].fresh /\ x.val = reader[r].val
  BY <1>2 DEF ReaderStates
<1>6. \A q \in Readers :
        /\ y(q).pc = reader[q].pc /\ y(q).pos = reader[q].pos /\ y(q).buf = reader[q].buf /\ y(q).at = reader[q].at
        /\ y(q).of = reader[q].of /\ y(q).attr = reader[q].attr /\ y(q).since = reader[q].since
        /\ y(q).due = reader[q].due /\ y(q).ok = reader[q].ok /\ y(q).fresh = reader[q].fresh
        /\ y(q).val = reader[q].val /\ y(q).status = reader[q].status /\ y(q).exempt = e(q)
  <2>1. ASSUME NEW q \in Readers, NEW b
        PROVE  LET z == [reader[q] EXCEPT !.exempt = b] IN
               /\ z.pc = reader[q].pc /\ z.pos = reader[q].pos /\ z.buf = reader[q].buf /\ z.at = reader[q].at
               /\ z.of = reader[q].of /\ z.attr = reader[q].attr /\ z.since = reader[q].since
               /\ z.due = reader[q].due /\ z.ok = reader[q].ok /\ z.fresh = reader[q].fresh
               /\ z.val = reader[q].val /\ z.status = reader[q].status /\ z.exempt = b
    BY <1>2 DEF ReaderStates
  <2> HIDE DEF e
  <2> QED BY <2>1
<1>7. reader'[r] = x /\ \A q \in Readers \ {r} : reader'[q] = y(q)
  BY <1>1
<1>8. reader' \in [Readers -> ReaderStates]
  BY <1>1, <1>3, <1>4
<1> HIDE DEF x, y
<1>9. TypeOK'
  <2>1. stamp' \in 0 .. now /\ taken' \in 0 .. now /\ lag' \in 0 .. now /\ interval' \in 0 .. ShortMax
    BY <1>1, ClockTypes
  <2>2. mixed' \in BOOLEAN
    BY <1>1
  <2>3. sema' \in Ioctl \cup {NoReader} /\ device' \in {"probe", "found", "ready", "error"}
        /\ killed' \subseteq [of : Nat, scan : 0 .. Len(scans)]
    BY <1>1 DEF TypeOK
  <2> QED BY <1>1, <1>8, <2>1, <2>2, <2>3, TypesKept
<1>10. SemaInv' /\ StampInv'
  <2>1. \A q \in Ioctl : reader[q].pc \notin {"idle", "down"} <=> sema = q
    BY DEF SensorInv, SemaInv
  <2>2. \A q \in Hwmon : reader[q].pc \notin {"down", "status"}
    BY DEF SensorInv, SemaInv
  <2>3. \A q \in Ioctl : reader'[q].pc \notin {"idle", "down"} <=> sema' = q
    BY <1>1, <1>5, <1>6, <1>7, <2>1, NoBoth
  <2>4. \A q \in Hwmon : reader'[q].pc \notin {"down", "status"}
    BY <1>5, <1>6, <1>7, <2>2, NoBoth
  <2>5. StampInv'
    BY <1>1 DEF SensorInv, StampInv
  <2> QED BY <2>3, <2>4, <2>5 DEF SemaInv
<1>11. ~ mixed' => \A q \in Readers : ~ Filling(q)
  BY <1>1, NobodyFills
<1>12. \A q \in Readers : Filling(q)' <=> q = r \/ Filling(q)
  BY <1>5, <1>6, <1>7 DEF Filling
<1>13. OneFills'
  BY <1>11, <1>12 DEF OneFills
<1>14. CacheInv'
  <2>1. SUFFICES ASSUME ~ mixed'
                 PROVE  \A i \in Sensors, f \in Fields : ~ (reader'[r].pos > 7 * (i - 1) + StoreOf(f))
    <3>1. ~ mixed' => \A q \in Readers : Filling(q)' <=> q = r
      BY <1>11, <1>12
    <3> QED BY <3>1 DEF CacheInv
  <2>2. ASSUME NEW i \in Sensors, NEW f \in Fields
        PROVE  ~ (1 > 7 * (i - 1) + StoreOf(f))
    <3>1. i \in Nat \ {0}
      BY SensorsCounted
    <3>2. StoreOf(f) \in 2 .. 7
      BY FieldNames DEF StoreOf
    <3> QED BY <3>1, <3>2
  <2> QED BY <1>5, <1>7, <2>2
<1>15. KillInv'
  <2>1. UNCHANGED <<scans, repo>> /\ killed' = killed \cup {} /\ device' = device
    BY <1>1
  <2>2. \A q \in Readers : reader'[q].ok = reader[q].ok /\ reader'[q].attr = reader[q].attr
                           /\ reader'[q].of = reader[q].of /\ reader'[q].val = reader[q].val
    BY <1>5, <1>6, <1>7
  <2>3. KillsFor({})
    BY <2>1, <2>2 DEF KillsFor
  <2>4. KilledForCause'
    BY <2>1, <2>3, KillsKeep DEF SensorInv, KillInv
  <2> QED BY <2>1, <2>4 DEF SensorInv, KillInv
<1>16. ASSUME NEW q \in Readers
       PROVE  ReadInv(q)' /\ CalmInv(q)'
  <2>1. ReadInv(q) /\ CalmInv(q)
    BY DEF SensorInv
  <2>2. PICK w : w = reader'[q]
    OBVIOUS
  <2>3. /\ w.of = reader[q].of /\ w.attr = reader[q].attr /\ w.since = reader[q].since /\ w.due = reader[q].due
        /\ w.ok = reader[q].ok /\ w.fresh = reader[q].fresh /\ w.val = reader[q].val
        /\ w.buf = reader[q].buf /\ w.at = reader[q].at
    BY <1>5, <1>6, <1>7, <2>2
  <2>4. HasRecord(w.of)' <=> HasRecord(reader[q].of)
    BY <1>1, <2>3 DEF HasRecord
  <2>5. HasRecord(reader[q].of)' <=> HasRecord(reader[q].of)
    BY <2>2, <2>4 DEF HasRecord
  <2>6. AskedOK(q)' <=> AskedOK(q)
    BY <1>1, <2>2, <2>3, <2>5 DEF AskedOK
  <2>7. HadAt(reader[q].buf, reader[q].at)' <=> HadAt(reader[q].buf, reader[q].at)
    BY <1>1, <2>2, <2>3 DEF HadAt
  <2>8. w.ok => (reader[q].val \in CellsOf(reader[q].attr, reader[q].of))'
    BY <1>1, <2>1, <2>2, <2>3 DEF ReadInv, CellsOf
  <2>9. CASE q = r
    <3>1. ~ w.ok /\ w.fresh /\ w.pc = "fill" /\ w.pos > 0 /\ w.buf > 0 /\ w.since <= w.at /\ AskedOK(q)
      BY <1>1, <1>5, <1>7, <2>1, <2>2, <2>3, <2>9 DEF ReadInv
    <3>2. HadAt(reader[q].buf, reader[q].at)'
      BY <1>1, <2>1, <2>7, <2>9 DEF ReadInv
    <3>3. ReadInv(q)'
      BY <2>2, <2>6, <3>1, <3>2 DEF ReadInv
    <3>4. CalmInv(q)'
      BY <2>2, <3>1 DEF CalmInv
    <3> QED BY <3>3, <3>4
  <2>10. CASE q # r
    <3>1. w = y(q)
      BY <1>7, <2>2, <2>10
    <3>2. w.pc = reader[q].pc /\ w.pos = reader[q].pos /\ w.status = reader[q].status /\ w.exempt = e(q)
      BY <1>6, <3>1
    <3>3. ReadInv(q)'
      BY <2>1, <2>2, <2>3, <2>6, <2>7, <2>8, <3>2 DEF ReadInv
    <3>4. w.pc \in {"get", "status"} => w.exempt
      <4>1. CASE q \in Races(r)
        BY <3>2, <4>1 DEF e
      <4>2. CASE q \notin Races(r)
        <5>1. q \in Ioctl /\ r \in Ioctl
          BY <2>10, <4>2, NoBoth DEF Races
        <5>2. sema = r
          BY <1>1, <5>1 DEF SensorInv, SemaInv
        <5>3. reader[q].pc \notin {"get", "status"}
          BY <2>10, <5>1, <5>2 DEF SensorInv, SemaInv
        <5> QED BY <3>2, <5>3
      <4> QED BY <4>1, <4>2
    <3>5. ~ w.exempt => ~ reader[q].exempt
      BY <3>2 DEF e
    <3> HIDE DEF e
    <3>6. Since(reader[q])' = Since(reader[q])
      BY <2>2, <2>3 DEF Since
    <3>7. HadAt(reader[q].val.scan, Since(reader[q]))' <=> HadAt(reader[q].val.scan, Since(reader[q]))
      BY <1>1, <2>2, <2>3, <3>6 DEF HadAt
    <3>8. CalmInv(q)'
      BY <2>1, <2>2, <2>3, <2>5, <3>2, <3>4, <3>5, <3>7 DEF CalmInv
    <3> QED BY <3>3, <3>8
  <2> QED BY <2>9, <2>10
<1> QED BY <1>9, <1>10, <1>13, <1>14, <1>15, <1>16 DEF SensorInv

\* The step of the parse at p: of which record, and which of its seven stores.
LEMMA Position ==
  ASSUME NEW p \in Nat \ {0}
  PROVE  LET k == (p - 1) \div 7 + 1  s == (p - 1) % 7 IN
         k \in Nat \ {0} /\ s \in 0 .. 6 /\ p = 7 * (k - 1) + s + 1
<1> DEFINE n == p - 1
<1>1. n \in Nat
  OBVIOUS
<1> HIDE DEF n
<1>2. n \div 7 \in Nat /\ n % 7 \in 0 .. 6 /\ n = 7 * (n \div 7) + (n % 7)
  BY <1>1
<1>3. p = n + 1
  BY DEF n
<1>4. p = 7 * (n \div 7 + 1 - 1) + (n % 7) + 1
  BY <1>2, <1>3
<1> QED BY <1>2, <1>4 DEF n

\* What a store puts: a cleared field, or that of the answer; the second store
\* of a field is the one that completes it.
StoredField(s) == IF s = 6 THEN "status" ELSE Readings[s \div 2 + 1]

\* A cell of the answer is that of the scan that was fetched.
LEMMA CellRead ==
  ASSUME NEW f, NEW k, NEW b, NEW u, u = Cell(f, k)
  PROVE  [u EXCEPT !.scan = b] = Reading(f, k, b)
<1>1. PICK n : n = Len(scans)
  OBVIOUS
<1>2. u = Reading(f, k, n)
  BY <1>1 DEF Cell, Reading
<1> QED BY <1>2 DEF Reading

\* The seven stores of a record.
LEMMA StoreIs ==
  ASSUME NEW s \in 0 .. 6, NEW k, NEW b
  PROVE  LET f == StoredField(s) IN
         /\ f \in Fields
         /\ [ReadingsOf(k)[s \div 2 + 2] EXCEPT !.scan = b] = Reading(f, k, b)
         /\ s \notin {0, 2, 4} => StoreOf(f) = s + 1
         /\ s \in {0, 2, 4} => StoreOf(f) = s + 2
         /\ \A g \in Fields : StoreOf(g) = s + 1 => s \notin {0, 2, 4} /\ g = f
<1>1. /\ 0 \div 2 = 0 /\ 1 \div 2 = 0 /\ 2 \div 2 = 1 /\ 3 \div 2 = 1 /\ 4 \div 2 = 2 /\ 5 \div 2 = 2 /\ 6 \div 2 = 3
  OBVIOUS
<1>2. /\ StoreOf("value") = 2 /\ StoreOf("max") = 4 /\ StoreOf("avg") = 6 /\ StoreOf("status") = 7
  BY DEF StoreOf
<1>3. \A f : \A u : u = Cell(f, k) => [u EXCEPT !.scan = b] = Reading(f, k, b)
  BY CellRead
<1>4. /\ ReadingsOf(k)[2] = Cell("value", k) /\ ReadingsOf(k)[3] = Cell("max", k)
      /\ ReadingsOf(k)[4] = Cell("avg", k) /\ ReadingsOf(k)[5] = Cell("status", k)
  BY DEF ReadingsOf, ReadingFields
<1>5. Readings[1] = "value" /\ Readings[2] = "max" /\ Readings[3] = "avg"
  BY DEF Readings
<1>6. \A t, j : t \in {0, 1} /\ j = 0 => j + 1 = 1 /\ j + 2 = 2
  OBVIOUS
<1>7. CASE s = 0
  BY <1>1, <1>2, <1>3, <1>4, <1>5, <1>7, FieldNames DEF StoredField
<1>8. CASE s = 1
  BY <1>1, <1>2, <1>3, <1>4, <1>5, <1>8, FieldNames DEF StoredField
<1>9. CASE s = 2
  BY <1>1, <1>2, <1>3, <1>4, <1>5, <1>9, FieldNames DEF StoredField
<1>10. CASE s = 3
  BY <1>1, <1>2, <1>3, <1>4, <1>5, <1>10, FieldNames DEF StoredField
<1>11. CASE s = 4
  BY <1>1, <1>2, <1>3, <1>4, <1>5, <1>11, FieldNames DEF StoredField
<1>12. CASE s = 5
  BY <1>1, <1>2, <1>3, <1>4, <1>5, <1>12, FieldNames DEF StoredField
<1>13. CASE s = 6
  BY <1>1, <1>2, <1>3, <1>4, <1>5, <1>13, FieldNames DEF StoredField
<1> QED BY <1>7, <1>8, <1>9, <1>10, <1>11, <1>12, <1>13

\* The parse ends: the cache is the scan of the answer.
LEMMA FilledKeeps ==
  ASSUME TypeOK, SensorInv, NEW r \in Readers, Filled(r)
  PROVE  TypeOK' /\ SensorInv'
<1> DEFINE x == [reader[r] EXCEPT !.pc = "get", !.pos = 0, !.buf = 0, !.at = 0, !.exempt = Met(r)]
           a == reader[r].at
<1>1. /\ reader[r].pc = "fill" /\ Filling(r) /\ Place(r) \notin DOMAIN repo
      /\ stamp' = now /\ taken' = a /\ lag' = now - a
      /\ reader' = [reader EXCEPT ![r] = x]
      /\ UNCHANGED <<scans, device, repo, interval, now, sema, killed, mixed>>
  BY DEF Filled, Filling, Step
<1>2. reader[r] \in ReaderStates
  BY DEF TypeOK
<1>3. Len(scans) \in Nat \ {0} /\ 0 \in 0 .. Len(scans) /\ 0 \in 0 .. now /\ now \in 0 .. now
  BY ClockTypes DEF TypeOK, ScansOK
<1>4. a \in 0 .. now /\ a \in Int /\ now - a \in 0 .. now /\ now = a + (now - a)
  <2>1. a \in 0 .. now
    BY <1>2 DEF ReaderStates
  <2> QED BY <2>1, ClockTypes
<1>5. x \in ReaderStates
  <2>1. 0 \in 0 .. 7 * Cardinality(Sensors) + 1
    BY SensorsCounted
  <2>2. Met(r) \in BOOLEAN
    BY DEF Met, TypeOK
  <2> QED BY <1>2, <1>3, <2>1, <2>2 DEF ReaderStates
<1>6. /\ x.pc = "get" /\ x.of = reader[r].of /\ x.attr = reader[r].attr /\ x.since = reader[r].since
      /\ x.due = reader[r].due /\ x.ok = reader[r].ok /\ x.fresh = reader[r].fresh /\ x.exempt = Met(r)
  BY <1>2 DEF ReaderStates
<1> HIDE DEF x, a
<1>7. reader'[r] = x /\ \A q \in Readers \ {r} : reader'[q] = reader[q]
  BY <1>1 DEF TypeOK
<1>8. reader' \in [Readers -> ReaderStates]
  BY <1>1, <1>5 DEF TypeOK
<1>9. TypeOK'
  <2>1. stamp' \in 0 .. now /\ taken' \in 0 .. now /\ lag' \in 0 .. now /\ interval' \in 0 .. ShortMax
    BY <1>1, <1>3, <1>4, ClockTypes
  <2>2. sema' \in Ioctl \cup {NoReader} /\ device' \in {"probe", "found", "ready", "error"}
        /\ killed' \subseteq [of : Nat, scan : 0 .. Len(scans)] /\ mixed' \in BOOLEAN
    BY <1>1 DEF TypeOK
  <2> QED BY <1>1, <1>8, <2>1, <2>2, TypesKept
<1>10. SemaInv' /\ StampInv'
  <2>1. SemaInv'
    BY <1>1, <1>6, <1>7, NoBoth DEF SensorInv, SemaInv
  <2>2. StampInv'
    BY <1>1, <1>4 DEF StampInv
  <2> QED BY <2>1, <2>2
<1>11. \A q \in Readers : Filling(q)' <=> q # r /\ Filling(q)
  BY <1>6, <1>7 DEF Filling
<1>12. OneFills'
  BY <1>1, <1>11 DEF SensorInv, OneFills
<1>13. /\ ~ reader[r].ok /\ reader[r].fresh /\ reader[r].buf > 0 /\ reader[r].pos > 0 /\ AskedOK(r)
       /\ reader[r].since <= a /\ HadAt(reader[r].buf, a)
  BY <1>1 DEF SensorInv, ReadInv, a
<1>14. CacheInv'
  <2> SUFFICES ASSUME ~ mixed, repo # << >>
               PROVE  /\ \A q \in Readers : ~ Filling(q)'
                      /\ \E k \in 1 .. Len(scans) :
                           /\ HadAt(k, taken)'
                           /\ \A i \in Sensors, f \in Fields : repo[i][f] = Reading(f, i, k)
    BY <1>1 DEF CacheInv
  <2>1. \A q \in Readers : ~ Filling(q)'
    BY <1>1, <1>11 DEF SensorInv, OneFills
  <2>2. PICK k \in 1 .. Len(scans) : k = reader[r].buf
    <3>1. reader[r].buf \in 0 .. Len(scans)
      BY <1>2 DEF ReaderStates
    <3> QED BY <1>3, <1>13, <3>1
  <2>3. \A i \in Sensors, f \in Fields :
          reader[r].pos > 7 * (i - 1) + StoreOf(f) => repo[i][f] = Reading(f, i, k)
    BY <1>1, <1>13, <2>2 DEF SensorInv, CacheInv, AskedOK
  <2>4. HadAt(k, taken)'
    BY <1>1, <1>13, <2>2 DEF HadAt
  <2>5. reader[r].pos > 7 * Cardinality(Sensors)
    <3> DEFINE p == reader[r].pos
               m == (p - 1) \div 7 + 1
               s == (p - 1) % 7
    <3>1. p \in Nat \ {0} /\ Cardinality(Sensors) \in Nat /\ Sensors = 1 .. Cardinality(Sensors)
      BY <1>2, <1>13, SensorsCounted DEF ReaderStates
    <3>2. m \notin Sensors
      BY <1>1 DEF Place, TypeOK, RepoOK, OfSensors
    <3>3. m \in Nat \ {0} /\ s \in 0 .. 6 /\ p = 7 * (m - 1) + s + 1
      <4> HIDE DEF p
      <4> QED BY <3>1, Position
    <3> HIDE DEF p, m, s
    <3>4. m >= Cardinality(Sensors) + 1
      BY <3>1, <3>2, <3>3
    <3>5. p > 7 * Cardinality(Sensors)
      BY <3>1, <3>3, <3>4
    <3> QED BY <3>5 DEF p
  <2>6. ASSUME NEW i \in Sensors, NEW f \in Fields
        PROVE  repo[i][f] = Reading(f, i, k)
    <3>1. i \in 1 .. Cardinality(Sensors) /\ Cardinality(Sensors) \in Nat
      BY SensorsCounted
    <3>2. StoreOf(f) \in 2 .. 7
      BY FieldNames DEF StoreOf
    <3>3. reader[r].pos \in Nat
      BY <1>2, <3>1 DEF ReaderStates
    <3>4. reader[r].pos > 7 * (i - 1) + StoreOf(f)
      BY <2>5, <3>1, <3>2, <3>3
    <3> QED BY <2>3, <3>4
  <2> QED BY <2>1, <2>4, <2>6
<1>15. KillInv'
  <2>1. UNCHANGED <<scans, repo>> /\ killed' = killed \cup {} /\ device' = device
    BY <1>1
  <2>2. \A q \in Readers : ~ reader'[q].ok \/ reader'[q] = reader[q]
    BY <1>6, <1>7, <1>13
  <2>3. KillsFor({})
    BY <2>1, <2>2 DEF KillsFor
  <2>4. KilledForCause'
    BY <2>1, <2>3, KillsKeep DEF SensorInv, KillInv
  <2> QED BY <2>1, <2>4 DEF SensorInv, KillInv
<1>16. ASSUME NEW q \in Readers
       PROVE  ReadInv(q)' /\ CalmInv(q)'
  <2>1. ReadInv(q) /\ CalmInv(q)
    BY DEF SensorInv
  <2>2. PICK w : w = reader'[q]
    OBVIOUS
  <2>3. w.of = reader[q].of /\ w.attr = reader[q].attr /\ w.since = reader[q].since /\ w.due = reader[q].due
        /\ w.ok = reader[q].ok /\ w.fresh = reader[q].fresh
    BY <1>6, <1>7, <2>2
  <2>4. HasRecord(w.of)' <=> HasRecord(reader[q].of)
    BY <1>1, <2>3 DEF HasRecord
  <2>5. HasRecord(reader[q].of)' <=> HasRecord(reader[q].of)
    BY <2>2, <2>4 DEF HasRecord
  <2>6. AskedOK(q)' <=> AskedOK(q)
    BY <1>1, <2>2, <2>3, <2>5 DEF AskedOK
  <2>7. CASE q = r
    <3>1. w = x /\ ~ w.ok /\ w.fresh /\ w.pc = "get" /\ AskedOK(q)
      BY <1>6, <1>7, <1>13, <2>2, <2>3, <2>7
    <3>2. ReadInv(q)'
      BY <2>2, <2>6, <3>1 DEF ReadInv
    <3>3. Met(q)' => Met(q)
      <4>1. \A u \in Races(q) : Filling(u)' => Filling(u)
        BY <1>11 DEF Races
      <4> QED BY <1>1, <4>1 DEF Met, Races
    <3>4. Since(w) = reader[r].since
      <4>1. reader[r].since \in Int
        BY <1>2, ClockTypes DEF ReaderStates
      <4> QED BY <1>13, <2>3, <2>7, <3>1, <4>1 DEF Since
    <3>5. taken' >= Since(w)
      <4>1. reader[r].since \in Int
        BY <1>2, ClockTypes DEF ReaderStates
      <4> QED BY <1>1, <1>4, <1>13, <3>4, <4>1
    <3>6. CalmInv(q)'
      <4>1. w.exempt = Met(q)
        BY <1>6, <2>7, <3>1
      <4>2. Since(reader[q])' = Since(w)
        BY <2>2 DEF Since
      <4> QED BY <2>2, <3>1, <3>3, <3>5, <4>1, <4>2 DEF CalmInv
    <3> QED BY <3>2, <3>6
  <2>8. CASE q # r
    <3>1. w = reader[q]
      BY <1>7, <2>2, <2>8
    <3>2. HadAt(reader[q].buf, reader[q].at)' <=> HadAt(reader[q].buf, reader[q].at)
      BY <1>1, <2>2, <3>1 DEF HadAt
    <3>3. ReadInv(q)'
      BY <1>1, <2>1, <2>2, <2>6, <3>1, <3>2 DEF ReadInv, CellsOf
    <3>4. w.pc \in {"get", "status"} => w.exempt
      BY <1>1, <3>1, FillingExempts
    <3>5. Since(reader[q])' = Since(reader[q])
      BY <2>2, <3>1 DEF Since
    <3>6. HadAt(reader[q].val.scan, Since(reader[q]))' <=> HadAt(reader[q].val.scan, Since(reader[q]))
      BY <1>1, <2>2, <3>1, <3>5 DEF HadAt
    <3>7. CalmInv(q)'
      BY <2>1, <2>2, <2>5, <3>1, <3>4, <3>6 DEF CalmInv
    <3> QED BY <3>3, <3>7
  <2> QED BY <2>7, <2>8
<1> QED BY <1>9, <1>10, <1>12, <1>14, <1>15, <1>16 DEF SensorInv

\* A store of the parse.
LEMMA FillKeeps ==
  ASSUME TypeOK, SensorInv, NEW r \in Readers, Fill(r)
  PROVE  TypeOK' /\ SensorInv'
<1> DEFINE p == reader[r].pos
           s == (p - 1) % 7
           k == (p - 1) \div 7 + 1
           f == StoredField(s)
           b == reader[r].buf
           c == [ReadingsOf(k)[s \div 2 + 2] EXCEPT !.scan = b]
           n == IF s \in {0, 2, 4} THEN Zero ELSE c
           x == [reader[r] EXCEPT !.pos = @ + 1]
<1>1. /\ reader[r].pc = "fill" /\ Filling(r) /\ k \in DOMAIN repo
      /\ repo' = [repo EXCEPT ![Find(k)] = [@ EXCEPT ![f] = n]]
      /\ reader' = [reader EXCEPT ![r] = x]
      /\ UNCHANGED <<scans, device, stamp, interval, now, sema, killed, taken, lag, mixed>>
  BY DEF Fill, Place, Filling, Step, StoredField
<1>2. reader[r] \in ReaderStates
  BY DEF TypeOK
<1>3. /\ device = "ready" /\ p > 0 /\ b > 0 /\ reader[r].fresh /\ ~ reader[r].ok
      /\ AskedOK(r) /\ reader[r].since <= reader[r].at /\ HadAt(b, reader[r].at)
  BY <1>1 DEF SensorInv, ReadInv, AskedOK
<1>4. repo # << >> /\ k \in Sensors
  BY <1>1 DEF TypeOK, RepoOK, OfSensors
<1>5. Len(scans) \in Nat \ {0} /\ b \in 1 .. Len(scans)
  <2>1. b \in 0 .. Len(scans)
    BY <1>2 DEF ReaderStates
  <2>2. Len(scans) \in Nat \ {0}
    BY DEF TypeOK, ScansOK
  <2> QED BY <1>3, <2>1, <2>2
<1>6. p \in Nat \ {0} /\ Cardinality(Sensors) \in Nat /\ Sensors = 1 .. Cardinality(Sensors)
  BY <1>2, <1>3, SensorsCounted DEF ReaderStates
<1>7. k \in Nat \ {0} /\ s \in 0 .. 6 /\ p = 7 * (k - 1) + s + 1
  <2> HIDE DEF p
  <2> QED BY <1>6, Position
<1>8. /\ f \in Fields /\ c = Reading(f, k, b)
      /\ s \notin {0, 2, 4} => StoreOf(f) = s + 1
      /\ s \in {0, 2, 4} => StoreOf(f) = s + 2
      /\ \A g \in Fields : StoreOf(g) = s + 1 => s \notin {0, 2, 4} /\ g = f
  <2> HIDE DEF s, k, b, p
  <2> QED BY <1>7, StoreIs
<1>9. p + 1 \in 0 .. 7 * Cardinality(Sensors) + 1
  <2>1. k <= Cardinality(Sensors)
    BY <1>4, <1>6
  <2> HIDE DEF s, k, p
  <2> QED BY <2>1, <1>6, <1>7
<1>10. x \in ReaderStates
  BY <1>2, <1>9 DEF ReaderStates
<1>11. /\ x.pc = "fill" /\ x.pos = p + 1 /\ x.buf = b /\ x.at = reader[r].at
       /\ x.of = reader[r].of /\ x.attr = reader[r].attr
       /\ x.since = reader[r].since /\ x.due = reader[r].due /\ x.ok = reader[r].ok /\ x.fresh = reader[r].fresh
  BY <1>1, <1>2 DEF ReaderStates
<1> HIDE DEF x, c, f, s, k
<1>12. reader'[r] = x /\ \A q \in Readers \ {r} : reader'[q] = reader[q]
  BY <1>1 DEF TypeOK
<1>13. reader' \in [Readers -> ReaderStates]
  BY <1>1, <1>10 DEF TypeOK
<1>14. n \in CellsOf(f, k)
  BY <1>5, <1>8 DEF CellsOf
<1> HIDE DEF n
<1>15. DOMAIN repo = Sensors /\ Find(k) = k /\ \A i \in Sensors : RecordOK(repo[i], i)
  BY <1>4, FindIs
<1> DEFINE z == [repo[k] EXCEPT ![f] = n]
<1>16. /\ RecordOK(z, k) /\ z[f] = n /\ \A g \in Fields \ {f} : z[g] = repo[k][g]
  <2>1. PICK y : y = repo[k] /\ RecordOK(y, k)
    BY <1>4, <1>15
  <2>2. /\ RecordOK([y EXCEPT ![f] = n], k) /\ [y EXCEPT ![f] = n][f] = n
        /\ \A g \in Fields \ {f} : [y EXCEPT ![f] = n][g] = y[g]
    BY <1>8, <1>14, <2>1, RecordStored
  <2> QED BY <2>1, <2>2, Zenon
<1> HIDE DEF z
<1>17. /\ repo' = [i \in Sensors |-> repo'[i]] /\ DOMAIN repo' = Sensors /\ repo'[k] = z
       /\ \A i \in Sensors \ {k} : repo'[i] = repo[i]
  <2>1. repo = [i \in Sensors |-> repo[i]]
    BY <1>4 DEF TypeOK, RepoOK, OfSensors
  <2>2. repo' = [repo EXCEPT ![k] = z]
    BY <1>1, <1>15 DEF z
  <2> QED BY <1>4, <2>1, <2>2
<1>18. \A i \in Sensors : RecordOK(repo'[i], i) /\ repo'[i].id = i /\ repo[i].id = i
  <2>1. \A i \in Sensors : RecordOK(repo'[i], i)
    BY <1>15, <1>16, <1>17
  <2> QED BY <1>15, <2>1, RecordFacts
<1>19. TypeOK'
  <2>1. ReaderStates' = ReaderStates
    BY <1>1 DEF ReaderStates, ReadCells
  <2>2. ClockOK'
    <3>1. UNCHANGED <<now, stamp, interval, taken, lag>> /\ ClockOK
      BY <1>1 DEF TypeOK
    <3> QED BY <3>1 DEF ClockOK
  <2>3. ScansOK'
    BY <1>1 DEF TypeOK, ScansOK
  <2>4. RepoOK'
    <3>1. \A d, i : RecordOK(d, i)' <=> RecordOK(d, i)
      BY <1>1 DEF RecordOK, CellsOf
    <3>2. \A i \in DOMAIN repo' : RecordOK(repo'[i], i)
      BY <1>17, <1>18
    <3>3. OfSensors(repo')
      BY <1>17 DEF OfSensors
    <3> QED BY <3>1, <3>2, <3>3 DEF RepoOK
  <2>5. reader' \in [Readers -> ReaderStates']
    BY <1>13, <2>1
  <2> QED BY <1>1, <2>2, <2>3, <2>4, <2>5 DEF TypeOK
<1>20. SemaInv' /\ StampInv'
  <2>1. SemaInv'
    BY <1>1, <1>11, <1>12, NoBoth DEF SensorInv, SemaInv
  <2>2. StampInv'
    BY <1>1 DEF SensorInv, StampInv
  <2> QED BY <2>1, <2>2
<1>21. \A q \in Readers : Filling(q)' <=> Filling(q)
  BY <1>1, <1>11, <1>12 DEF Filling
<1>22. OneFills'
  BY <1>1, <1>21 DEF SensorInv, OneFills
<1>23. CacheInv'
  <2>1. ~ mixed => \A q \in Readers : Filling(q)' <=> q = r
    BY <1>1, <1>21 DEF SensorInv, OneFills
  <2>2. ASSUME ~ mixed
        PROVE  \A i \in Sensors, g \in Fields : p > 7 * (i - 1) + StoreOf(g) => repo[i][g] = Reading(g, i, b)
    BY <1>1, <1>3, <1>4, <2>2 DEF SensorInv, CacheInv
  <2>3. ASSUME ~ mixed, NEW i \in Sensors, NEW g \in Fields, p + 1 > 7 * (i - 1) + StoreOf(g)
        PROVE  repo'[i][g] = Reading(g, i, b)
    <3>1. StoreOf(g) \in 2 .. 7 /\ i \in Nat \ {0}
      BY <1>6, FieldNames DEF StoreOf
    <3>2. CASE p > 7 * (i - 1) + StoreOf(g)
      <4>1. repo[i][g] = Reading(g, i, b)
        BY <2>2, <2>3, <3>2
      <4>2. CASE i # k
        BY <1>17, <4>1, <4>2
      <4>3. CASE i = k /\ g # f
        BY <1>16, <1>17, <4>1, <4>3
      <4>4. CASE i = k /\ g = f
        <5>1. s + 1 > StoreOf(f)
          BY <1>7, <3>1, <3>2, <4>4
        <5>2. FALSE
          <6>1. StoreOf(f) \in {s + 1, s + 2}
            BY <1>8
          <6> QED BY <1>7, <5>1, <6>1
        <5> QED BY <5>2
      <4> QED BY <4>2, <4>3, <4>4
    <3>3. CASE ~ (p > 7 * (i - 1) + StoreOf(g))
      <4>1. p = 7 * (i - 1) + StoreOf(g)
        BY <1>6, <2>3, <3>1, <3>3
      <4>2. i = k /\ StoreOf(g) = s + 1
        BY <1>7, <3>1, <4>1
      <4>3. s \notin {0, 2, 4} /\ g = f
        BY <1>8, <4>2
      <4>4. n = Reading(f, k, b)
        BY <1>8, <4>3 DEF n
      <4> QED BY <1>16, <1>17, <4>2, <4>3, <4>4
    <3> QED BY <3>2, <3>3
  <2>4. ASSUME ~ mixed
        PROVE  \A i \in Sensors, g \in Fields :
                 reader'[r].pos > 7 * (i - 1) + StoreOf(g) => repo'[i][g] = Reading(g, i, reader'[r].buf)
    <3>1. reader'[r].pos = p + 1 /\ reader'[r].buf = b
      BY <1>11, <1>12
    <3> QED BY <2>3, <2>4, <3>1
  <2> QED BY <1>1, <2>1, <2>4 DEF CacheInv
<1>24. \A id : HasRecord(id)' <=> HasRecord(id)
  <2>1. \A id : HasRecord(id) <=> id \in Sensors
    BY <1>15, <1>18 DEF HasRecord
  <2>2. \A id : HasRecord(id)' <=> id \in Sensors
    BY <1>17, <1>18 DEF HasRecord
  <2> QED BY <2>1, <2>2
<1>25. KillInv'
  <2>1. \A d : (Number(d)' = Number(d)) /\ (Caused(d)' <=> Caused(d))
    <3>1. ASSUME NEW d
          PROVE  Caused(d)' <=> Caused(d)
      <4>1. HasRecord(d.of)' <=> HasRecord(d.of)
        BY <1>24
      <4> QED BY <1>1, <4>1 DEF Caused, Critical
    <3> QED BY <1>1, <3>1, SameScans
  <2>2. \A q \in Readers :
          ValueRead(reader'[q]) /\ Critical(reader'[q].of, Number(reader'[q].val)) =>
            Kill(reader'[q].of, reader'[q].val) \in killed
    BY <1>3, <1>11, <1>12 DEF SensorInv, KillInv, KilledForCause, ValueRead
  <2>3. ASSUME NEW q \in Readers
        PROVE  (ValueRead(reader[q]) /\ Critical(reader[q].of, Number(reader[q].val))
                  => Kill(reader[q].of, reader[q].val) \in killed)'
    <3>1. PICK d : d = reader'[q].val
      OBVIOUS
    <3>2. Number(d)' = Number(d) /\ Number(d)' = Number(reader[q].val)'
      BY <2>1, <3>1
    <3> QED BY <1>1, <2>2, <3>1, <3>2 DEF Critical, ValueRead, Kill
  <2>4. (\A d \in killed : Caused(d))'
    BY <1>1, <2>1 DEF SensorInv, KillInv, KilledForCause
  <2>5. (\A q \in Readers : ValueRead(reader[q]) /\ Critical(reader[q].of, Number(reader[q].val))
           => Kill(reader[q].of, reader[q].val) \in killed)'
    BY <2>3
  <2>6. KilledForCause'
    BY <2>4, <2>5, Zenon DEF KilledForCause
  <2> QED BY <1>1, <1>3, <2>6 DEF KillInv
<1>26. ASSUME NEW q \in Readers
       PROVE  ReadInv(q)' /\ CalmInv(q)'
  <2>1. ReadInv(q) /\ CalmInv(q)
    BY DEF SensorInv
  <2>2. PICK w : w = reader'[q]
    OBVIOUS
  <2>3. /\ w.of = reader[q].of /\ w.attr = reader[q].attr /\ w.since = reader[q].since /\ w.due = reader[q].due
        /\ w.ok = reader[q].ok /\ w.fresh = reader[q].fresh /\ w.buf = reader[q].buf /\ w.at = reader[q].at
    BY <1>11, <1>12, <2>2
  <2>4. HasRecord(w.of)' <=> HasRecord(reader[q].of)
    BY <1>24, <2>3
  <2>5. HasRecord(reader[q].of)' <=> HasRecord(reader[q].of)
    BY <2>2, <2>4 DEF HasRecord
  <2>6. AskedOK(q)' <=> AskedOK(q)
    BY <1>1, <2>2, <2>3, <2>5 DEF AskedOK
  <2>7. HadAt(reader[q].buf, reader[q].at)' <=> HadAt(reader[q].buf, reader[q].at)
    BY <1>1, <2>2, <2>3 DEF HadAt
  <2>8. CASE q = r
    <3>1. ~ w.ok /\ w.fresh /\ w.pc = "fill" /\ w.pos > 0 /\ w.buf > 0 /\ w.since <= w.at /\ AskedOK(q)
      BY <1>3, <1>6, <1>11, <1>12, <2>2, <2>3, <2>8
    <3>2. HadAt(reader[q].buf, reader[q].at)'
      BY <1>3, <2>7, <2>8
    <3>3. ReadInv(q)'
      BY <2>2, <2>6, <3>1, <3>2 DEF ReadInv
    <3>4. CalmInv(q)'
      BY <2>2, <3>1 DEF CalmInv
    <3> QED BY <3>3, <3>4
  <2>9. CASE q # r
    <3>1. w = reader[q]
      BY <1>12, <2>2, <2>9
    <3>2. ReadInv(q)'
      BY <1>1, <2>1, <2>2, <2>6, <2>7, <3>1 DEF ReadInv, CellsOf
    <3>3. w.pc \in {"get", "status"} => w.exempt
      BY <1>1, <3>1, FillingExempts
    <3>4. Since(reader[q])' = Since(reader[q])
      BY <2>2, <3>1 DEF Since
    <3>5. HadAt(reader[q].val.scan, Since(reader[q]))' <=> HadAt(reader[q].val.scan, Since(reader[q]))
      BY <1>1, <2>2, <3>1, <3>4 DEF HadAt
    <3>6. CalmInv(q)'
      BY <2>1, <2>2, <2>5, <3>1, <3>3, <3>5 DEF CalmInv
    <3> QED BY <3>2, <3>6
  <2> QED BY <2>8, <2>9
<1> QED BY <1>19, <1>20, <1>22, <1>23, <1>25, <1>26 DEF SensorInv

\* The first state.
LEMMA InitHolds ==
  ASSUME Init
  PROVE  TypeOK /\ SensorInv
<1> DEFINE v0 == [val |-> [i \in Sensors |-> 0], at |-> 0]
<1>1. /\ scans = << v0 >> /\ repo = << >> /\ stamp = 0 /\ now = 0 /\ device = "probe" /\ sema = NoReader
      /\ reader = [r \in Readers |-> Idle] /\ killed = {} /\ taken = 0 /\ lag = 0 /\ mixed = FALSE
  BY DEF Init
<1>2. ClockOK
  <2>1. PICK v \in Intervals : interval = Clipped(v)
    BY DEF Init
  <2>2. v \in Int
    BY SensorReadAssumption
  <2>3. interval \in 0 .. ShortMax
    BY <2>1, <2>2, ClippedFits
  <2>4. MaxTime \in Nat
    BY SensorReadAssumption
  <2> QED BY <1>1, <2>3, <2>4 DEF ClockOK
<1>3. ScansOK
  <2>1. v0 \in [val : [Sensors -> Values \cup {0}], at : 0 .. now]
    BY <1>1
  <2>2. MaxScans \in Nat \ {0}
    BY SensorReadAssumption
  <2> HIDE DEF v0
  <2>3. Len(scans) = 1 /\ scans \in Seq([val : [Sensors -> Values \cup {0}], at : 0 .. now])
    BY <1>1, <2>1
  <2> QED BY <2>2, <2>3 DEF ScansOK
<1>4. RepoOK
  BY <1>1 DEF RepoOK
<1>5. Idle \in ReaderStates
  <2>1. 0 \in 0 .. now /\ 0 \in 0 .. 7 * Cardinality(Sensors) + 1 /\ 0 \in 0 .. Len(scans) /\ 0 \in Nat
    BY <1>1, SensorsCounted
  <2>2. Zero \in ReadCells
    BY DEF ReadCells
  <2> QED BY <2>1, <2>2 DEF Idle, ReaderStates, Fields
<1>6. TypeOK
  BY <1>1, <1>2, <1>3, <1>4, <1>5 DEF TypeOK
<1>7. \A r \in Readers : reader[r].pc = "idle" /\ reader[r].ok = FALSE /\ reader[r].fresh = FALSE
  BY <1>1 DEF Idle
<1>8. SemaInv
  BY <1>1, <1>7, NoBoth DEF SemaInv
<1>9. OneFills /\ CacheInv /\ StampInv
  BY <1>1, <1>7 DEF OneFills, CacheInv, Filling, StampInv
<1>10. KillInv
  BY <1>1, <1>7 DEF KillInv, KilledForCause, ValueRead
<1>11. \A r \in Readers : ReadInv(r) /\ CalmInv(r)
  BY <1>7 DEF ReadInv, CalmInv
<1> QED BY <1>6, <1>8, <1>9, <1>10, <1>11 DEF SensorInv

\* The steps together, and what the invariant says of the properties.
LEMMA StepsKeep ==
  ASSUME TypeOK, SensorInv, [Next]_vars
  PROVE  TypeOK' /\ SensorInv'
<1>1. CASE Scan
  BY <1>1, ScanKeeps
<1>2. CASE Tick
  BY <1>2, TickKeeps
<1>3. CASE SetInterval
  BY <1>3, SetIntervalKeeps
<1>4. CASE Discover
  BY <1>4, DiscoverKeeps
<1>5. CASE Discovered
  BY <1>5, DiscoveredKeeps
<1>6. ASSUME NEW r \in Readers, Ask(r) \/ Interrupted(r) \/ Ends(r)
      PROVE  TypeOK' /\ SensorInv'
  <2>1. CASE Ends(r)
    BY <2>1, DownKeeps, CheckKeeps, AnswerKeeps, ArriveKeeps, FailKeeps, FillKeeps, FilledKeeps,
       GetKeeps, GetStatusKeeps, EndsKeep DEF Ends
  <2> QED BY <1>6, <2>1, AskKeeps, EndsKeep
<1>7. CASE UNCHANGED vars
  <2>1. UNCHANGED <<scans, device, repo, stamp, interval, now, sema, reader, killed, taken, lag, mixed>>
    BY <1>7 DEF vars
  <2>2. ClockOK'
    <3>1. ClockOK
      BY DEF TypeOK
    <3> QED BY <2>1, <3>1 DEF ClockOK
  <2>3. StampInv' /\ now' >= now
    BY <2>1, ClockTypes DEF SensorInv, StampInv
  <2> QED BY <2>1, <2>2, <2>3, QuietKeeps
<1> QED BY <1>1, <1>2, <1>3, <1>4, <1>5, <1>6, <1>7 DEF Next

\* The invariant says what a read that is calm returns.
LEMMA InvGivesRead ==
  ASSUME SensorInv
  PROVE  ReadIsOneRecentScan
<1>1. ASSUME NEW r \in Readers, Calm(r)
      PROVE  LET v == reader[r].val IN
             /\ v.field = reader[r].attr /\ v.of = reader[r].of
             /\ r \in Ioctl => reader[r].status = [v EXCEPT !.field = "status"]
             /\ HadAt(v.scan, reader[r].since - (IF reader[r].fresh THEN 0 ELSE reader[r].due))
  <2>1. reader[r].pc = "done" /\ reader[r].ok /\ HasRecord(reader[r].of) /\ ~ reader[r].exempt
    BY <1>1 DEF Calm, Served
  <2>2. reader[r].val \in CellsOf(reader[r].attr, reader[r].of)
    BY <2>1 DEF SensorInv, ReadInv
  <2>3. /\ reader[r].val # Zero /\ HadAt(reader[r].val.scan, Since(reader[r]))
        /\ r \in Ioctl => reader[r].status = [reader[r].val EXCEPT !.field = "status"]
    BY <2>1 DEF SensorInv, CalmInv
  <2>4. PICK k \in 1 .. Len(scans) : reader[r].val = Reading(reader[r].attr, reader[r].of, k)
    BY <2>2, <2>3 DEF CellsOf
  <2>5. reader[r].val.field = reader[r].attr /\ reader[r].val.of = reader[r].of
    BY <2>4 DEF Reading
  <2> QED BY <2>3, <2>5 DEF Since
<1> QED BY <1>1 DEF ReadIsOneRecentScan

\* The inductive invariant holds in every state.
THEOREM Inductive == Spec => [](TypeOK /\ SensorInv)
<1>1. Init => TypeOK /\ SensorInv
  BY InitHolds
<1>2. TypeOK /\ SensorInv /\ [Next]_vars => (TypeOK /\ SensorInv)'
  BY StepsKeep
<1> QED BY <1>1, <1>2, PTL DEF Spec

\* Type correctness: each record of the cache stays that of its sensor, each
\* of its cells holds that field of some scan of the card, or nothing, and what
\* a reader has is such a cell, whatever fetches meet (ami_sensor.c,
\* parse_sensors and read_sensor_val).
THEOREM TypeCorrect == Spec => []TypeOK
<1>1. TypeOK /\ SensorInv => TypeOK
  OBVIOUS
<1> QED BY <1>1, Inductive, PTL

\* A read of a sensor that no unlocked fetch meets returns the attribute and the
\* sensor asked for, with the status of the same scan to a caller of the ioctl.
\* The card had it after the read began, if the read fetched it; if not, it is
\* older by no more than sensor_refresh and the time from the answer of the card
\* to the stamp of its fetch (ami_sensor.c:955): for any number of sensors,
\* limits and readers, and scans at any time of the trip.
THEOREM ReadsOneRecentScan == Spec => []ReadIsOneRecentScan
<1>1. TypeOK /\ SensorInv => ReadIsOneRecentScan
  BY InvGivesRead
<1> QED BY <1>1, Inductive, PTL

\* Each kill is for the sensor, the critical limit and the scan of the value that
\* was read, or for a channel without a record, for which the ioctl kills; and
\* whoever gets a critical value has killed for it, even when fetches meet
\* (read_sensor_val).
THEOREM KillsOnlyForCause == Spec => []KilledForCause
<1>1. TypeOK /\ SensorInv => KilledForCause
  BY DEF SensorInv, KillInv
<1> QED BY <1>1, Inductive, PTL
=============================================================================
