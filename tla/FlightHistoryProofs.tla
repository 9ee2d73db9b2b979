--------------------------- MODULE FlightHistoryProofs ---------------------------
(***************************************************************************)
(* What the operators of the flight history do to any history, of any       *)
(* length: selecting and finding keep the order, a flight added is last,     *)
(* and flightsOf makes one flight of the saves that are one flight.         *)
(***************************************************************************)
EXTENDS FlightHistory, SequenceTheorems, FiniteSetTheorems, WellFoundedInduction, TLAPS

-----------------------------------------------------------------------------
(* Numbers and finite sets of them.                                        *)

LEMMA SmallestOfSet ==
    ASSUME NEW S, S \subseteq Nat, S # {}
    PROVE  \E m \in S : \A n \in S : m <= n
<1> DEFINE R == OpToRel(<, Nat)
<1>1. IsWellFoundedOn(R, Nat)
  BY NatLessThanWellFounded
<1>2. \A m, n \in Nat : n < m => <<n, m>> \in R
  BY DEF OpToRel
<1> HIDE DEF R
<1>3. PICK m \in S : \A n \in S : <<n, m>> \notin R
  BY <1>1, WFMin
<1>4. \A n \in S : m <= n
  <2> TAKE n \in S
  <2>1. m \in Nat /\ n \in Nat
    OBVIOUS
  <2>2. ~ (n < m)
    BY <1>2, <1>3, <2>1, Zenon
  <2> QED  BY <2>1, <2>2
<1> QED  BY <1>4

\* What one step after another makes of a beginning: the steps are given as a
\* function of their number and of what there was.
IsRun(f, N, init, step) == f[0] = init /\ \A n \in 1..N : f[n] = step[n][f[n - 1]]

LEMMA Recursion ==
    ASSUME NEW S, NEW N \in Nat, NEW init \in S, NEW step \in [1..N -> [S -> S]]
    PROVE  \E f \in [0..N -> S] : IsRun(f, N, init, step)
<1> DEFINE Steps(m, f) == f[0] = init /\ \A n \in 1..m : f[n] = step[n][f[n - 1]]
           bad == {m \in 0..N : ~ \E f \in [0..m -> S] : Steps(m, f)}
<1>0. N \in 0..N
  OBVIOUS
<1>1. SUFFICES ASSUME bad # {} PROVE FALSE
  BY <1>0 DEF IsRun
<1>2. PICK m \in bad : \A n \in bad : m <= n
  <2>1. bad \subseteq Nat
    OBVIOUS
  <2> HIDE DEF bad
  <2> QED  BY <1>1, <2>1, SmallestOfSet
<1>3. m # 0
  <2>1. SUFFICES ASSUME m = 0 PROVE FALSE
    OBVIOUS
  <2>2. [k \in 0..0 |-> init] \in [0..0 -> S] /\ Steps(0, [k \in 0..0 |-> init])
    OBVIOUS
  <2> QED  BY <2>1, <2>2
<1>4. m - 1 \in 0..N /\ ~(m <= m - 1) /\ m \in 1..N
  BY <1>3
<1>5. PICK f \in [0..(m - 1) -> S] : Steps(m - 1, f)
  BY <1>2, <1>4
<1> DEFINE g == [n \in 0..m |-> IF n = m THEN step[m][f[m - 1]] ELSE f[n]]
<1>6. f[m - 1] \in S
  BY <1>4
<1>7. g \in [0..m -> S]
  <2>1. \A n \in 0..m : n # m => n \in 0..(m - 1)
    BY <1>4
  <2>2. step[m][f[m - 1]] \in S
    BY <1>4, <1>6
  <2>3. \A n \in 0..m : (IF n = m THEN step[m][f[m - 1]] ELSE f[n]) \in S
    BY <1>5, <2>1, <2>2
  <2> QED  BY <2>3
<1>8. g[0] = init
  BY <1>3, <1>4, <1>5
<1>9. \A n \in 1..m : g[n] = step[n][g[n - 1]]
  <2> TAKE n \in 1..m
  <2>1. g[n - 1] = f[n - 1]
    BY <1>4
  <2>2. CASE n = m
    BY <2>1, <2>2
  <2>3. CASE n # m
    <3>1. n \in 1..(m - 1)
      BY <2>3, <1>4
    <3> QED  BY <3>1, <2>1, <2>3, <1>5
  <2> QED  BY <2>2, <2>3
<1> HIDE DEF g
<1> QED  BY <1>4, <1>7, <1>8, <1>9

-----------------------------------------------------------------------------
(* Selecting some of a sequence.                                           *)

\* In a finite set of numbers one has each rank.
LEMMA EveryRank ==
    ASSUME NEW S, S \subseteq Nat, IsFiniteSet(S), NEW i \in 1..Cardinality(S)
    PROVE  \E x \in S : Cardinality({y \in S : y < x}) = i - 1
<1> DEFINE Below(x) == {y \in S : y < x}
           Has(j) == \E x \in S : Cardinality(Below(x)) = j - 1
           bad == {j \in 1 .. Cardinality(S) : ~Has(j)}
<1>1. Cardinality(S) \in Nat
  BY FS_CardinalityType
<1>2. \A x \in S : IsFiniteSet(Below(x)) /\ Cardinality(Below(x)) \in Nat /\ x \notin Below(x)
  <2> TAKE x \in S
  <2>1. Below(x) \subseteq S
    OBVIOUS
  <2>2. IsFiniteSet(Below(x))
    BY <2>1, FS_Subset
  <2>3. Cardinality(Below(x)) \in Nat
    BY <2>2, FS_CardinalityType
  <2> QED  BY <2>2, <2>3
<1>3. \A x \in S : Cardinality(Below(x) \cup {x}) = Cardinality(Below(x)) + 1
  <2> TAKE x \in S
  <2> HIDE DEF Below
  <2> QED  BY <1>2, FS_AddElement
<1>4. SUFFICES bad = {}
  BY <1>4
<1>5. SUFFICES ASSUME bad # {} PROVE FALSE
  OBVIOUS
<1>6. PICK m \in bad : \A j \in bad : m <= j
  <2>1. bad \subseteq Nat
    OBVIOUS
  <2> HIDE DEF bad
  <2> QED  BY <1>5, <2>1, SmallestOfSet
<1>7. m \in 1 .. Cardinality(S) /\ ~Has(m)
  OBVIOUS
<1>8. CASE m = 1
  <2>1. S # {}
    BY <1>7, <1>1, FS_EmptySet
  <2>2. PICK x \in S : \A y \in S : x <= y
    BY <2>1, SmallestOfSet
  <2>3. Below(x) = {}
    <3>1. \A y \in S : ~(y < x)
      BY <2>2
    <3> QED  BY <3>1
  <2>4. Cardinality(Below(x)) = 0
    BY <2>3, FS_EmptySet
  <2> QED  BY <1>7, <1>8, <2>4
<1>9. CASE m # 1
  <2>1. m - 1 \in 1 .. Cardinality(S) /\ ~(m <= m - 1)
    BY <1>1, <1>7, <1>9
  <2>2. Has(m - 1)
    BY <1>6, <2>1
  <2>3. PICK x \in S : Cardinality(Below(x)) = m - 2
    <3>1. m \in Nat /\ m - 1 - 1 = m - 2
      BY <1>7
    <3> QED  BY <2>2, <3>1
  <2> DEFINE above == {y \in S : x < y}
  <2>4. Cardinality(Below(x) \cup {x}) = m - 1
    BY <1>3, <1>7, <2>3
  <2>5. above # {}
    <3>1. SUFFICES ASSUME above = {} PROVE FALSE
      OBVIOUS
    <3>2. Below(x) \cup {x} = S
      <4>1. \A y \in S : y < x \/ y = x
        BY <3>1
      <4> QED  BY <4>1
    <3>3. Cardinality(S) = m - 1
      BY <2>4, <3>2
    <3>4. m <= Cardinality(S)
      BY <1>1, <1>7
    <3> HIDE DEF Below
    <3> QED  BY <1>1, <3>3, <3>4
  <2>6. PICK z \in above : \A y \in above : z <= y
    <3>1. above \subseteq Nat
      OBVIOUS
    <3> HIDE DEF above
    <3> QED  BY <2>5, <3>1, SmallestOfSet
  <2>7. Below(z) = Below(x) \cup {x}
    <3>1. \A y \in S : y < z <=> y < x \/ y = x
      <4> TAKE y \in S
      <4>1. x \in Nat /\ y \in Nat /\ z \in Nat /\ x < z /\ (x < y => z <= y)
        BY <2>6
      <4> QED  BY <4>1
    <3> QED  BY <2>6, <3>1
  <2> QED  BY <1>7, <2>4, <2>6, <2>7
<1> QED  BY <1>8, <1>9

\* A smaller number has a lower rank.
LEMMA RanksIncrease ==
    ASSUME NEW S, S \subseteq Nat, IsFiniteSet(S), NEW x \in S, NEW z \in S, x < z
    PROVE  Cardinality({y \in S : y < x}) < Cardinality({y \in S : y < z})
<1> DEFINE Below(w) == {y \in S : y < w}
<1>1. Below(x) \subseteq Below(z) /\ x \in Below(z) /\ x \notin Below(x)
  <2>1. x \in Nat /\ z \in Nat /\ ~(x < x)
    OBVIOUS
  <2>2. \A y \in S : y < x => y < z
    <3> TAKE y \in S
    <3>1. y \in Nat
      OBVIOUS
    <3> QED  BY <2>1, <3>1
  <2> QED  BY <2>1, <2>2
<1>2. IsFiniteSet(Below(z)) /\ IsFiniteSet(Below(x))
  BY FS_Subset
<1> HIDE DEF Below
<1>3. Cardinality(Below(x)) <= Cardinality(Below(z)) /\ Cardinality(Below(x)) \in Nat
      /\ Cardinality(Below(z)) \in Nat
  BY <1>1, <1>2, FS_Subset, FS_CardinalityType
<1>4. Cardinality(Below(x)) # Cardinality(Below(z))
  BY <1>1, <1>2, FS_Subset
<1> QED  BY <1>3, <1>4 DEF Below

\* The rank of a member.
LEMMA RankOf ==
    ASSUME NEW S, S \subseteq Nat, IsFiniteSet(S), NEW x \in S
    PROVE  Cardinality({y \in S : y < x}) + 1 \in 1..Cardinality(S)
<1> DEFINE below == {y \in S : y < x}
<1>1. below \subseteq S /\ x \in S /\ x \notin below
  OBVIOUS
<1>2. IsFiniteSet(below)
  BY FS_Subset
<1> HIDE DEF below
<1>3. Cardinality(below) \in Nat /\ Cardinality(S) \in Nat /\ Cardinality(below) <= Cardinality(S)
      /\ Cardinality(below) # Cardinality(S)
  BY <1>1, <1>2, FS_Subset, FS_CardinalityType
<1> QED  BY <1>3 DEF below

\* The places that SelectPlaces takes, in their order.
IsOrder(at, places) ==
    /\ DOMAIN at = 1..Cardinality(places) /\ \A k \in DOMAIN at : at[k] \in places
    /\ \A k, l \in DOMAIN at : k < l => at[k] < at[l]
    /\ \A i \in places : \E k \in DOMAIN at : at[k] = i

LEMMA OrderExists ==
    ASSUME NEW places, places \subseteq Nat, IsFiniteSet(places)
    PROVE  IsOrder([k \in 1..Cardinality(places) |->
                       CHOOSE i \in places : Cardinality({j \in places : j < i}) = k - 1], places)
<1> DEFINE Rank(i) == Cardinality({j \in places : j < i})
           at == [k \in 1..Cardinality(places) |-> CHOOSE i \in places : Rank(i) = k - 1]
<1>1. Cardinality(places) \in Nat
  BY FS_CardinalityType
<1>2. \A k \in 1..Cardinality(places) : at[k] \in places /\ Rank(at[k]) = k - 1
  <2> TAKE k \in 1..Cardinality(places)
  <2>1. \E i \in places : Rank(i) = k - 1
    BY EveryRank
  <2> HIDE DEF Rank
  <2> QED  BY <2>1
<1>3. \A x, z \in places : x < z => Rank(x) < Rank(z)
  BY RanksIncrease
<1>4. \A x \in places : Rank(x) + 1 \in 1..Cardinality(places) /\ Rank(x) \in Nat
  <2> TAKE x \in places
  <2>1. Rank(x) + 1 \in 1..Cardinality(places)
    BY RankOf
  <2>2. {j \in places : j < x} \subseteq places
    OBVIOUS
  <2>3. Rank(x) \in Nat
    BY <2>2, FS_Subset, FS_CardinalityType
  <2> QED  BY <2>1, <2>3
<1> HIDE DEF Rank
<1>5. DOMAIN at = 1..Cardinality(places)
  OBVIOUS
<1> HIDE DEF at
<1>6. ASSUME NEW k \in DOMAIN at, NEW l \in DOMAIN at, k < l PROVE at[k] < at[l]
  <2>1. PICK x \in places, z \in places : x = at[k] /\ z = at[l] /\ Rank(x) = k - 1 /\ Rank(z) = l - 1
    BY <1>2, <1>5
  <2>2. k \in Nat /\ l \in Nat /\ x \in Nat /\ z \in Nat
    BY <1>5
  <2>3. x # z
    BY <1>6, <2>1, <2>2
  <2>4. ~(z < x)
    BY <1>3, <1>6, <2>1, <2>2
  <2>5. x < z
    BY <2>2, <2>3, <2>4
  <2> QED  BY <2>1, <2>5
<1>7. ASSUME NEW i \in places PROVE \E k \in DOMAIN at : at[k] = i
  <2> DEFINE k == Rank(i) + 1
  <2>1. k \in DOMAIN at /\ k - 1 = Rank(i)
    BY <1>4, <1>5
  <2>2. at[k] \in places /\ Rank(at[k]) = Rank(i)
    BY <1>2, <1>5, <2>1
  <2>3. at[k] \in Nat /\ i \in Nat /\ Rank(i) \in Nat
    BY <1>4, <2>2
  <2>4. ~(at[k] < i) /\ ~(i < at[k])
    BY <1>3, <2>2, <2>3
  <2>5. at[k] = i
    BY <2>3, <2>4
  <2> QED  BY <2>1, <2>5
<1>8. IsOrder(at, places)
  BY <1>2, <1>5, <1>6, <1>7 DEF IsOrder
<1> QED  BY <1>8 DEF at, Rank

Takes(t, s, at) == DOMAIN t = DOMAIN at /\ \A k \in DOMAIN t : t[k] = s[at[k]]

\* SelectPlaces is those elements, each once, in their order.
LEMMA Selected ==
    ASSUME NEW R, NEW s \in Seq(R), NEW places, places \subseteq DOMAIN s
    PROVE  /\ SelectPlaces(s, places) \in Seq(R)
           /\ Len(SelectPlaces(s, places)) = Cardinality(places)
           /\ \E at : IsOrder(at, places) /\ Takes(SelectPlaces(s, places), s, at)
<1> DEFINE at == [k \in 1..Cardinality(places) |->
                     CHOOSE i \in places : Cardinality({j \in places : j < i}) = k - 1]
           t == SelectPlaces(s, places)
<1>1. DOMAIN s = 1..Len(s) /\ Len(s) \in Nat
  OBVIOUS
<1>2. IsFiniteSet(places) /\ places \subseteq Nat
  <2>1. IsFiniteSet(1..Len(s))
    BY <1>1, FS_Interval
  <2>2. places \subseteq 1..Len(s)
    BY <1>1
  <2> QED  BY <2>1, <2>2, FS_Subset
<1>3. IsOrder(at, places)
  BY <1>2, OrderExists
<1>4. t = [k \in 1..Cardinality(places) |-> s[at[k]]]
  BY DEF SelectPlaces
<1> HIDE DEF at, t
<1>5. Cardinality(places) \in Nat
  BY <1>2, FS_CardinalityType
<1>6. t \in [1..Cardinality(places) -> R]
  BY <1>3, <1>4 DEF IsOrder
<1>7. t \in Seq(R) /\ Len(t) = Cardinality(places)
  BY <1>5, <1>6
<1>8. Takes(t, s, at)
  BY <1>3, <1>4 DEF Takes, IsOrder
<1> QED  BY <1>3, <1>7, <1>8 DEF t

-----------------------------------------------------------------------------
(* Histories: the records of an aircraft are in the order of their ordinals, *)
(* all of them below its counter.                                          *)

IsRecords(R) == \A r \in R : r.aircraft \in Aircraft /\ r.ordinal \in Nat

Ascending(rs) ==
    \A i, j \in DOMAIN rs :
        i < j /\ rs[i].aircraft = rs[j].aircraft => rs[i].ordinal < rs[j].ordinal

Counted(rs, sequences) ==
    \A i \in DOMAIN rs : rs[i].ordinal < sequences[rs[i].aircraft]

IsHistory(h, R) ==
    /\ h = [records |-> h.records, sequences |-> h.sequences]
    /\ h.records \in Seq(R) /\ h.sequences \in [Aircraft -> Nat]
    /\ Ascending(h.records) /\ Counted(h.records, h.sequences)

LEMMA EmptyIsHistory ==
    ASSUME NEW R
    PROVE  IsHistory(CreateHistory, R)
BY DEF IsHistory, CreateHistory, Ascending, Counted

\* An ordinal names one record of an aircraft.
LEMMA OrdinalsAreDistinct ==
    ASSUME NEW R, IsRecords(R), NEW rs \in Seq(R), Ascending(rs),
           NEW i \in DOMAIN rs, NEW j \in DOMAIN rs
    PROVE  /\ rs[i].aircraft = rs[j].aircraft => (i < j <=> rs[i].ordinal < rs[j].ordinal)
           /\ RecordId(rs[i]) = RecordId(rs[j]) <=> i = j
<1>1. rs[i] \in R /\ rs[j] \in R /\ i \in Nat /\ j \in Nat
  OBVIOUS
<1>2. rs[i].ordinal \in Nat /\ rs[j].ordinal \in Nat
  BY <1>1 DEF IsRecords
<1>3. rs[i].aircraft = rs[j].aircraft =>
          /\ i < j => rs[i].ordinal < rs[j].ordinal
          /\ j < i => rs[j].ordinal < rs[i].ordinal
  BY DEF Ascending
<1>4. i < j \/ i = j \/ j < i
  BY <1>1
<1> QED  BY <1>2, <1>3, <1>4 DEF RecordId

\* findRecords sorts by ordinal what is already in that order.
LEMMA FoundInOrder ==
    ASSUME NEW R, IsRecords(R), NEW h, h.records \in Seq(R), Ascending(h.records), NEW c
    PROVE  FindRecords(h, c) = SelectPlaces(h.records, Mine(h.records, c))
<1> DEFINE rs == h.records
           mine == Mine(rs, c)
<1>1. \A i, j \in mine : Older(rs, j, i) <=> j < i
  <2> TAKE i, j \in mine
  <2>1. i \in DOMAIN rs /\ j \in DOMAIN rs /\ rs[i].aircraft = rs[j].aircraft
    BY DEF Mine
  <2>2. j < i <=> rs[j].ordinal < rs[i].ordinal
    BY <2>1, OrdinalsAreDistinct
  <2>3. rs[j].ordinal = rs[i].ordinal => i = j
    BY <2>1, OrdinalsAreDistinct DEF RecordId
  <2>4. ~(i < i)
    BY <2>1
  <2> QED  BY <2>2, <2>3, <2>4 DEF Older
<1>2. \A i \in mine : {j \in mine : Older(rs, j, i)} = {j \in mine : j < i}
  BY <1>1
<1> HIDE DEF mine, rs
<1>3. \A k : (CHOOSE i \in mine : Cardinality({j \in mine : Older(rs, j, i)}) = k - 1)
             = (CHOOSE i \in mine : Cardinality({j \in mine : j < i}) = k - 1)
  BY <1>2
<1>4. FindRecords(h, c) =
          [k \in 1..Cardinality(mine) |->
              rs[CHOOSE i \in mine : Cardinality({j \in mine : Older(rs, j, i)}) = k - 1]]
  BY DEF FindRecords, mine, rs
<1>5. SelectPlaces(rs, mine) =
          [k \in 1..Cardinality(mine) |->
              rs[CHOOSE i \in mine : Cardinality({j \in mine : j < i}) = k - 1]]
  BY DEF SelectPlaces
<1>6. FindRecords(h, c) = SelectPlaces(rs, mine)
  BY <1>3, <1>4, <1>5
<1> QED  BY <1>6 DEF mine, rs

\* Selecting keeps the order.
LEMMA SelectedAscend ==
    ASSUME NEW R, NEW s \in Seq(R), Ascending(s), NEW places, places \subseteq DOMAIN s
    PROVE  Ascending(SelectPlaces(s, places))
<1> DEFINE t == SelectPlaces(s, places)
<1>1. PICK at : IsOrder(at, places) /\ Takes(t, s, at)
  BY Selected
<1> HIDE DEF t
<1>2. DOMAIN t = DOMAIN at /\ \A k \in DOMAIN t : t[k] = s[at[k]] /\ at[k] \in DOMAIN s
  BY <1>1 DEF IsOrder, Takes
<1> QED  BY <1>1, <1>2 DEF Ascending, IsOrder, t

\* Taking all of a sequence is taking it as it is.
LEMMA SelectedAll ==
    ASSUME NEW R, NEW s \in Seq(R)
    PROVE  SelectPlaces(s, DOMAIN s) = s
<1>1. DOMAIN s = 1..Len(s) /\ Len(s) \in Nat
  OBVIOUS
<1>2. IsFiniteSet(DOMAIN s) /\ DOMAIN s \subseteq Nat /\ Cardinality(DOMAIN s) = Len(s)
  BY <1>1, FS_Interval
<1>3. \A i \in DOMAIN s : Cardinality({j \in DOMAIN s : j < i}) = i - 1
  <2> TAKE i \in DOMAIN s
  <2>1. i \in Nat /\ i - 1 \in Nat
    BY <1>1
  <2>2. {j \in DOMAIN s : j < i} = 1..(i - 1)
    BY <1>1, <2>1
  <2>3. Cardinality(1..(i - 1)) = i - 1
    BY <2>1, FS_Interval
  <2> QED  BY <2>2, <2>3
<1>4. \A k \in 1..Len(s) :
          (CHOOSE i \in DOMAIN s : Cardinality({j \in DOMAIN s : j < i}) = k - 1) = k
  <2> TAKE k \in 1..Len(s)
  <2>1. k \in DOMAIN s /\ Cardinality({j \in DOMAIN s : j < k}) = k - 1
    BY <1>1, <1>3
  <2>2. \A i \in DOMAIN s : Cardinality({j \in DOMAIN s : j < i}) = k - 1 => i = k
    BY <1>1, <1>3
  <2> QED  BY <2>1, <2>2
<1>5. SelectPlaces(s, DOMAIN s) = [k \in 1..Len(s) |-> s[k]]
  <2>1. SelectPlaces(s, DOMAIN s) =
            [k \in 1..Len(s) |->
                s[CHOOSE i \in DOMAIN s : Cardinality({j \in DOMAIN s : j < i}) = k - 1]]
    BY <1>2 DEF SelectPlaces
  <2> QED  BY <1>4, <2>1
<1> QED  BY <1>1, <1>5

-----------------------------------------------------------------------------
(* flightsOf: the saves of a flight, whatever tells flights apart.          *)

\* The saves of R are told apart by a key, as those of one flight are by the flight.
Tells(key, R) == \A l, r \in R : SameStoredFlight(l, r) <=> key[l] = key[r]

LEMMA JoinType ==
    ASSUME NEW R, NEW F \in Seq(Seq(R)), NEW r \in R
    PROVE  Join(F, r) \in Seq(Seq(R))
<1> DEFINE homes == {i \in DOMAIN F : \A k \in DOMAIN F[i] : SameStoredFlight(F[i][k], r)}
           m == Min(homes)
           G == [F EXCEPT ![m] = Append(@, r)]
<1>1. CASE homes = {}
  BY <1>1 DEF Join
<1>2. CASE homes # {}
  <2>1. Join(F, r) = G
    BY <1>2 DEF Join
  <2> HIDE DEF m
  <2>2. G \in Seq(Seq(R))
    <3>1. \A i \in 1..Len(F) : F[i] \in Seq(R) /\ Append(F[i], r) \in Seq(R)
      OBVIOUS
    <3>2. DOMAIN G = 1..Len(F) /\ \A i \in 1..Len(F) : G[i] = IF i = m THEN Append(F[i], r) ELSE F[i]
      OBVIOUS
    <3>3. G = [i \in DOMAIN F |-> G[i]] /\ DOMAIN F = 1..Len(F) /\ Len(F) \in Nat
      <4>1. G = [i \in DOMAIN F |-> IF i = m THEN Append(F[m], r) ELSE F[i]]
        OBVIOUS
      <4>2. DOMAIN F = 1..Len(F) /\ Len(F) \in Nat
        OBVIOUS
      <4> HIDE DEF G
      <4> QED  BY <4>1, <4>2
    <3> HIDE DEF G
    <3> DEFINE n == Len(F)
               T == Seq(R)
    <3>4. G = [i \in 1..n |-> G[i]] /\ \A i \in 1..n : G[i] \in T
      BY <3>1, <3>2, <3>3
    <3>5. n \in Nat
      BY <3>3
    <3> HIDE DEF n, T
    <3>6. G \in [1..n -> T]
      BY <3>4
    <3>7. G \in Seq(T)
      BY <3>5, <3>6
    <3> QED  BY <3>7 DEF T
  <2> QED  BY <2>1, <2>2
<1> QED  BY <1>1, <1>2

\* flightsOf, one record after the other.
LEMMA FlightsOfSteps ==
    ASSUME NEW R, NEW rs \in Seq(R)
    PROVE  \E f \in [0..Len(rs) -> Seq(Seq(R))] :
               /\ f[0] = <<>> /\ \A n \in 1..Len(rs) : f[n] = Join(f[n - 1], rs[n])
               /\ FlightsOf(rs) = f[Len(rs)]
<1> DEFINE S == Seq(Seq(R))
           L == Len(rs)
           step == [n \in 1..L |-> [F \in S |-> Join(F, rs[n])]]
           joined(f) == [n \in 0..L |-> IF n = 0 THEN <<>> ELSE Join(f[n - 1], rs[n])]
           g == CHOOSE f : f = joined(f)
<1>1. L \in Nat /\ <<>> \in S
  OBVIOUS
<1>2. step \in [1..L -> [S -> S]]
  <2>1. \A n \in 1..L : rs[n] \in R
    OBVIOUS
  <2>2. \A n \in 1..L : \A F \in S : Join(F, rs[n]) \in S
    BY <2>1, JoinType
  <2> HIDE DEF S
  <2> QED  BY <2>2
<1>3. \A n \in 1..L : \A F \in S : step[n][F] = Join(F, rs[n])
  OBVIOUS
<1> HIDE DEF step, S
<1>4. PICK f \in [0..L -> S] : f[0] = <<>> /\ \A n \in 1..L : f[n] = step[n][f[n - 1]]
  <2> DEFINE none == <<>>
  <2>1. none \in S
    BY <1>1
  <2> HIDE DEF L, none
  <2>2. \E f \in [0..L -> S] : IsRun(f, L, none, step)
    BY <1>1, <1>2, <2>1, Recursion
  <2> QED  BY <2>2 DEF none, IsRun
<1>5. \A n \in 1..L : f[n - 1] \in S
  BY <1>1, <1>4
<1>6. \A n \in 1..L : f[n] = Join(f[n - 1], rs[n])
  BY <1>3, <1>4, <1>5
<1>7. f = joined(f)
  <2>1. \A n \in 0..L : n = 0 \/ n \in 1..L
    BY <1>1
  <2>2. \A n \in 0..L : f[n] = IF n = 0 THEN <<>> ELSE Join(f[n - 1], rs[n])
    BY <1>4, <1>6, <2>1
  <2> QED  BY <1>4, <2>2
<1>8. g = joined(g)
  <2> HIDE DEF joined
  <2> QED  BY <1>7
<1>9. FlightsOf(rs) = g[L]
  BY DEF FlightsOf
<1>10. g[0] = <<>> /\ \A n \in 1..L : g[n] = Join(g[n - 1], rs[n])
  <2> HIDE DEF g
  <2>1. \A n \in 0..L : g[n] = IF n = 0 THEN <<>> ELSE Join(g[n - 1], rs[n])
    BY <1>8
  <2> QED  BY <1>1, <2>1
<1> DEFINE odd == {n \in 0..L : g[n] # f[n]}
<1>11. odd = {}
  <2>1. SUFFICES ASSUME odd # {} PROVE FALSE
    OBVIOUS
  <2>2. PICK n \in odd : \A k \in odd : n <= k
    <3>1. odd \subseteq Nat
      OBVIOUS
    <3> HIDE DEF odd
    <3> QED  BY <2>1, <3>1, SmallestOfSet
  <2> HIDE DEF g
  <2>3. n \in 0..L /\ g[n] # f[n] /\ n # 0
    BY <1>4, <1>10
  <2>4. n \in 1..L /\ n - 1 \in 0..L /\ ~(n <= n - 1)
    BY <1>1, <2>3
  <2>5. g[n - 1] = f[n - 1]
    BY <2>2, <2>4
  <2> QED  BY <1>6, <1>10, <2>3, <2>4, <2>5
<1>12. FlightsOf(rs) = f[L]
  <2> HIDE DEF g
  <2>1. L \in 0..L
    BY <1>1
  <2> QED  BY <1>9, <1>11, <2>1
<1> QED  BY <1>4, <1>6, <1>12 DEF S

\* What flightsOf has made of the first n records: one group for each key there is,
\* begun by the first record of the key, at[i] being where group i was begun.
Grouped(F, rs, n, key, at) ==
    /\ DOMAIN at = DOMAIN F /\ \A i \in DOMAIN F : at[i] \in 1..n
    /\ \A i, j \in DOMAIN F : i < j => at[i] < at[j]
    /\ \A i, j \in DOMAIN F : key[rs[at[i]]] = key[rs[at[j]]] => i = j
    /\ \A i \in DOMAIN F : F[i] # <<>> /\ F[i][1] = rs[at[i]]
    /\ \A i \in DOMAIN F : \A k \in DOMAIN F[i] :
           key[F[i][k]] = key[rs[at[i]]] /\ \E m \in 1..n : F[i][k] = rs[m]
    /\ \A m \in 1..n : \E i \in DOMAIN F :
           at[i] <= m /\ key[rs[at[i]]] = key[rs[m]] /\ \E k \in DOMAIN F[i] : F[i][k] = rs[m]

LEMMA JoinGroups ==
    ASSUME NEW R, NEW rs \in Seq(R), NEW key,
           Tells(key, R),
           NEW n \in 1..Len(rs), NEW F \in Seq(Seq(R)), NEW at, Grouped(F, rs, n - 1, key, at)
    PROVE  \E to : Grouped(Join(F, rs[n]), rs, n, key, to)
<1> DEFINE r == rs[n]
           homes == {i \in DOMAIN F : \A k \in DOMAIN F[i] : SameStoredFlight(F[i][k], r)}
           N == Len(F)
<1>1. /\ n \in Nat /\ n - 1 \in Nat /\ N \in Nat /\ DOMAIN F = 1..N /\ r \in R
      /\ \A m \in 1..(n - 1) : m \in 1..Len(rs) /\ rs[m] \in R /\ m \in 1..n /\ m # n /\ m < n
      /\ \A m \in 1..n : m \in 1..(n - 1) \/ m = n
  OBVIOUS
<1>2. \A i \in 1..N : /\ F[i] \in Seq(R) /\ DOMAIN F[i] = 1..Len(F[i]) /\ Len(F[i]) \in Nat
                      /\ \A k \in DOMAIN F[i] : F[i][k] \in R
  OBVIOUS
<1>3. \A i \in 1..N : at[i] \in 1..(n - 1) /\ rs[at[i]] \in R /\ at[i] < n
  BY <1>1 DEF Grouped
<1>8. /\ DOMAIN at = 1..N
      /\ \A i, j \in 1..N : i < j => at[i] < at[j]
      /\ \A i, j \in 1..N : key[rs[at[i]]] = key[rs[at[j]]] => i = j
      /\ \A i \in 1..N : F[i] # <<>> /\ F[i][1] = rs[at[i]]
      /\ \A i \in 1..N : \A k \in DOMAIN F[i] :
             key[F[i][k]] = key[rs[at[i]]] /\ \E m \in 1..(n - 1) : F[i][k] = rs[m]
  <2> HIDE DEF N
  <2>1. DOMAIN F = 1..N
    BY <1>1
  <2>2. DOMAIN at = 1..N /\ \A i, j \in 1..N : i < j => at[i] < at[j]
    BY <2>1 DEF Grouped
  <2>3. \A i, j \in 1..N : key[rs[at[i]]] = key[rs[at[j]]] => i = j
    BY <2>1 DEF Grouped
  <2>4. \A i \in 1..N : F[i] # <<>> /\ F[i][1] = rs[at[i]]
    BY <2>1 DEF Grouped
  <2>5. \A i \in 1..N : \A k \in DOMAIN F[i] :
           key[F[i][k]] = key[rs[at[i]]] /\ \E m \in 1..(n - 1) : F[i][k] = rs[m]
    <3> TAKE i \in 1..N
    <3>1. i \in DOMAIN F
      BY <2>1
    <3> QED  BY <3>1, Zenon DEF Grouped
  <2> QED  BY <2>2, <2>3, <2>4, <2>5
<1>4. \A i \in 1..N : 1 \in DOMAIN F[i]
  <2> TAKE i \in 1..N
  <2>1. F[i] # <<>>
    BY <1>1 DEF Grouped
  <2> QED  BY <1>2, <2>1
<1>5. \A i \in 1..N : i \in homes <=> key[rs[at[i]]] = key[r]
  <2> TAKE i \in 1..N
  <2>1. \A k \in DOMAIN F[i] : F[i][k] \in R /\ key[F[i][k]] = key[rs[at[i]]]
    BY <1>1, <1>2 DEF Grouped
  <2>2. \A k \in DOMAIN F[i] : SameStoredFlight(F[i][k], r) <=> key[rs[at[i]]] = key[r]
    BY <1>1, <2>1 DEF Tells
  <2> QED  BY <1>1, <1>4, <2>2
<1>6. CASE homes = {}
  <2> DEFINE G == Append(F, <<r>>)
             to == [i \in 1..(N + 1) |-> IF i = N + 1 THEN n ELSE at[i]]
  <2>1. Join(F, r) = G
    BY <1>6 DEF Join
  <2>2. /\ DOMAIN G = 1..(N + 1) /\ G[N + 1] = <<r>>
        /\ \A i \in 1..N : G[i] = F[i] /\ to[i] = at[i] /\ i \in 1..(N + 1) /\ i # N + 1
        /\ to[N + 1] = n /\ DOMAIN to = 1..(N + 1)
        /\ \A i \in 1..(N + 1) : i \in 1..N \/ i = N + 1
        /\ N + 1 \in 1..(N + 1)
    BY <1>1
  <2>3. \A i \in 1..N : key[rs[at[i]]] # key[r]
    BY <1>5, <1>6
  <2> HIDE DEF G, to, homes
  <2>4. \A i \in DOMAIN G : to[i] \in 1..n
    <3> TAKE i \in DOMAIN G
    <3>1. CASE i \in 1..N
      <4>1. to[i] = at[i] /\ at[i] \in 1..(n - 1)
        BY <1>3, <2>2, <3>1
      <4> QED  BY <1>1, <4>1
    <3>2. CASE i = N + 1
      BY <1>1, <2>2, <3>2
    <3> QED  BY <2>2, <3>1, <3>2
  <2>5. ASSUME NEW i \in DOMAIN G, NEW j \in DOMAIN G, i < j PROVE to[i] < to[j]
    <3>1. i \in 1..N
      BY <1>1, <2>2, <2>5
    <3>2. j \in 1..N \/ j = N + 1
      BY <2>2
    <3> QED  BY <1>1, <1>3, <2>2, <2>5, <3>1, <3>2 DEF Grouped
  <2>6. ASSUME NEW i \in DOMAIN G, NEW j \in DOMAIN G, key[rs[to[i]]] = key[rs[to[j]]] PROVE i = j
    <3>1. CASE i \in 1..N /\ j \in 1..N
      BY <1>8, <2>2, <2>6, <3>1
    <3>2. CASE i \in 1..N /\ j = N + 1
      BY <2>2, <2>3, <2>6, <3>2
    <3>3. CASE i = N + 1 /\ j \in 1..N
      BY <2>2, <2>3, <2>6, <3>3
    <3> QED  BY <2>2, <3>1, <3>2, <3>3
  <2>7. /\ <<r>> # <<>> /\ <<r>>[1] = r /\ DOMAIN <<r>> = {1}
    OBVIOUS
  <2>8. ASSUME NEW i \in DOMAIN G PROVE G[i] # <<>> /\ G[i][1] = rs[to[i]]
    <3>1. CASE i \in 1..N
      BY <1>8, <2>2, <3>1
    <3> QED  BY <2>2, <2>7, <3>1
  <2>9. ASSUME NEW i \in DOMAIN G, NEW k \in DOMAIN G[i]
        PROVE  key[G[i][k]] = key[rs[to[i]]] /\ \E m \in 1..n : G[i][k] = rs[m]
    <3>1. CASE i \in 1..N
      <4>1. key[F[i][k]] = key[rs[at[i]]] /\ \E m \in 1..(n - 1) : F[i][k] = rs[m]
        <5>1. k \in DOMAIN F[i]
          BY <2>2, <3>1
        <5> QED  BY <1>8, <3>1, <5>1
      <4> QED  BY <1>1, <2>2, <3>1, <4>1
    <3>2. CASE i = N + 1
      <4>1. k = 1 /\ G[i][k] = r /\ n \in 1..n
        BY <1>1, <2>2, <2>7, <3>2
      <4> QED  BY <2>2, <3>2, <4>1
    <3> QED  BY <2>2, <3>1, <3>2
  <2>10. ASSUME NEW m \in 1..n
         PROVE  \E i \in DOMAIN G : to[i] <= m /\ key[rs[to[i]]] = key[rs[m]]
                                    /\ \E k \in DOMAIN G[i] : G[i][k] = rs[m]
    <3>1. CASE m \in 1..(n - 1)
      <4>1. PICK i \in DOMAIN F : at[i] <= m /\ key[rs[at[i]]] = key[rs[m]]
                                  /\ \E k \in DOMAIN F[i] : F[i][k] = rs[m]
        BY <3>1 DEF Grouped
      <4>2. i \in DOMAIN G /\ G[i] = F[i] /\ to[i] = at[i]
        BY <1>1, <2>2
      <4> QED  BY <4>1, <4>2
    <3>2. CASE m = n
      <4>1. to[N + 1] <= m
        BY <1>1, <2>2, <3>2
      <4>2. N + 1 \in DOMAIN G /\ to[N + 1] = n /\ G[N + 1] = <<r>>
        BY <2>2
      <4>3. 1 \in DOMAIN G[N + 1] /\ G[N + 1][1] = rs[m]
        BY <2>7, <3>2, <4>2
      <4>4. key[rs[to[N + 1]]] = key[rs[m]]
        BY <3>2, <4>2
      <4> QED  BY <4>1, <4>2, <4>3, <4>4
    <3> QED  BY <1>1, <3>1, <3>2
  <2>11. Grouped(G, rs, n, key, to)
    BY <2>2, <2>4, <2>5, <2>6, <2>8, <2>9, <2>10 DEF Grouped
  <2> QED  BY <2>1, <2>11
<1>7. CASE homes # {}
  <2> DEFINE h == Min(homes)
             G == [F EXCEPT ![h] = Append(@, r)]
  <2>1. Join(F, r) = G
    BY <1>7 DEF Join
  <2>2. h \in homes /\ h \in 1..N /\ key[rs[at[h]]] = key[r]
    <3>1. PICK x \in homes : TRUE
      BY <1>7
    <3>2. \A y \in homes : y = x
      <4>1. \A y \in homes : y \in 1..N /\ key[rs[at[y]]] = key[r]
        BY <1>1, <1>5
      <4> HIDE DEF homes
      <4> TAKE y \in homes
      <4>2. x \in 1..N /\ y \in 1..N /\ key[rs[at[x]]] = key[rs[at[y]]]
        BY <3>1, <4>1
      <4>3. y = x
        BY <1>8, <4>2
      <4> QED  BY <4>3
    <3>3. x \in 1..N /\ x <= x
      BY <1>1
    <3>4. h \in homes
      <4>1. \E z \in homes : \A y \in homes : z <= y
        BY <3>1, <3>2, <3>3
      <4> HIDE DEF homes
      <4> QED  BY <4>1 DEF Min
    <3> QED  BY <1>1, <1>5, <3>4
  <2> HIDE DEF h, homes
  <2>3. /\ DOMAIN G = 1..N /\ G[h] = Append(F[h], r)
        /\ \A i \in 1..N : i # h => G[i] = F[i]
    BY <1>1, <2>2
  <2>4. \A i \in 1..N : /\ DOMAIN F[i] \subseteq DOMAIN G[i] /\ G[i] # <<>>
                        /\ \A k \in DOMAIN F[i] : G[i][k] = F[i][k]
    <3> TAKE i \in 1..N
    <3>1. F[i] # <<>>
      BY <1>1 DEF Grouped
    <3> HIDE DEF G
    <3>2. CASE i = h
      <4>1. /\ Append(F[i], r) \in Seq(R) /\ Len(Append(F[i], r)) = Len(F[i]) + 1
            /\ \A k \in 1..Len(F[i]) : Append(F[i], r)[k] = F[i][k]
        BY <1>1, <1>2, AppendProperties
      <4>2. Append(F[i], r) # <<>>
        <5>1. Len(F[i]) + 1 # 0 /\ Len(F[i]) \in Nat
          BY <1>2
        <5> QED  BY <4>1, <5>1, EmptySeq
      <4>3. G[i] = Append(F[i], r)
        BY <2>3, <3>2
      <4>4. DOMAIN F[i] = 1..Len(F[i]) /\ Len(F[i]) \in Nat /\ DOMAIN G[i] = 1..(Len(F[i]) + 1)
        BY <1>2, <4>1, <4>3
      <4>5. 1..Len(F[i]) \subseteq 1..(Len(F[i]) + 1)
        BY <4>4
      <4> HIDE DEF N
      <4> QED  BY <4>1, <4>2, <4>3, <4>4, <4>5
    <3> QED  BY <2>3, <3>1, <3>2
  <2>5. \A k \in DOMAIN G[h] : k \in DOMAIN F[h] \/ G[h][k] = r
    <3>1. /\ Append(F[h], r) \in Seq(R) /\ Len(Append(F[h], r)) = Len(F[h]) + 1
          /\ Append(F[h], r)[Len(F[h]) + 1] = r
      BY <1>1, <1>2, <2>2, AppendProperties
    <3> QED  BY <1>2, <2>2, <2>3, <3>1
  <2>6. Len(F[h]) + 1 \in DOMAIN G[h] /\ G[h][Len(F[h]) + 1] = r
    <3>1. /\ Append(F[h], r) \in Seq(R) /\ Len(Append(F[h], r)) = Len(F[h]) + 1
          /\ Append(F[h], r)[Len(F[h]) + 1] = r
      BY <1>1, <1>2, <2>2, AppendProperties
    <3> QED  BY <1>2, <2>2, <2>3, <3>1
  <2> HIDE DEF G
  <2>7. \A i \in DOMAIN G : at[i] \in 1..n /\ DOMAIN at = DOMAIN G
    BY <1>1, <1>3, <2>3 DEF Grouped
  <2>8. \A i, j \in DOMAIN G : /\ i < j => at[i] < at[j]
                               /\ key[rs[at[i]]] = key[rs[at[j]]] => i = j
    BY <1>1, <2>3 DEF Grouped
  <2>9. \A i \in DOMAIN G : G[i] # <<>> /\ G[i][1] = rs[at[i]]
    BY <1>1, <1>4, <2>3, <2>4 DEF Grouped
  <2>10. ASSUME NEW i \in DOMAIN G, NEW k \in DOMAIN G[i]
         PROVE  key[G[i][k]] = key[rs[at[i]]] /\ \E m \in 1..n : G[i][k] = rs[m]
    <3>1. CASE k \in DOMAIN F[i]
      <4>1. key[F[i][k]] = key[rs[at[i]]] /\ \E m \in 1..(n - 1) : F[i][k] = rs[m]
        BY <1>1, <2>3, <3>1 DEF Grouped
      <4> QED  BY <1>1, <2>3, <2>4, <3>1, <4>1
    <3>2. CASE k \notin DOMAIN F[i]
      <4>1. i = h /\ G[i][k] = r /\ n \in 1..n
        <5>1. i \in 1..N /\ n \in 1..n
          BY <1>1, <2>3
        <5>2. i = h
          BY <2>3, <3>2, <5>1
        <5> QED  BY <2>5, <3>2, <5>1, <5>2
      <4> QED  BY <2>2, <4>1
    <3> QED  BY <3>1, <3>2
  <2>11. ASSUME NEW m \in 1..n
         PROVE  \E i \in DOMAIN G : at[i] <= m /\ key[rs[at[i]]] = key[rs[m]]
                                    /\ \E k \in DOMAIN G[i] : G[i][k] = rs[m]
    <3>1. CASE m \in 1..(n - 1)
      <4>1. PICK i \in DOMAIN F : at[i] <= m /\ key[rs[at[i]]] = key[rs[m]]
                                  /\ \E k \in DOMAIN F[i] : F[i][k] = rs[m]
        BY <3>1 DEF Grouped
      <4> QED  BY <1>1, <2>3, <2>4, <4>1
    <3>2. CASE m = n
      <4>1. at[h] <= m
        BY <1>1, <1>3, <2>2, <3>2
      <4>2. h \in DOMAIN G /\ key[rs[at[h]]] = key[rs[m]] /\ \E k \in DOMAIN G[h] : G[h][k] = rs[m]
        BY <2>2, <2>3, <2>6, <3>2
      <4> QED  BY <4>1, <4>2
    <3> QED  BY <1>1, <3>1, <3>2
  <2>12. DOMAIN at = DOMAIN G
    BY <1>1, <2>3 DEF Grouped
  <2>13. Grouped(G, rs, n, key, at)
    BY <2>7, <2>8, <2>9, <2>10, <2>11, <2>12 DEF Grouped
  <2> QED  BY <2>1, <2>13
<1> QED  BY <1>6, <1>7

LEMMA GroupedSave ==
    ASSUME NEW F, NEW rs, NEW n, NEW key, NEW at, Grouped(F, rs, n, key, at),
           NEW i \in DOMAIN F, NEW k \in DOMAIN F[i]
    PROVE  key[F[i][k]] = key[rs[at[i]]] /\ \E m \in 1..n : F[i][k] = rs[m]
BY DEF Grouped

\* One flight for each key, in the order of their first records.
LEMMA FlightsAreGroups ==
    ASSUME NEW R, NEW rs \in Seq(R), NEW key,
           Tells(key, R)
    PROVE  FlightsOf(rs) \in Seq(Seq(R)) /\ \E at : Grouped(FlightsOf(rs), rs, Len(rs), key, at)
<1> DEFINE L == Len(rs)
<1>1. L \in Nat
  OBVIOUS
<1>2. PICK f \in [0..L -> Seq(Seq(R))] :
          /\ f[0] = <<>> /\ \A n \in 1..L : f[n] = Join(f[n - 1], rs[n])
          /\ FlightsOf(rs) = f[L]
  BY FlightsOfSteps
<1> DEFINE bad == {n \in 0..L : ~ \E at : Grouped(f[n], rs, n, key, at)}
<1>3. bad = {}
  <2>1. SUFFICES ASSUME bad # {} PROVE FALSE
    OBVIOUS
  <2>2. PICK n \in bad : \A k \in bad : n <= k
    <3>1. bad \subseteq Nat
      OBVIOUS
    <3> HIDE DEF bad
    <3> QED  BY <2>1, <3>1, SmallestOfSet
  <2>3. Grouped(f[0], rs, 0, key, <<>>)
    <3>1. DOMAIN f[0] = {} /\ DOMAIN <<>> = {} /\ 1..0 = {}
      BY <1>2
    <3> QED  BY <3>1 DEF Grouped
  <2>4. n \in 1..L /\ n - 1 \in 0..L /\ ~(n <= n - 1)
    BY <1>1, <2>3
  <2>5. PICK at : Grouped(f[n - 1], rs, n - 1, key, at)
    BY <2>2, <2>4
  <2>6. f[n - 1] \in Seq(Seq(R)) /\ f[n] = Join(f[n - 1], rs[n])
    BY <1>2, <2>4
  <2>7. \E to : Grouped(f[n], rs, n, key, to)
    <3> DEFINE F == f[n - 1]
    <3>1. F \in Seq(Seq(R)) /\ Grouped(F, rs, n - 1, key, at)
      BY <2>5, <2>6
    <3> HIDE DEF F
    <3>2. \E to : Grouped(Join(F, rs[n]), rs, n, key, to)
      BY <2>4, <3>1, JoinGroups
    <3> QED  BY <2>6, <3>2 DEF F
  <2> QED  BY <2>7
<1>4. L \in 0..L
  BY <1>1
<1> QED  BY <1>2, <1>3, <1>4

-----------------------------------------------------------------------------
(* Recognising a flight, and forgetting one.                               *)

\* The flights of an aircraft in a history, flight i being first saved at place q[i].
FoundAt(F, rs, c, key, q) ==
    /\ DOMAIN q = DOMAIN F /\ \A i \in DOMAIN F : q[i] \in Mine(rs, c)
    /\ \A i, j \in DOMAIN F : i < j => q[i] < q[j]
    /\ \A i, j \in DOMAIN F : key[rs[q[i]]] = key[rs[q[j]]] => i = j
    /\ \A i \in DOMAIN F : F[i] # <<>> /\ F[i][1] = rs[q[i]]
    /\ \A i \in DOMAIN F : \A k \in DOMAIN F[i] :
           key[F[i][k]] = key[rs[q[i]]] /\ \E m \in Mine(rs, c) : F[i][k] = rs[m]
    /\ \A m \in Mine(rs, c) : \E i \in DOMAIN F :
           q[i] <= m /\ key[rs[q[i]]] = key[rs[m]] /\ \E k \in DOMAIN F[i] : F[i][k] = rs[m]

LEMMA FoundSave ==
    ASSUME NEW F, NEW rs, NEW c, NEW key, NEW q, FoundAt(F, rs, c, key, q),
           NEW i \in DOMAIN F, NEW k \in DOMAIN F[i]
    PROVE  key[F[i][k]] = key[rs[q[i]]] /\ \E m \in Mine(rs, c) : F[i][k] = rs[m]
BY DEF FoundAt

LEMMA FlightsFound ==
    ASSUME NEW R, IsRecords(R), NEW key,
           Tells(key, R),
           NEW h, h.records \in Seq(R), Ascending(h.records), NEW c
    PROVE  /\ FlightsOf(FindRecords(h, c)) \in Seq(Seq(R))
           /\ \E q : FoundAt(FlightsOf(FindRecords(h, c)), h.records, c, key, q)
<1> DEFINE rs == h.records
           P == Mine(rs, c)
           t == SelectPlaces(rs, P)
           F == FlightsOf(t)
<1>1. FindRecords(h, c) = t
  BY FoundInOrder
<1>2. P \subseteq DOMAIN rs /\ P \subseteq Nat
  BY DEF Mine
<1> HIDE DEF P, rs
<1>3. t \in Seq(R) /\ Len(t) = Cardinality(P) /\ \E at : IsOrder(at, P) /\ Takes(t, rs, at)
  <2>1. rs \in Seq(R)
    BY DEF rs
  <2> QED  BY <1>2, <2>1, Selected
<1> HIDE DEF t
<1>4. PICK pl : IsOrder(pl, P) /\ Takes(t, rs, pl)
  BY <1>3
<1>5. F \in Seq(Seq(R)) /\ \E at : Grouped(F, t, Len(t), key, at)
  BY <1>3, FlightsAreGroups
<1> HIDE DEF F
<1>6. PICK at : Grouped(F, t, Len(t), key, at)
  BY <1>5
<1> DEFINE n == Len(t)
           q == [i \in DOMAIN F |-> pl[at[i]]]
<1>7. /\ n \in Nat /\ DOMAIN t = 1..n /\ DOMAIN pl = 1..n
      /\ \A k \in 1..n : pl[k] \in P /\ t[k] = rs[pl[k]]
      /\ \A k, l \in 1..n : k < l => pl[k] < pl[l]
      /\ \A i \in P : \E k \in 1..n : pl[k] = i
  <2>1. DOMAIN t = DOMAIN pl /\ DOMAIN t = 1..n /\ n \in Nat
    BY <1>3, <1>4 DEF Takes
  <2> HIDE DEF n
  <2> QED  BY <1>4, <2>1 DEF IsOrder, Takes
<1> HIDE DEF n
<1>8. Grouped(F, t, n, key, at)
  BY <1>6 DEF n
<1>9. \A i \in DOMAIN F : /\ at[i] \in 1..n /\ q[i] = pl[at[i]] /\ q[i] \in P
                          /\ rs[q[i]] = t[at[i]]
  <2>1. \A i \in DOMAIN F : at[i] \in 1..n
    BY <1>8 DEF Grouped
  <2> QED  BY <1>7, <2>1
<1>10. DOMAIN q = DOMAIN F
  OBVIOUS
<1> HIDE DEF q
<1>11. \A i, j \in DOMAIN F : i < j => q[i] < q[j]
  <2>1. \A i, j \in DOMAIN F : i < j => at[i] < at[j]
    BY <1>8 DEF Grouped
  <2> QED  BY <1>7, <1>9, <2>1
<1>12. \A i, j \in DOMAIN F : key[rs[q[i]]] = key[rs[q[j]]] => i = j
  <2>1. \A i, j \in DOMAIN F : key[t[at[i]]] = key[t[at[j]]] => i = j
    BY <1>8 DEF Grouped
  <2> QED  BY <1>9, <2>1
<1>13. \A i \in DOMAIN F : F[i] # <<>> /\ F[i][1] = rs[q[i]]
  <2>1. \A i \in DOMAIN F : F[i] # <<>> /\ F[i][1] = t[at[i]]
    BY <1>8 DEF Grouped
  <2> QED  BY <1>9, <2>1
<1>14. ASSUME NEW i \in DOMAIN F, NEW k \in DOMAIN F[i]
       PROVE  key[F[i][k]] = key[rs[q[i]]] /\ \E m \in P : F[i][k] = rs[m]
  <2>1. key[F[i][k]] = key[t[at[i]]] /\ \E m \in 1..n : F[i][k] = t[m]
    BY <1>8, GroupedSave
  <2> QED  BY <1>7, <1>9, <2>1
<1>15. ASSUME NEW m \in P
       PROVE  \E i \in DOMAIN F : q[i] <= m /\ key[rs[q[i]]] = key[rs[m]]
                                  /\ \E k \in DOMAIN F[i] : F[i][k] = rs[m]
  <2>1. PICK l \in 1..n : pl[l] = m
    BY <1>7
  <2>2. PICK i \in DOMAIN F : at[i] <= l /\ key[t[at[i]]] = key[t[l]]
                              /\ \E k \in DOMAIN F[i] : F[i][k] = t[l]
    BY <1>8 DEF Grouped
  <2>3. t[l] = rs[m] /\ t[at[i]] = rs[q[i]]
    BY <1>7, <1>9, <2>1
  <2>4. q[i] <= m
    <3>1. at[i] \in 1..n /\ q[i] = pl[at[i]] /\ q[i] \in Nat /\ m \in Nat
      BY <1>2, <1>9
    <3>2. CASE at[i] = l
      BY <2>1, <3>1, <3>2
    <3>3. CASE at[i] < l
      BY <1>7, <2>1, <3>1, <3>3
    <3> QED  BY <1>7, <2>2, <3>1, <3>2, <3>3
  <2> QED  BY <2>2, <2>3, <2>4
<1>16. FoundAt(F, rs, c, key, q)
  BY <1>9, <1>10, <1>11, <1>12, <1>13, <1>14, <1>15 DEF FoundAt, P
<1> QED  BY <1>1, <1>5, <1>16 DEF F, rs

\* The records of other flights than the one an id names.
OtherFlights(key, rs, id) ==
    {j \in DOMAIN rs : \A i \in DOMAIN rs : RecordId(rs[i]) = id => key[rs[j]] # key[rs[i]]}

\* Forgetting takes the saves of the flight an id names, and no other record; an id
\* that names nothing takes nothing.
LEMMA ForgetTakes ==
    ASSUME NEW R, IsRecords(R), NEW key,
           Tells(key, R),
           NEW h, h.records \in Seq(R), Ascending(h.records), NEW id
    PROVE  ForgetSavesOfFlight(h, id) =
               [h EXCEPT !.records = SelectPlaces(h.records, OtherFlights(key, h.records, id))]
<1> DEFINE rs == h.records
           c == id[1]
           F == FlightsOf(FindRecords(h, c))
           named == {i \in DOMAIN F : \E k \in DOMAIN F[i] : RecordId(F[i][k]) = id}
           saves == UNION {{RecordId(F[i][k]) : k \in DOMAIN F[i]} : i \in named}
           asked == {i \in DOMAIN rs : RecordId(rs[i]) = id}
<1>1. \E q : FoundAt(F, rs, c, key, q)
  BY FlightsFound
<1> HIDE DEF F
<1>2. PICK q : FoundAt(F, rs, c, key, q)
  BY <1>1
<1>3. \A i, j \in DOMAIN rs : key[rs[i]] = key[rs[j]] => rs[i].aircraft = rs[j].aircraft
  <2>1. rs \in Seq(R)
    OBVIOUS
  <2> HIDE DEF rs
  <2>2. \A i \in DOMAIN rs : rs[i] \in R
    BY <2>1
  <2> QED  BY <2>2 DEF Tells, SameStoredFlight
<1>4. \A i, j \in DOMAIN rs : RecordId(rs[i]) = RecordId(rs[j]) <=> i = j
  BY OrdinalsAreDistinct
<1> HIDE DEF rs
<1>5. \A i \in asked : i \in Mine(rs, c)
  BY DEF Mine, RecordId
<1>6. ASSUME NEW j \in DOMAIN rs
      PROVE  RecordId(rs[j]) \in saves <=> \E i \in asked : key[rs[j]] = key[rs[i]]
  <2>1. ASSUME NEW i \in asked, key[rs[j]] = key[rs[i]]
        PROVE  RecordId(rs[j]) \in saves
    <3>1. i \in Mine(rs, c) /\ j \in Mine(rs, c)
      BY <1>3, <1>5, <2>1 DEF Mine
    <3>2. PICK g \in DOMAIN F : /\ key[rs[q[g]]] = key[rs[i]]
                                /\ \E k \in DOMAIN F[g] : F[g][k] = rs[i]
      BY <1>2, <3>1 DEF FoundAt
    <3>3. PICK e \in DOMAIN F : /\ key[rs[q[e]]] = key[rs[j]]
                                /\ \E k \in DOMAIN F[e] : F[e][k] = rs[j]
      BY <1>2, <3>1 DEF FoundAt
    <3>4. e = g
      BY <1>2, <2>1, <3>2, <3>3 DEF FoundAt
    <3>5. g \in named
      BY <3>2
    <3> QED  BY <3>3, <3>4, <3>5
  <2>2. ASSUME RecordId(rs[j]) \in saves
        PROVE  \E i \in asked : key[rs[j]] = key[rs[i]]
    <3>1. PICK g \in named : \E k \in DOMAIN F[g] : RecordId(F[g][k]) = RecordId(rs[j])
      BY <2>2
    <3>2. PICK k \in DOMAIN F[g] : RecordId(F[g][k]) = RecordId(rs[j])
      BY <3>1
    <3>3. PICK l \in DOMAIN F[g] : RecordId(F[g][l]) = id
      OBVIOUS
    <3>4. g \in DOMAIN F
      OBVIOUS
    <3> HIDE DEF named, saves
    <3>5. PICK m \in Mine(rs, c) : F[g][k] = rs[m]
      BY <1>2, <3>4, FoundSave
    <3>6. PICK i \in Mine(rs, c) : F[g][l] = rs[i]
      BY <1>2, <3>4, FoundSave
    <3>7. key[F[g][k]] = key[rs[q[g]]] /\ key[F[g][l]] = key[rs[q[g]]]
      BY <1>2, <3>4, FoundSave
    <3>8. m = j /\ m \in DOMAIN rs /\ i \in DOMAIN rs
      BY <1>4, <3>2, <3>5 DEF Mine
    <3>9. i \in asked
      BY <3>3, <3>6, <3>8
    <3> QED  BY <3>5, <3>6, <3>7, <3>8, <3>9
  <2> QED  BY <2>1, <2>2
<1>7. ForgetSavesOfFlight(h, id) =
          [h EXCEPT !.records = SelectPlaces(@, {i \in DOMAIN @ : RecordId(@[i]) \notin saves})]
  BY Zenon DEF ForgetSavesOfFlight, F
<1>8. {i \in DOMAIN rs : RecordId(rs[i]) \notin saves} = OtherFlights(key, rs, id)
  <2>1. \A j \in DOMAIN rs : RecordId(rs[j]) \in saves <=>
            \E i \in DOMAIN rs : RecordId(rs[i]) = id /\ key[rs[j]] = key[rs[i]]
    <3> HIDE DEF saves
    <3> QED  BY <1>6
  <2> HIDE DEF saves
  <2> QED  BY <2>1 DEF OtherFlights
<1> QED  BY <1>7, <1>8 DEF rs

\* What a candidate of a flight is compared with among some records: it is stored as the
\* first save of its flight; its baseline is the first save of the flight first saved last,
\* of those before it.
BaselineIs(found, rs, c, key, kc) ==
    LET first == {i \in DOMAIN rs : \A k \in 1..(i - 1) : key[rs[k]] # key[rs[i]]}
        mine == {i \in first : key[rs[i]] = kc}
        end == IF mine = {} THEN Len(rs) + 1 ELSE Min(mine)
        others == {i \in first : rs[i].aircraft = c /\ i < end}
    IN found = [storedAs |-> IF mine = {} THEN NoRecord ELSE rs[Min(mine)],
                baseline |-> IF others = {} THEN NoRecord ELSE rs[Max(others)]]

\* A candidate is one flight with exactly the records of its key, however it is tested.
Matches(candidate, kc, key, R, rs) ==
    /\ \A r \in R : SameStoredFlight(r, candidate) <=> key[r] = kc
    /\ \A i \in DOMAIN rs : IsSameFlight(rs[i], candidate) => key[rs[i]] = kc

LEMMA BaselineFound ==
    ASSUME NEW R, IsRecords(R), NEW key,
           Tells(key, R),
           NEW h, h.records \in Seq(R), Ascending(h.records),
           NEW candidate, NEW kc,
           Matches(candidate, kc, key, R, h.records)
    PROVE  BaselineIs(SelectBaseline(h, candidate), h.records, candidate.aircraft, key, kc)
<1> DEFINE rs == h.records
           c == candidate.aircraft
           F == FlightsOf(FindRecords(h, c))
           first == {i \in DOMAIN rs : \A k \in 1..(i - 1) : key[rs[k]] # key[rs[i]]}
           mine == {i \in first : key[rs[i]] = kc}
           end == IF mine = {} THEN Len(rs) + 1 ELSE Min(mine)
           others == {i \in first : rs[i].aircraft = c /\ i < end}
           Fits(i) == \/ \E k \in DOMAIN F[i] : IsSameFlight(F[i][k], candidate)
                      \/ \A k \in DOMAIN F[i] : SameStoredFlight(F[i][k], candidate)
           matches == {i \in DOMAIN F : Fits(i)}
           Before(i) == IF i > 1 THEN F[i - 1][1] ELSE NoRecord
<1>1. F \in Seq(Seq(R)) /\ \E q : FoundAt(F, rs, c, key, q)
  BY FlightsFound
<1>2. /\ rs \in Seq(R) /\ DOMAIN rs = 1..Len(rs) /\ Len(rs) \in Nat /\ \A i \in DOMAIN rs : rs[i] \in R
  OBVIOUS
<1>3. SelectBaseline(h, candidate) =
          IF matches = {} THEN [baseline |-> Before(Len(F) + 1), storedAs |-> NoRecord]
          ELSE [baseline |-> Before(Min(matches)), storedAs |-> F[Min(matches)][1]]
  BY Zenon DEF SelectBaseline
<1> HIDE DEF F
<1>4. PICK q : FoundAt(F, rs, c, key, q)
  BY <1>1
<1>5. /\ \A r \in R : SameStoredFlight(r, candidate) <=> key[r] = kc
      /\ \A i \in DOMAIN rs : IsSameFlight(rs[i], candidate) => key[rs[i]] = kc
  BY DEF Matches
<1> DEFINE N == Len(F)
<1>6. N \in Nat /\ DOMAIN F = 1..N /\ \A i \in 1..N : DOMAIN F[i] = 1..Len(F[i]) /\ Len(F[i]) \in Nat
                                                   /\ \A k \in DOMAIN F[i] : F[i][k] \in R
  BY <1>1
<1> HIDE DEF rs, N
<1>7. /\ \A i \in 1..N : q[i] \in Mine(rs, c) /\ q[i] \in DOMAIN rs /\ rs[q[i]].aircraft = c
                         /\ F[i][1] = rs[q[i]] /\ 1 \in DOMAIN F[i]
      /\ \A i, j \in 1..N : i < j => q[i] < q[j]
      /\ \A i, j \in 1..N : key[rs[q[i]]] = key[rs[q[j]]] => i = j
  <2>1. \A i \in 1..N : F[i] # <<>> => 1 \in DOMAIN F[i]
    <3> TAKE i \in 1..N
    <3>1. F[i] \in Seq(R)
      BY <1>1, <1>6
    <3> QED  BY <3>1
  <2> QED  BY <1>4, <1>6, <2>1 DEF FoundAt, Mine
<1>8. \A m \in Mine(rs, c) : \E i \in 1..N : q[i] <= m /\ key[rs[q[i]]] = key[rs[m]]
  BY <1>4, <1>6 DEF FoundAt
\* Which flights match: the one whose key is kc.
<1>9. ASSUME NEW i \in 1..N PROVE Fits(i) <=> key[rs[q[i]]] = kc
  <2>1. ASSUME NEW k \in DOMAIN F[i]
        PROVE  /\ IsSameFlight(F[i][k], candidate) => key[F[i][k]] = kc
               /\ SameStoredFlight(F[i][k], candidate) <=> key[F[i][k]] = kc
               /\ key[F[i][k]] = key[rs[q[i]]]
    <3>1. key[F[i][k]] = key[rs[q[i]]] /\ \E m \in Mine(rs, c) : F[i][k] = rs[m]
      BY <1>4, <1>6, FoundSave
    <3>2. PICK m \in Mine(rs, c) : F[i][k] = rs[m]
      BY <3>1
    <3>3. m \in DOMAIN rs
      BY DEF Mine
    <3> QED  BY <1>2, <1>5, <3>1, <3>2, <3>3
  <2>2. 1 \in DOMAIN F[i]
    BY <1>7
  <2> QED  BY <2>1, <2>2
\* The first saves of the aircraft are the places q.
<1>10. \A i \in 1..N : q[i] \in first
  <2> TAKE i \in 1..N
  <2> SUFFICES ASSUME NEW k \in 1..(q[i] - 1), key[rs[k]] = key[rs[q[i]]] PROVE FALSE
    BY <1>7
  <2>1. q[i] \in 1..Len(rs) /\ k \in DOMAIN rs /\ k < q[i]
    BY <1>2, <1>7
  <2>2. rs[k].aircraft = c
    <3>1. rs[k] \in R /\ rs[q[i]] \in R /\ rs[q[i]].aircraft = c
      BY <1>2, <1>7, <2>1
    <3> QED  BY <3>1 DEF Tells, SameStoredFlight
  <2>3. PICK j \in 1..N : q[j] <= k /\ key[rs[q[j]]] = key[rs[k]]
    BY <1>8, <2>1, <2>2 DEF Mine
  <2>4. j = i
    BY <1>7, <2>3
  <2> QED  BY <1>2, <1>7, <2>1, <2>3, <2>4
<1>11. \A m \in first : rs[m].aircraft = c => \E i \in 1..N : q[i] = m
  <2> TAKE m \in first
  <2> HAVE rs[m].aircraft = c
  <2>1. m \in 1..Len(rs) /\ m \in Mine(rs, c)
    BY <1>2 DEF Mine
  <2>2. PICK i \in 1..N : q[i] <= m /\ key[rs[q[i]]] = key[rs[m]]
    BY <1>8, <2>1
  <2>3. q[i] \in 1..Len(rs)
    BY <1>2, <1>7
  <2>4. ~(q[i] < m)
    <3>1. q[i] < m => q[i] \in 1..(m - 1)
      BY <1>2, <2>1, <2>3
    <3> QED  BY <2>2, <3>1
  <2> QED  BY <1>2, <2>1, <2>2, <2>3, <2>4
<1>12. \A m \in mine : rs[m].aircraft = c
  BY <1>2, <1>5 DEF SameStoredFlight
<1>13. \A i \in 1..N : q[i] \in 1..Len(rs)
  BY <1>2, <1>7
<1>14. mine = {q[i] : i \in matches}
  <2>1. \A i \in matches : q[i] \in mine
    BY <1>6, <1>9, <1>10
  <2>2. \A m \in mine : \E i \in matches : q[i] = m
    BY <1>6, <1>9, <1>11, <1>12
  <2> HIDE DEF mine, matches
  <2> QED  BY <2>1, <2>2
<1>15. matches \subseteq 1..N
  BY <1>6
<1>16. \A i, j \in matches : i = j
  BY <1>6, <1>7, <1>9
<1> HIDE DEF first, Fits, matches
\* The flight before place e, when the flights before it are the first e.
<1>17. ASSUME NEW e \in 1..(N + 1), NEW d, d = e - 1, NEW S, S = {q[i] : i \in 1..d}
       PROVE  Before(e) = IF S = {} THEN NoRecord ELSE rs[Max(S)]
  <2>1. CASE e = 1
    <3>1. 1..d = {}
      BY <1>17, <2>1
    <3>2. S = {}
      BY <1>17, <3>1
    <3> QED  BY <2>1, <3>2
  <2>2. CASE e > 1
    <3>1. e - 1 \in 1..(e - 1) /\ e - 1 \in 1..N /\ \A i \in 1..(e - 1) : i \in 1..N
      BY <1>6, <2>2
    <3>2. \A i \in 1..(e - 1) : q[i] <= q[e - 1]
      <4> TAKE i \in 1..(e - 1)
      <4>1. i = e - 1 \/ i < e - 1
        BY <1>6
      <4> QED  BY <1>7, <1>13, <3>1, <4>1
    <3>3. q[e - 1] \in S /\ \A m \in S : m <= q[e - 1] /\ m \in Nat
      BY <1>13, <1>17, <3>1, <3>2
    <3>4. Max(S) = q[e - 1]
      <4>1. \A m \in S : (\A y \in S : m >= y) => m = q[e - 1]
        BY <3>3
      <4> QED  BY <3>3, <4>1 DEF Max
    <3> QED  BY <1>7, <2>2, <3>1, <3>3, <3>4
  <2> QED  BY <1>6, <2>1, <2>2
<1>18. CASE matches = {}
  <2>1. mine = {} /\ end = Len(rs) + 1
    BY <1>14, <1>18
  <2>2. \A i \in 1..N : q[i] < Len(rs) + 1
    BY <1>2, <1>13
  <2>3. others = {q[i] : i \in 1..N}
    <3>1. \A i \in 1..N : q[i] \in others
      BY <1>7, <1>10, <2>1, <2>2
    <3>2. \A m \in others : \E i \in 1..N : q[i] = m
      BY <1>11
    <3> QED  BY <3>1, <3>2
  <2>4. N + 1 \in 1..(N + 1) /\ N + 1 - 1 = N
    BY <1>6
  <2> HIDE DEF others, mine, end, Before
  <2>5. Before(N + 1) = IF others = {} THEN NoRecord ELSE rs[Max(others)]
    <3> DEFINE e == N + 1
    <3>1. e \in 1..(N + 1) /\ N = e - 1
      BY <1>6, <2>4
    <3> HIDE DEF e
    <3>2. Before(e) = IF others = {} THEN NoRecord ELSE rs[Max(others)]
      BY <1>17, <2>3, <3>1
    <3> QED  BY <3>2 DEF e
  <2>6. SelectBaseline(h, candidate) = [baseline |-> Before(N + 1), storedAs |-> NoRecord]
    BY <1>3, <1>18 DEF N
  <2> QED  BY <2>1, <2>5, <2>6 DEF BaselineIs, others, mine, end, rs, first
<1>19. CASE matches # {}
  <2>1. PICK e \in matches : matches = {e}
    BY <1>16, <1>19
  <2>2. e \in 1..N
    BY <1>15
  <2>3. mine = {q[e]}
    BY <1>14, <2>1
  <2>4. Min(matches) = e /\ Min(mine) = q[e] /\ end = q[e]
    <3>1. Min(matches) = e
      BY <1>6, <2>1, <2>2 DEF Min
    <3>2. q[e] \in Nat
      BY <1>13, <2>2
    <3> HIDE DEF mine
    <3>3. Min(mine) = q[e]
      BY <2>3, <3>2 DEF Min
    <3> QED  BY <2>3, <3>1, <3>3
  <2>5. others = {q[i] : i \in 1..(e - 1)}
    <3>1. \A i \in 1..(e - 1) : q[i] \in others
      <4> TAKE i \in 1..(e - 1)
      <4>1. i \in 1..N /\ i < e
        BY <1>6, <2>2
      <4> QED  BY <1>7, <1>10, <2>2, <2>4, <4>1
    <3>2. \A m \in others : \E i \in 1..(e - 1) : q[i] = m
      <4> TAKE m \in others
      <4>1. PICK i \in 1..N : q[i] = m
        BY <1>11
      <4>2. q[i] < q[e]
        BY <2>4, <4>1
      <4>3. ~(e < i) /\ e # i
        BY <1>7, <1>13, <2>2, <4>2
      <4>4. i \in 1..(e - 1)
        BY <1>6, <2>2, <4>3
      <4> QED  BY <4>1, <4>4
    <3> QED  BY <3>1, <3>2
  <2>6. e \in 1..(N + 1)
    BY <1>6, <2>2
  <2>7. mine # {}
    BY <2>3
  <2> HIDE DEF others, mine, end, Before
  <2>8. Before(e) = IF others = {} THEN NoRecord ELSE rs[Max(others)]
    <3> DEFINE d == e - 1
    <3>1. d = e - 1 /\ others = {q[i] : i \in 1..d}
      BY <2>5
    <3> HIDE DEF d
    <3> QED  BY <1>17, <2>6, <3>1
  <2>9. SelectBaseline(h, candidate) = [baseline |-> Before(e), storedAs |-> F[e][1]]
    BY <1>3, <1>19, <2>4
  <2>10. F[e][1] = rs[Min(mine)]
    BY <1>7, <2>2, <2>4
  <2> QED  BY <2>7, <2>8, <2>9, <2>10 DEF BaselineIs, others, mine, end, rs, first
<1> QED  BY <1>18, <1>19

-----------------------------------------------------------------------------
(* Adding, forgetting an aircraft, exporting and importing.                 *)

LEMMA SelectedLast ==
    ASSUME NEW R, NEW s \in Seq(R), NEW places, places \subseteq DOMAIN s, Len(s) \in places
    PROVE  LET t == SelectPlaces(s, places)
           IN t # <<>> /\ Len(t) \in DOMAIN t /\ t[Len(t)] = s[Len(s)]
<1> DEFINE t == SelectPlaces(s, places)
<1>1. t \in Seq(R) /\ Len(t) = Cardinality(places)
  BY Selected
<1>2. PICK at : IsOrder(at, places) /\ Takes(t, s, at)
  BY Selected
<1> HIDE DEF t
<1>3. PICK k \in DOMAIN at : at[k] = Len(s)
  BY <1>2 DEF IsOrder
<1>4. DOMAIN t = DOMAIN at /\ DOMAIN t = 1..Len(t) /\ Len(t) \in Nat
  BY <1>1, <1>2 DEF Takes
<1>5. Len(t) \in DOMAIN at
  BY <1>3, <1>4
<1>6. k = Len(t)
  <2>1. ~(k < Len(t))
    <3>1. SUFFICES ASSUME k < Len(t) PROVE FALSE
      OBVIOUS
    <3>2. at[k] < at[Len(t)] /\ at[Len(t)] \in places
      BY <1>2, <1>5, <3>1 DEF IsOrder
    <3>3. at[Len(t)] \in 1..Len(s) /\ Len(s) \in Nat
      BY <3>2
    <3> QED  BY <1>3, <3>2, <3>3
  <2> QED  BY <1>3, <1>4, <2>1
<1>7. t[Len(t)] = s[at[Len(t)]]
  BY <1>2, <1>4, <1>5 DEF Takes
<1>8. t # <<>>
  BY <1>1, <1>3, <1>4
<1> QED  BY <1>3, <1>4, <1>5, <1>6, <1>7, <1>8 DEF t

\* Selected records are of the sequence, so what holds of each holds of them.
LEMMA SelectedAre ==
    ASSUME NEW R, NEW s \in Seq(R), NEW places, places \subseteq DOMAIN s
    PROVE  /\ \A k \in DOMAIN SelectPlaces(s, places) : \E i \in places : SelectPlaces(s, places)[k] = s[i]
           /\ \A i \in places : \E k \in DOMAIN SelectPlaces(s, places) : SelectPlaces(s, places)[k] = s[i]
<1> DEFINE t == SelectPlaces(s, places)
<1>1. PICK at : IsOrder(at, places) /\ Takes(t, s, at)
  BY Selected
<1> HIDE DEF t
<1>2. (\A k \in DOMAIN t : \E i \in places : t[k] = s[i])
      /\ \A i \in places : \E k \in DOMAIN t : t[k] = s[i]
  BY <1>1 DEF IsOrder, Takes
<1> QED  BY <1>2 DEF t

\* The history that is left when some records go.
LEMMA SelectedIsHistory ==
    ASSUME NEW R, IsRecords(R), NEW h, IsHistory(h, R), NEW places, places \subseteq DOMAIN h.records
    PROVE  IsHistory([h EXCEPT !.records = SelectPlaces(@, places)], R)
<1> DEFINE s == h.records
           t == SelectPlaces(s, places)
           a == [h EXCEPT !.records = SelectPlaces(@, places)]
<1>1. s \in Seq(R) /\ Ascending(s) /\ Counted(s, h.sequences) /\ h.sequences \in [Aircraft -> Nat]
      /\ h = [records |-> s, sequences |-> h.sequences]
  BY DEF IsHistory
<1>2. a = [records |-> t, sequences |-> h.sequences]
  <2> HIDE DEF t
  <2>1. a = [h EXCEPT !.records = t]
    BY DEF t
  <2> HIDE DEF a
  <2> QED  BY <1>1, <2>1
<1> HIDE DEF s, a
<1>3. t \in Seq(R) /\ Ascending(t)
  <2>1. places \subseteq DOMAIN s
    BY DEF s
  <2> QED  BY <1>1, <2>1, Selected, SelectedAscend
<1>4. \A k \in DOMAIN t : \E i \in DOMAIN s : t[k] = s[i]
  <2>1. places \subseteq DOMAIN s
    BY DEF s
  <2> QED  BY <1>1, <2>1, SelectedAre
<1> HIDE DEF t
<1>5. Counted(t, h.sequences)
  BY <1>1, <1>4 DEF Counted
<1>6. a.records = t /\ a.sequences = h.sequences
  BY <1>2
<1>7. IsHistory(a, R)
  BY <1>1, <1>2, <1>3, <1>5, <1>6 DEF IsHistory
<1> QED  BY <1>7 DEF a

\* What addFlightRecord leaves out is older than what it adds, and is only what does not
\* fit the cap.
AddedTo(a, h, record, n, R) ==
    LET new == Stored(record, n)
        kept == Append(h.records, new)
    IN /\ IsHistory(a, R)
       /\ a.sequences = [h.sequences EXCEPT ![record.aircraft] = n + 1]
       /\ a.records # <<>> /\ a.records[Len(a.records)] = new
       /\ \E places : /\ places \subseteq DOMAIN kept /\ Len(kept) \in places
                      /\ a.records = SelectPlaces(kept, places)
       /\ Cardinality(Mine(h.records, record.aircraft)) < Cap => a.records = kept

LEMMA Added ==
    ASSUME NEW R, IsRecords(R), NEW h, IsHistory(h, R), NEW record,
           record.aircraft \in Aircraft,
           Stored(record, h.sequences[record.aircraft]) \in R
    PROVE  AddedTo(AddFlightRecord(h, record), h, record, h.sequences[record.aircraft], R)
<1> DEFINE c == record.aircraft
           n == h.sequences[c]
           new == Stored(record, n)
           s == h.records
           kept == Append(s, new)
           mine == FindRecords([h EXCEPT !.records = kept], c)
           excess == IF Len(mine) > Cap THEN Len(mine) - Cap ELSE 0
           dropped == {mine[i].ordinal : i \in 1..excess}
           places == {i \in DOMAIN kept : kept[i].aircraft # c \/ kept[i].ordinal \notin dropped}
           b == [records |-> SelectPlaces(kept, places), sequences |-> [h.sequences EXCEPT ![c] = n + 1]]
<1>1. AddFlightRecord(h, record) = b
  BY DEF AddFlightRecord
<1>2. /\ s \in Seq(R) /\ Ascending(s) /\ Counted(s, h.sequences) /\ h.sequences \in [Aircraft -> Nat]
      /\ h = [records |-> s, sequences |-> h.sequences] /\ new \in R /\ c \in Aircraft /\ n \in Nat
      /\ new.aircraft = c /\ new.ordinal = n
  BY DEF IsHistory, Stored
<1> DEFINE L == Len(s)
<1> HIDE DEF new, s, c, n
<1>3. /\ kept \in Seq(R) /\ Len(kept) = L + 1 /\ L \in Nat /\ DOMAIN kept = 1..(L + 1)
      /\ DOMAIN s = 1..L /\ \A i \in 1..L : kept[i] = s[i] /\ s[i] \in R
      /\ kept[L + 1] = new
  BY <1>2, AppendProperties
<1>4. [h EXCEPT !.records = kept].records = kept
  BY <1>2
<1> HIDE DEF kept, L
<1>5. Ascending(kept)
  <2> SUFFICES ASSUME NEW i \in 1..(L + 1), NEW j \in 1..(L + 1),
                      i < j, kept[i].aircraft = kept[j].aircraft
               PROVE  kept[i].ordinal < kept[j].ordinal
    BY <1>3 DEF Ascending
  <2>1. i \in 1..L
    BY <1>3
  <2>2. CASE j \in 1..L
    BY <1>2, <1>3, <2>1, <2>2 DEF Ascending
  <2>3. CASE j = L + 1
    <3>1. kept[j] = new /\ kept[i] = s[i] /\ s[i].aircraft = c
      BY <1>2, <1>3, <2>1, <2>3
    <3>2. s[i].ordinal < h.sequences[c]
      BY <1>2, <1>3, <2>1, <3>1 DEF Counted
    <3> QED  BY <1>2, <3>1, <3>2 DEF n
  <2> QED  BY <1>3, <2>2, <2>3
<1>6. mine = SelectPlaces(kept, Mine(kept, c))
  <2> DEFINE g == [h EXCEPT !.records = kept]
  <2>1. g.records = kept
    BY <1>4
  <2> HIDE DEF g
  <2>2. g.records \in Seq(R) /\ Ascending(g.records)
    BY <1>3, <1>5, <2>1
  <2>3. FindRecords(g, c) = SelectPlaces(g.records, Mine(g.records, c))
    BY <2>2, FoundInOrder
  <2> QED  BY <2>1, <2>3 DEF g
<1>7. Mine(kept, c) \subseteq DOMAIN kept /\ L + 1 \in Mine(kept, c)
  BY <1>2, <1>3 DEF Mine
<1> DEFINE P == Mine(kept, c)
<1>8. mine \in Seq(R) /\ Len(mine) = Cardinality(P)
  BY <1>3, <1>6, <1>7, Selected
<1>9. PICK at : IsOrder(at, P) /\ Takes(mine, kept, at)
  BY <1>3, <1>6, <1>7, Selected
<1> HIDE DEF mine, P
<1>10. DOMAIN mine = 1..Len(mine) /\ Len(mine) \in Nat /\ DOMAIN at = DOMAIN mine
  BY <1>8, <1>9 DEF Takes
<1>11. Cap \in Nat \ {0}
  BY CapAssumption
<1>12. n \notin dropped
  <2> SUFFICES ASSUME NEW i \in 1..excess, mine[i].ordinal = n PROVE FALSE
    OBVIOUS
  <2>1. i \in DOMAIN mine /\ i < Len(mine) /\ Len(mine) \in DOMAIN mine
    BY <1>10, <1>11
  <2>2. at[i] < at[Len(mine)] /\ at[i] \in P /\ at[Len(mine)] \in P
    BY <1>9, <1>10, <2>1 DEF IsOrder
  <2>3. P \subseteq 1..(L + 1)
    BY <1>3, <1>7 DEF P
  <2>4. at[i] \in 1..L
    <3>1. at[i] \in 1..(L + 1) /\ at[Len(mine)] \in 1..(L + 1)
      BY <2>2, <2>3
    <3> QED  BY <1>3, <2>2, <3>1
  <2>5. mine[i] = s[at[i]] /\ s[at[i]].aircraft = c
    BY <1>3, <1>9, <2>1, <2>2, <2>4 DEF Takes, P, Mine
  <2>6. s[at[i]].ordinal < n /\ s[at[i]].ordinal = n
    BY <1>2, <1>3, <2>4, <2>5 DEF Counted, n
  <2> QED  BY <1>2, <2>6
<1>13. places \subseteq DOMAIN kept /\ Len(kept) \in places
  BY <1>2, <1>3, <1>12
<1>14. Cardinality(Mine(s, c)) < Cap => places = DOMAIN kept
  <2> SUFFICES ASSUME Cardinality(Mine(s, c)) < Cap PROVE places = DOMAIN kept
    OBVIOUS
  <2>1. P = Mine(s, c) \cup {L + 1} /\ L + 1 \notin Mine(s, c)
    <3>1. \A i \in 1..(L + 1) : i \in 1..L \/ i = L + 1
      BY <1>3
    <3>2. \A i \in 1..L : i \in 1..(L + 1) /\ i # L + 1
      BY <1>3
    <3> QED  BY <1>2, <1>3, <3>1, <3>2 DEF P, Mine
  <2>2. IsFiniteSet(Mine(s, c))
    <3>1. Mine(s, c) \subseteq 1..L
      BY <1>3 DEF Mine
    <3>2. IsFiniteSet(1..L)
      BY <1>3, FS_Interval
    <3> QED  BY <3>1, <3>2, FS_Subset
  <2>3. Cardinality(P) = Cardinality(Mine(s, c)) + 1 /\ Cardinality(Mine(s, c)) \in Nat
    BY <2>1, <2>2, FS_AddElement, FS_CardinalityType
  <2>4. ~(Len(mine) > Cap)
    BY <1>8, <1>11, <2>3
  <2>5. 1..excess = {}
    BY <2>4
  <2>6. dropped = {}
    BY <2>5
  <2> QED  BY <2>6
<1> HIDE DEF places
<1> DEFINE t == SelectPlaces(kept, places)
           q == [h.sequences EXCEPT ![c] = n + 1]
<1>15. t \in Seq(R) /\ Ascending(t) /\ t # <<>> /\ t[Len(t)] = new
  BY <1>3, <1>5, <1>13, Selected, SelectedAscend, SelectedLast
<1>16. Cardinality(Mine(s, c)) < Cap => t = kept
  BY <1>3, <1>14, SelectedAll
<1>17. q \in [Aircraft -> Nat] /\ q[c] = n + 1 /\ \A d \in Aircraft : d # c => q[d] = h.sequences[d]
  BY <1>2
<1>18. \A k \in DOMAIN t : \E i \in DOMAIN kept : t[k] = kept[i]
  BY <1>3, <1>13, SelectedAre
<1> HIDE DEF t, q
<1>19. Counted(kept, q)
  <2> SUFFICES ASSUME NEW i \in 1..(L + 1) PROVE kept[i].ordinal < q[kept[i].aircraft]
    BY <1>3 DEF Counted
  <2>1. CASE i = L + 1
    BY <1>2, <1>3, <1>17, <2>1
  <2>2. CASE i \in 1..L
    <3>1. kept[i] = s[i] /\ s[i].ordinal < h.sequences[s[i].aircraft] /\ s[i] \in R
      BY <1>2, <1>3, <2>2 DEF Counted
    <3>2. s[i].aircraft \in Aircraft /\ s[i].ordinal \in Nat
      BY <3>1 DEF IsRecords
    <3>3. s[i].aircraft = c => s[i].ordinal < n
      BY <3>1 DEF n
    <3>4. s[i].ordinal < n => s[i].ordinal < n + 1
      BY <1>2, <3>2
    <3> QED  BY <1>17, <3>1, <3>2, <3>3, <3>4
  <2> QED  BY <1>3, <2>1, <2>2
<1>20. Counted(t, q)
  BY <1>18, <1>19 DEF Counted
<1>21. b = [records |-> t, sequences |-> q] /\ b.records = t /\ b.sequences = q
  BY DEF t, q
<1> HIDE DEF b
<1>22. IsHistory(b, R)
  BY <1>15, <1>17, <1>20, <1>21 DEF IsHistory
<1>24. AddedTo(b, h, record, n, R)
  BY <1>13, <1>15, <1>16, <1>21, <1>22 DEF AddedTo, t, q, kept, new, s, c
<1> QED  BY <1>1, <1>24 DEF n, c

LEMMA ForgotAircraft ==
    ASSUME NEW R, IsRecords(R), NEW h, IsHistory(h, R), NEW c \in Aircraft
    PROVE  IsHistory(ForgetAircraft(h, c), R)
<1> DEFINE s == h.records
           P == DOMAIN s \ Mine(s, c)
           t == SelectPlaces(s, P)
           q == [h.sequences EXCEPT ![c] = 0]
           a == ForgetAircraft(h, c)
<1>1. s \in Seq(R) /\ Ascending(s) /\ Counted(s, h.sequences) /\ h.sequences \in [Aircraft -> Nat]
  BY DEF IsHistory
<1>2. a = [records |-> t, sequences |-> q] /\ a.records = t /\ a.sequences = q
  BY DEF ForgetAircraft
<1>3. P \subseteq DOMAIN s
  OBVIOUS
<1> HIDE DEF s, a
<1>4. t \in Seq(R) /\ Ascending(t) /\ \A k \in DOMAIN t : \E i \in P : t[k] = s[i]
  <2> HIDE DEF P
  <2> QED  BY <1>1, <1>3, Selected, SelectedAscend, SelectedAre
<1> HIDE DEF t
<1>5. q \in [Aircraft -> Nat] /\ \A d \in Aircraft : d # c => q[d] = h.sequences[d]
  BY <1>1
<1> HIDE DEF q
<1>6. \A i \in P : s[i].aircraft # c /\ s[i].aircraft \in Aircraft
                   /\ s[i].ordinal < h.sequences[s[i].aircraft]
  <2>1. \A i \in DOMAIN s : s[i] \in R
    BY <1>1
  <2> QED  BY <1>1, <2>1 DEF Mine, Counted, IsRecords
<1>7. Counted(t, q)
  BY <1>4, <1>5, <1>6 DEF Counted
<1>8. IsHistory(a, R)
  BY <1>2, <1>4, <1>5, <1>7 DEF IsHistory
<1> QED  BY <1>8 DEF a

\* Importing what was exported from a history changes no counter.
LEMMA ImportedIsSame ==
    ASSUME NEW R, IsRecords(R), NEW h, IsHistory(h, R)
    PROVE  ImportHistory(h) = h
<1> DEFINE s == h.records
           past(c) == {s[i].ordinal + 1 : i \in {j \in DOMAIN s : s[j].aircraft = c}}
           q == [c \in Aircraft |-> Max(past(c) \cup {h.sequences[c]})]
<1>1. s \in Seq(R) /\ Counted(s, h.sequences) /\ h.sequences \in [Aircraft -> Nat]
      /\ h = [records |-> s, sequences |-> h.sequences]
  BY DEF IsHistory
<1>2. ImportHistory(h) = [h EXCEPT !.sequences = q]
  BY DEF ImportHistory
<1> HIDE DEF s
<1>3. ASSUME NEW c \in Aircraft PROVE Max(past(c) \cup {h.sequences[c]}) = h.sequences[c]
  <2> DEFINE n == h.sequences[c]
             S == past(c) \cup {n}
  <2>1. n \in Nat
    BY <1>1
  <2>2. \A m \in S : m \in Nat /\ n >= m
    <3> SUFFICES ASSUME NEW i \in DOMAIN s, s[i].aircraft = c
                 PROVE  s[i].ordinal + 1 \in Nat /\ n >= s[i].ordinal + 1
      BY <2>1
    <3>1. s[i] \in R /\ s[i].ordinal < n
      BY <1>1 DEF Counted
    <3>2. s[i].ordinal \in Nat
      BY <3>1 DEF IsRecords
    <3> HIDE DEF n
    <3> QED  BY <2>1, <3>1, <3>2
  <2>3. n \in S
    OBVIOUS
  <2> HIDE DEF S, n
  <2>4. \A m \in S : (\A y \in S : m >= y) => m = n
    BY <2>1, <2>2, <2>3
  <2>5. Max(S) = n
    BY <2>2, <2>3, <2>4 DEF Max
  <2> QED  BY <2>5 DEF S, n
<1>4. q = h.sequences
  <2> HIDE DEF past
  <2> QED  BY <1>1, <1>3
<1> HIDE DEF q
<1>5. [h EXCEPT !.sequences = q] = h
  BY <1>1, <1>4
<1> QED  BY <1>2, <1>5
=============================================================================
