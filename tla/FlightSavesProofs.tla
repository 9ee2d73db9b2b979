---------------------------- MODULE FlightSavesProofs ----------------------------
(***************************************************************************)
(* What the pilot's history of flights promises, for any flights, any        *)
(* figures that tell them apart, any number of logs opened and saves, and    *)
(* any history found: a flight is recognised exactly, and forgetting one     *)
(* takes that one.                                                          *)
(***************************************************************************)
EXTENDS FlightComparison, FlightHistoryProofs

\* What may be stored: a flight as some open measured it, under an ordinal.
Saves == {Stored(BuildFlightRecord(f, m, t), n) : f \in Flights, m \in Opened, t \in Nat, n \in Nat}

\* What a save is told by.
Key == [r \in Saves |-> FlightOf(r)]

-----------------------------------------------------------------------------
(* The summary tells which flight a record is of.                           *)

LEMMA BuiltIs ==
    ASSUME NEW f \in Flights, NEW m \in Opened, NEW t
    PROVE  LET r == BuildFlightRecord(f, m, t)
           IN /\ FlightOf(r) = f /\ r.parts[Summary] = Figure[f][Summary]
              /\ r.aircraft = AircraftOf[f] /\ r.aircraft \in Aircraft
              /\ r.header = Header[f] /\ r.token = t
              /\ \A p \in Parts : r.parts[p] = IF p \in m THEN Figure[f][p] ELSE Absent
              /\ \A n : /\ Stored(r, n).parts = r.parts /\ Stored(r, n).aircraft = r.aircraft
                        /\ Stored(r, n).header = r.header /\ Stored(r, n).token = t
                        /\ Stored(r, n).ordinal = n /\ FlightOf(Stored(r, n)) = f
<1> DEFINE r == BuildFlightRecord(f, m, t)
<1>1. Summary \in Parts /\ AircraftOf \in [Flights -> Aircraft]
  BY FlightsAssumption
<1>2. \A g \in Flights : g # f => Figure[g][Summary] # Figure[f][Summary]
  BY FlightsAssumption
<1>3. Summary \in m
  BY DEF Opened
<1>4. /\ r.aircraft = AircraftOf[f] /\ r.header = Header[f] /\ r.token = t
      /\ r.parts = [p \in Parts |-> IF p \in m THEN Figure[f][p] ELSE Absent]
  BY DEF BuildFlightRecord
<1>5. \A n : /\ Stored(r, n).parts = r.parts /\ Stored(r, n).aircraft = r.aircraft
             /\ Stored(r, n).header = r.header /\ Stored(r, n).token = r.token
             /\ Stored(r, n).ordinal = n
  BY DEF Stored
<1> HIDE DEF r
<1>6. r.parts[Summary] = Figure[f][Summary]
  BY <1>1, <1>3, <1>4
<1>7. \A x : x.parts = r.parts => FlightOf(x) = f
  BY <1>2, <1>6 DEF FlightOf
<1> QED  BY <1>1, <1>4, <1>5, <1>6, <1>7 DEF r

LEMMA SavesAre ==
    ASSUME NEW r \in Saves
    PROVE  /\ \E f \in Flights, m \in Opened, t \in Nat, n \in Nat :
                  r = Stored(BuildFlightRecord(f, m, t), n)
           /\ FlightOf(r) \in Flights /\ r.aircraft = AircraftOf[FlightOf(r)]
           /\ r.header = Header[FlightOf(r)] /\ r.aircraft \in Aircraft
           /\ r.ordinal \in Nat /\ r.token \in Nat
           /\ r.parts[Summary] = Figure[FlightOf(r)][Summary]
           /\ \A p \in Parts : r.parts[p] \in {Absent, Figure[FlightOf(r)][p]}
<1>1. PICK f \in Flights, m \in Opened, t \in Nat, n \in Nat :
          r = Stored(BuildFlightRecord(f, m, t), n)
  BY DEF Saves
<1> QED  BY <1>1, BuiltIs

LEMMA SavesAreRecords == IsRecords(Saves)
BY SavesAre DEF IsRecords

\* A save and a record built in this process are one flight just when they truly are.
LEMMA SameIsSame ==
    ASSUME NEW l, NEW r, NEW f \in Flights, NEW g \in Flights,
           l.aircraft = AircraftOf[f], r.aircraft = AircraftOf[g],
           l.header = Header[f], r.header = Header[g],
           l.parts[Summary] = Figure[f][Summary], r.parts[Summary] = Figure[g][Summary],
           \A p \in Parts : l.parts[p] \in {Absent, Figure[f][p]} /\ r.parts[p] \in {Absent, Figure[g][p]}
    PROVE  SameStoredFlight(l, r) <=> f = g
<1>1. Summary \in Parts /\ Figure[f][Summary] # Absent /\ Figure[g][Summary] # Absent
  BY FlightsAssumption
<1>2. f # g => Figure[f][Summary] # Figure[g][Summary]
  BY FlightsAssumption
<1>3. ASSUME SameStoredFlight(l, r) PROVE f = g
  BY <1>1, <1>2, <1>3 DEF SameStoredFlight
<1>4. ASSUME f = g PROVE SameStoredFlight(l, r)
  BY <1>1, <1>4 DEF SameStoredFlight
<1> QED  BY <1>3, <1>4

LEMMA KeyTells == Key \in [Saves -> Flights] /\ Tells(Key, Saves)
<1>1. Key \in [Saves -> Flights]
  BY SavesAre DEF Key
<1>2. ASSUME NEW l \in Saves, NEW r \in Saves
      PROVE  SameStoredFlight(l, r) <=> Key[l] = Key[r]
  <2>1. SameStoredFlight(l, r) <=> FlightOf(l) = FlightOf(r)
    BY SavesAre, SameIsSame
  <2> QED  BY <2>1 DEF Key
<1> QED  BY <1>1, <1>2 DEF Tells

-----------------------------------------------------------------------------
(* The history as this program leaves it.                                  *)

LEMMA ExportedIsHistory ==
    ASSUME NEW h, IsHistory(h, Saves)
    PROVE  LET x == ExportHistory(h)
           IN /\ IsHistory(x, Saves) /\ x.sequences = h.sequences
              /\ DOMAIN x.records = DOMAIN h.records
              /\ \A i \in DOMAIN h.records : /\ x.records[i].token = NoToken
                                             /\ RecordId(x.records[i]) = RecordId(h.records[i])
                                             /\ FlightOf(x.records[i]) = FlightOf(h.records[i])
<1> DEFINE s == h.records
           t == [i \in DOMAIN s |-> [s[i] EXCEPT !.token = NoToken]]
           x == ExportHistory(h)
<1>1. /\ s \in Seq(Saves) /\ Ascending(s) /\ Counted(s, h.sequences)
      /\ h.sequences \in [Aircraft -> Nat] /\ h = [records |-> s, sequences |-> h.sequences]
  BY DEF IsHistory
<1>2. x = [h EXCEPT !.records = t]
  BY DEF ExportHistory
<1> HIDE DEF s, x
<1>3. ASSUME NEW r \in Saves
      PROVE  LET e == [r EXCEPT !.token = NoToken]
             IN /\ e \in Saves /\ e.token = NoToken /\ e.aircraft = r.aircraft
                /\ e.ordinal = r.ordinal /\ FlightOf(e) = FlightOf(r)
  <2>1. PICK f \in Flights, m \in Opened, k \in Nat, n \in Nat :
            r = Stored(BuildFlightRecord(f, m, k), n)
    BY SavesAre
  <2>2. [r EXCEPT !.token = NoToken] = Stored(BuildFlightRecord(f, m, NoToken), n)
    BY <2>1 DEF Stored, BuildFlightRecord
  <2>3. Stored(BuildFlightRecord(f, m, NoToken), n) \in Saves
    BY DEF Saves, NoToken
  <2> QED  BY <2>1, <2>2, <2>3, BuiltIs
<1>4. /\ DOMAIN s = 1..Len(s) /\ Len(s) \in Nat /\ \A i \in DOMAIN s : s[i] \in Saves
  BY <1>1
<1>5. \A i \in DOMAIN s : /\ t[i] \in Saves /\ t[i].token = NoToken /\ t[i].aircraft = s[i].aircraft
                          /\ t[i].ordinal = s[i].ordinal /\ FlightOf(t[i]) = FlightOf(s[i])
  BY <1>3, <1>4
<1>6. DOMAIN t = DOMAIN s /\ t = [i \in DOMAIN s |-> t[i]]
  OBVIOUS
<1> HIDE DEF t
<1>7. t \in Seq(Saves)
  <2> DEFINE n == Len(s)
  <2>1. n \in Nat /\ t \in [1..n -> Saves]
    BY <1>4, <1>5, <1>6
  <2> HIDE DEF n
  <2> QED  BY <2>1
<1>8. Ascending(t) /\ Counted(t, h.sequences)
  BY <1>1, <1>5, <1>6 DEF Ascending, Counted
<1>9. x = [records |-> t, sequences |-> h.sequences] /\ x.records = t /\ x.sequences = h.sequences
  BY <1>1, <1>2
<1>10. IsHistory(x, Saves)
  BY <1>1, <1>7, <1>8, <1>9 DEF IsHistory
<1> QED  BY <1>5, <1>6, <1>9, <1>10 DEF x, s, RecordId

\* A file of any earlier saves, however often a flight was saved, is a history.
LEMMA OldFileIsHistory ==
    ASSUME NEW s \in Seq(OldRecords)
    PROVE  IsHistory(OldFile(s), Saves)
<1> DEFINE L == Len(s)
           H == {h \in [records : Seq(Saves), sequences : [Aircraft -> Nat]] : IsHistory(h, Saves)}
           step == [n \in 1..L |-> [h \in H |-> AddFlightRecord(h, s[n])]]
           saved(f) == [n \in 0..L |-> IF n = 0 THEN CreateHistory ELSE AddFlightRecord(f[n - 1], s[n])]
           g == CHOOSE f : f = saved(f)
<1>1. \A h : h \in H <=> IsHistory(h, Saves)
  BY DEF IsHistory
<1> HIDE DEF H
<1>2. L \in Nat /\ CreateHistory \in H
  BY <1>1, EmptyIsHistory
<1>3. ASSUME NEW n \in 1..L, NEW h \in H PROVE AddFlightRecord(h, s[n]) \in H
  <2>1. s[n] \in OldRecords
    OBVIOUS
  <2>2. PICK f \in Flights, m \in Opened : s[n] = BuildFlightRecord(f, m, NoToken)
    BY <2>1 DEF OldRecords
  <2> DEFINE r == BuildFlightRecord(f, m, NoToken)
  <2>3. r.aircraft \in Aircraft
    BY BuiltIs
  <2>4. IsHistory(h, Saves)
    BY <1>1
  <2>5. h.sequences[r.aircraft] \in Nat
    BY <2>3, <2>4 DEF IsHistory
  <2>6. Stored(r, h.sequences[r.aircraft]) \in Saves
    BY <2>5 DEF Saves, NoToken
  <2> HIDE DEF r
  <2>7. IsHistory(AddFlightRecord(h, r), Saves)
    BY <2>3, <2>4, <2>6, SavesAreRecords, Added DEF AddedTo
  <2> QED  BY <1>1, <2>2, <2>7 DEF r
<1>4. step \in [1..L -> [H -> H]] /\ \A n \in 1..L : \A h \in H : step[n][h] = AddFlightRecord(h, s[n])
  BY <1>3
<1> HIDE DEF step
<1>5. PICK f \in [0..L -> H] : IsRun(f, L, CreateHistory, step)
  <2> HIDE DEF L
  <2> QED  BY <1>2, <1>4, Recursion
<1>6. f = saved(f)
  <2>1. \A n \in 0..L : n = 0 \/ n \in 1..L
    BY <1>2
  <2>2. \A n \in 1..L : f[n - 1] \in H
    BY <1>2, <1>5
  <2>3. \A n \in 0..L : f[n] = IF n = 0 THEN CreateHistory ELSE AddFlightRecord(f[n - 1], s[n])
    BY <1>4, <1>5, <2>1, <2>2 DEF IsRun
  <2> QED  BY <1>5, <2>3
<1>7. g = saved(g)
  <2> HIDE DEF saved
  <2> QED  BY <1>6
<1>8. OldFile(s) = ExportHistory(g[L])
  BY DEF OldFile
<1> HIDE DEF g
<1>9. g[0] = CreateHistory /\ \A n \in 1..L : g[n] = AddFlightRecord(g[n - 1], s[n])
  <2>1. \A n \in 0..L : g[n] = IF n = 0 THEN CreateHistory ELSE AddFlightRecord(g[n - 1], s[n])
    BY <1>7
  <2> QED  BY <1>2, <2>1
<1> DEFINE odd == {n \in 0..L : g[n] \notin H}
<1>10. odd = {}
  <2>1. SUFFICES ASSUME odd # {} PROVE FALSE
    OBVIOUS
  <2>2. PICK n \in odd : \A k \in odd : n <= k
    <3>1. odd \subseteq Nat
      OBVIOUS
    <3> HIDE DEF odd
    <3> QED  BY <2>1, <3>1, SmallestOfSet
  <2>3. n \in 0..L /\ g[n] \notin H /\ n # 0
    BY <1>2, <1>9
  <2>4. n \in 1..L /\ n - 1 \in 0..L /\ ~(n <= n - 1)
    BY <1>2, <2>3
  <2>5. g[n - 1] \in H
    BY <2>2, <2>4
  <2> QED  BY <1>3, <1>9, <2>3, <2>4, <2>5
<1>11. L \in 0..L
  BY <1>2
<1>12. IsHistory(g[L], Saves)
  BY <1>1, <1>10, <1>11
<1> QED  BY <1>8, <1>12, ExportedIsHistory

\* A set of numbers below a bound has a greatest.
LEMMA GreatestOfBounded ==
    ASSUME NEW S, S \subseteq Nat, S # {}, NEW n \in Nat, \A x \in S : x <= n
    PROVE  Max(S) \in S /\ \A y \in S : y <= Max(S)
<1> DEFINE below == {k \in Nat : n - k \in S}
<1>1. below \subseteq Nat /\ below # {}
  <2>1. PICK x \in S : TRUE
    OBVIOUS
  <2>2. x \in Nat /\ x <= n
    BY <2>1
  <2>3. n - x \in Nat /\ n - (n - x) = x
    BY <2>2
  <2> QED  BY <2>1, <2>3
<1>2. PICK k \in below : \A j \in below : k <= j
  <2> HIDE DEF below
  <2> QED  BY <1>1, SmallestOfSet
<1>3. n - k \in S /\ k \in Nat
  BY <1>2
<1>4. \A y \in S : n - k >= y
  <2> TAKE y \in S
  <2>1. y \in Nat /\ y <= n
    OBVIOUS
  <2>2. n - y \in below
    BY <2>1
  <2> QED  BY <1>2, <1>3, <2>1, <2>2
<1>5. \E x \in S : \A y \in S : x >= y
  BY <1>3, <1>4
<1>6. Max(S) \in S /\ \A y \in S : Max(S) >= y
  BY <1>5 DEF Max
<1> QED  BY <1>6

\* Read back, a history whose counters were lost has counters past its records.
LEMMA CountersAreFound ==
    ASSUME NEW h, IsHistory(h, Saves), NEW lost
    PROVE  LET x == ImportHistory(WithoutCounters(h, lost))
           IN IsHistory(x, Saves) /\ x.records = h.records
<1> DEFINE s == h.records
           file == WithoutCounters(h, lost)
           past(c) == {s[i].ordinal + 1 : i \in {j \in DOMAIN s : s[j].aircraft = c}}
           S(c) == past(c) \cup {file.sequences[c]}
           q == [c \in Aircraft |-> Max(S(c))]
<1>1. /\ s \in Seq(Saves) /\ Ascending(s) /\ Counted(s, h.sequences)
      /\ h.sequences \in [Aircraft -> Nat] /\ h = [records |-> s, sequences |-> h.sequences]
  BY DEF IsHistory
<1>2. /\ file = [records |-> s, sequences |-> file.sequences] /\ file.records = s
      /\ \A c \in Aircraft : file.sequences[c] \in Nat /\ file.sequences[c] <= h.sequences[c]
  <2> DEFINE t == [c \in Aircraft |-> IF c \in lost THEN 0 ELSE h.sequences[c]]
  <2>1. file = [h EXCEPT !.sequences = t]
    BY DEF WithoutCounters
  <2>2. \A c \in Aircraft : t[c] \in Nat /\ t[c] <= h.sequences[c]
    BY <1>1
  <2> HIDE DEF t, file, s
  <2>3. file = [records |-> s, sequences |-> t]
    BY <1>1, <2>1
  <2> QED  BY <2>2, <2>3
<1> HIDE DEF s, file
<1>3. ImportHistory(file) = [records |-> s, sequences |-> q]
  <2>1. ImportHistory(file) = [file EXCEPT !.sequences = q]
    BY <1>2 DEF ImportHistory
  <2> HIDE DEF q
  <2> QED  BY <1>2, <2>1
<1>4. \A i \in DOMAIN s : s[i].ordinal \in Nat /\ s[i].aircraft \in Aircraft
                         /\ s[i].ordinal + 1 <= h.sequences[s[i].aircraft]
  <2> TAKE i \in DOMAIN s
  <2>1. s[i] \in Saves /\ s[i].ordinal < h.sequences[s[i].aircraft]
    BY <1>1 DEF Counted
  <2>2. s[i].ordinal \in Nat /\ s[i].aircraft \in Aircraft
    BY <2>1, SavesAre
  <2> DEFINE n == h.sequences[s[i].aircraft]
  <2>3. n \in Nat /\ s[i].ordinal < n
    BY <1>1, <2>1, <2>2
  <2> HIDE DEF n
  <2>4. s[i].ordinal + 1 <= n
    BY <2>2, <2>3
  <2> QED  BY <2>2, <2>4 DEF n
<1>5. ASSUME NEW c \in Aircraft PROVE Max(S(c)) \in Nat /\ \A y \in S(c) : y <= Max(S(c))
  <2> DEFINE n == h.sequences[c]
  <2>1. n \in Nat /\ file.sequences[c] \in Nat /\ file.sequences[c] <= n
    BY <1>1, <1>2
  <2>2. \A y \in S(c) : y \in Nat /\ y <= n
    BY <1>4, <2>1
  <2>3. S(c) \subseteq Nat /\ S(c) # {}
    BY <2>2
  <2> HIDE DEF S, n
  <2> QED  BY <2>1, <2>2, <2>3, GreatestOfBounded
<1>6. q \in [Aircraft -> Nat]
  BY <1>5
<1>7. Counted(s, q)
  <2> SUFFICES ASSUME NEW i \in DOMAIN s PROVE s[i].ordinal < q[s[i].aircraft]
    BY DEF Counted
  <2> DEFINE c == s[i].aircraft
  <2>1. c \in Aircraft /\ s[i].ordinal \in Nat /\ s[i].ordinal + 1 \in S(c)
    BY <1>4
  <2>2. q[c] \in Nat /\ s[i].ordinal + 1 <= q[c]
    BY <1>5, <2>1
  <2> HIDE DEF q, c
  <2>3. s[i].ordinal < q[c]
    BY <2>1, <2>2
  <2> QED  BY <2>3 DEF c
<1> HIDE DEF q
<1>8. IsHistory(ImportHistory(file), Saves) /\ ImportHistory(file).records = s
  BY <1>1, <1>3, <1>6, <1>7 DEF IsHistory
<1> QED  BY <1>8 DEF file, s

-----------------------------------------------------------------------------
(* The invariant.  A token in the history is of a decode that was, and the  *)
(* candidate's is on no other flight; every id given out is below its        *)
(* aircraft's counter, so the next one is new.                              *)

TokensInv ==
    /\ opens \in Nat
    /\ \A i \in DOMAIN hist.records : hist.records[i].token <= opens
    /\ cand # NoRecord =>
           /\ \E f \in Flights, m \in Opened, t \in 1..opens : cand = BuildFlightRecord(f, m, t)
           /\ \A i \in DOMAIN hist.records :
                  hist.records[i].token = cand.token => FlightOf(hist.records[i]) = FlightOf(cand)

Issued(x) ==
    \E c \in Aircraft, n \in Nat, f \in Flights : x = <<<<c, n>>, f>> /\ n < hist.sequences[c]

IssuedInv == (\A x \in issued : Issued(x)) /\ IdsAreNotReused

SavesInv == IsHistory(hist, Saves) /\ TokensInv /\ IssuedInv

LEMMA HistoryIs ==
    ASSUME IsHistory(hist, Saves)
    PROVE  /\ hist.records \in Seq(Saves) /\ Ascending(hist.records)
           /\ \A i \in DOMAIN hist.records : hist.records[i] \in Saves
           /\ hist.sequences \in [Aircraft -> Nat]
           /\ \A i \in DOMAIN hist.records :
                  hist.records[i].ordinal < hist.sequences[hist.records[i].aircraft]
BY DEF IsHistory, Counted

LEMMA SavesInvInit == Init => SavesInv
<1> SUFFICES ASSUME Init PROVE SavesInv
  OBVIOUS
<1>1. PICK n \in 0..MaxOld : \E s \in [1..n -> OldRecords], lost \in SUBSET Aircraft :
          hist = ImportHistory(WithoutCounters(OldFile(s), lost))
  BY DEF Init
<1>2. PICK s \in [1..n -> OldRecords], lost \in SUBSET Aircraft :
          hist = ImportHistory(WithoutCounters(OldFile(s), lost))
  BY <1>1
<1>3. s \in Seq(OldRecords)
  OBVIOUS
<1>4. IsHistory(OldFile(s), Saves)
  BY <1>3, OldFileIsHistory
<1>5. IsHistory(hist, Saves) /\ hist.records = OldFile(s).records
  BY <1>2, <1>4, CountersAreFound
<1>6. \A i \in DOMAIN hist.records : hist.records[i].token = NoToken
  <2> DEFINE saved == CHOOSE f : f = [k \in 0..Len(s) |->
                          IF k = 0 THEN CreateHistory ELSE AddFlightRecord(f[k - 1], s[k])]
             before == saved[Len(s)]
  <2>1. OldFile(s) = ExportHistory(before)
    BY DEF OldFile
  <2> HIDE DEF before
  <2>2. hist.records = [i \in DOMAIN before.records |-> [before.records[i] EXCEPT !.token = NoToken]]
    <3>1. IsHistory(ExportHistory(before), Saves)
      BY <1>4, <2>1
    <3>2. ExportHistory(before) =
              [before EXCEPT !.records =
                  [i \in DOMAIN before.records |-> [before.records[i] EXCEPT !.token = NoToken]]]
      BY DEF ExportHistory
    <3>3. DOMAIN ExportHistory(before) = {"records", "sequences"}
      BY <3>1 DEF IsHistory
    <3>4. "records" \in DOMAIN before
      BY <3>2, <3>3
    <3> QED  BY <1>5, <2>1, <3>2, <3>4
  <2>3. \A i \in DOMAIN hist.records :
            hist.records[i] \in Saves /\ "token" \in DOMAIN hist.records[i]
    <3>1. \A i \in DOMAIN hist.records : hist.records[i] \in Saves
      BY <1>4, <1>5, HistoryIs
    <3>2. \A r \in Saves : "token" \in DOMAIN r
      BY DEF Saves, Stored
    <3> QED  BY <3>1, <3>2
  <2> QED  BY <2>2, <2>3
<1>7. TokensInv
  <2>1. opens = 0 /\ cand = NoRecord
    BY DEF Init
  <2> QED  BY <1>6, <2>1 DEF TokensInv, NoToken
<1>8. IsHistory(hist, Saves)
  BY <1>5
<1>9. issued = {<<RecordId(hist.records[i]), FlightOf(hist.records[i])>> : i \in DOMAIN hist.records}
  BY DEF Init
<1>10. \A x \in issued : Issued(x)
  <2> SUFFICES ASSUME NEW i \in DOMAIN hist.records
               PROVE  Issued(<<RecordId(hist.records[i]), FlightOf(hist.records[i])>>)
    BY <1>9
  <2> DEFINE r == hist.records[i]
  <2>1. r \in Saves /\ r.ordinal < hist.sequences[r.aircraft]
    BY <1>8, HistoryIs
  <2> HIDE DEF r
  <2>2. r.aircraft \in Aircraft /\ r.ordinal \in Nat /\ FlightOf(r) \in Flights
    BY <2>1, SavesAre
  <2>3. Issued(<<RecordId(r), FlightOf(r)>>)
    BY <2>1, <2>2 DEF Issued, RecordId
  <2> QED  BY <2>3 DEF r
<1>11. IdsAreNotReused
  <2> SUFFICES ASSUME NEW i \in DOMAIN hist.records, NEW j \in DOMAIN hist.records,
                      RecordId(hist.records[i]) = RecordId(hist.records[j])
               PROVE  FlightOf(hist.records[i]) = FlightOf(hist.records[j])
    BY <1>9 DEF IdsAreNotReused
  <2>1. i = j
    BY <1>8, HistoryIs, SavesAreRecords, OrdinalsAreDistinct
  <2> QED  BY <2>1
<1> QED  BY <1>7, <1>8, <1>10, <1>11 DEF SavesInv, IssuedInv

\* A history of which only records went, its counters as they were.
LEMMA FewerKeep ==
    ASSUME SavesInv, IsHistory(hist', Saves), hist'.sequences = hist.sequences,
           \A k \in DOMAIN hist'.records : \E i \in DOMAIN hist.records : hist'.records[k] = hist.records[i],
           UNCHANGED <<cand, opens, issued>>
    PROVE  SavesInv'
<1>1. TokensInv'
  BY DEF SavesInv, TokensInv
<1>2. IssuedInv'
  BY DEF SavesInv, IssuedInv, Issued, IdsAreNotReused
<1> QED  BY <1>1, <1>2 DEF SavesInv

LEMMA OpenKeeps ==
    ASSUME SavesInv, NEW f \in Flights, NEW m \in Opened, Open(f, m)
    PROVE  SavesInv'
<1>1. /\ opens' = opens + 1 /\ cand' = BuildFlightRecord(f, m, opens')
      /\ hist' = hist /\ issued' = issued /\ opens \in Nat
  BY DEF Open, SavesInv, TokensInv
<1>2. opens' \in 1..opens' /\ cand'.token = opens'
  BY <1>1, BuiltIs
<1>3. \A i \in DOMAIN hist.records : hist.records[i].token \in Nat /\ hist.records[i].token <= opens
  BY HistoryIs, SavesAre DEF SavesInv, TokensInv
<1>4. TokensInv'
  <2>1. \A i \in DOMAIN hist'.records : hist'.records[i].token <= opens' /\ hist'.records[i].token # cand'.token
    BY <1>1, <1>2, <1>3
  <2> QED  BY <1>1, <1>2, <2>1 DEF TokensInv
<1>5. IssuedInv' /\ IsHistory(hist', Saves)
  BY <1>1 DEF SavesInv, IssuedInv, Issued, IdsAreNotReused
<1> QED  BY <1>4, <1>5 DEF SavesInv

\* The candidate is as some open of its flight made it.
LEMMA CandidateIs ==
    ASSUME SavesInv, cand # NoRecord
    PROVE  /\ \E m \in Opened, t \in 1..opens : cand = BuildFlightRecord(FlightOf(cand), m, t)
           /\ FlightOf(cand) \in Flights /\ cand.token \in 1..opens /\ opens \in Nat
           /\ cand.aircraft = AircraftOf[FlightOf(cand)] /\ cand.aircraft \in Aircraft
           /\ cand.header = Header[FlightOf(cand)]
           /\ cand.parts[Summary] = Figure[FlightOf(cand)][Summary]
           /\ \A p \in Parts : cand.parts[p] \in {Absent, Figure[FlightOf(cand)][p]}
           /\ \A n : Stored(cand, n).aircraft = cand.aircraft /\ Stored(cand, n).ordinal = n
                     /\ Stored(cand, n).token = cand.token /\ FlightOf(Stored(cand, n)) = FlightOf(cand)
           /\ \A n \in Nat : Stored(cand, n) \in Saves
<1>1. PICK f \in Flights, m \in Opened, t \in 1..opens : cand = BuildFlightRecord(f, m, t)
  BY DEF SavesInv, TokensInv
<1>2. opens \in Nat /\ t \in Nat
  BY DEF SavesInv, TokensInv
<1>3. \A n \in Nat : Stored(cand, n) \in Saves
  BY <1>1, <1>2 DEF Saves
<1> QED  BY <1>1, <1>2, <1>3, BuiltIs

LEMMA ReanalyseKeeps ==
    ASSUME SavesInv, NEW m \in Opened, Reanalyse(m)
    PROVE  SavesInv'
<1> DEFINE f == FlightOf(cand)
<1>1. /\ cand # NoRecord /\ cand' = BuildFlightRecord(f, m, cand.token)
      /\ hist' = hist /\ opens' = opens /\ issued' = issued
  BY DEF Reanalyse
<1>2. f \in Flights /\ cand.token \in 1..opens
  BY <1>1, CandidateIs
<1> HIDE DEF f
<1>3. FlightOf(cand') = f /\ cand'.token = cand.token
  BY <1>1, <1>2, BuiltIs
<1>4. TokensInv'
  BY <1>1, <1>2, <1>3 DEF SavesInv, TokensInv, f
<1>5. IssuedInv' /\ IsHistory(hist', Saves)
  BY <1>1 DEF SavesInv, IssuedInv, Issued, IdsAreNotReused
<1> QED  BY <1>4, <1>5 DEF SavesInv

LEMMA SaveKeeps ==
    ASSUME SavesInv, Save
    PROVE  SavesInv'
<1> DEFINE c == cand.aircraft
           n == hist.sequences[c]
           new == Stored(cand, n)
           kept == Append(hist.records, new)
<1>1. /\ cand # NoRecord /\ hist' = AddFlightRecord(hist, cand) /\ cand' = cand /\ opens' = opens
      /\ issued' = issued \cup {<<RecordId(hist'.records[Len(hist'.records)]), FlightOf(cand)>>}
  BY DEF Save
<1>2. /\ hist.records \in Seq(Saves) /\ hist.sequences \in [Aircraft -> Nat]
      /\ IsHistory(hist, Saves)
  BY HistoryIs DEF SavesInv
<1>3. c \in Aircraft /\ n \in Nat /\ new \in Saves /\ new.aircraft = c /\ new.ordinal = n
      /\ new.token = cand.token /\ FlightOf(new) = FlightOf(cand)
      /\ FlightOf(cand) \in Flights /\ cand.token \in 1..opens /\ opens \in Nat
  BY <1>1, <1>2, CandidateIs
<1>4. /\ IsHistory(hist', Saves) /\ hist'.sequences = [hist.sequences EXCEPT ![c] = n + 1]
      /\ hist'.records[Len(hist'.records)] = new
      /\ \E places : /\ places \subseteq DOMAIN kept /\ Len(kept) \in places
                     /\ hist'.records = SelectPlaces(kept, places)
  <2>1. AddedTo(AddFlightRecord(hist, cand), hist, cand, n, Saves)
    BY <1>2, <1>3, SavesAreRecords, Added
  <2> QED  BY <1>1, <2>1 DEF AddedTo
<1> HIDE DEF new, n, c
<1>5. PICK places : places \subseteq DOMAIN kept /\ hist'.records = SelectPlaces(kept, places)
  BY <1>4
<1>6. /\ kept \in Seq(Saves) /\ \A i \in DOMAIN kept : i \in DOMAIN hist.records \/ kept[i] = new
      /\ \A i \in DOMAIN hist.records : kept[i] = hist.records[i]
  BY <1>2, <1>3, AppendProperties
<1> HIDE DEF kept
<1>7. \A k \in DOMAIN hist'.records :
          hist'.records[k] = new \/ \E i \in DOMAIN hist.records : hist'.records[k] = hist.records[i]
  <2>1. \A k \in DOMAIN hist'.records : \E i \in places : hist'.records[k] = kept[i]
    BY <1>5, <1>6, SelectedAre
  <2> QED  BY <1>5, <1>6, <2>1
<1>8. TokensInv'
  <2>1. \A k \in DOMAIN hist'.records :
            /\ hist'.records[k].token <= opens
            /\ hist'.records[k].token = cand.token => FlightOf(hist'.records[k]) = FlightOf(cand)
    BY <1>1, <1>3, <1>7 DEF SavesInv, TokensInv
  <2> QED  BY <1>1, <2>1 DEF SavesInv, TokensInv
<1>9. hist'.sequences[c] = n + 1 /\ \A d \in Aircraft : d # c => hist'.sequences[d] = hist.sequences[d]
  BY <1>2, <1>3, <1>4
<1>10. issued' = issued \cup {<<<<c, n>>, FlightOf(cand)>>}
  BY <1>1, <1>3, <1>4 DEF RecordId
<1>11. ASSUME NEW x \in issued
       PROVE  \E d \in Aircraft, k \in Nat, f \in Flights :
                  x = <<<<d, k>>, f>> /\ k < hist'.sequences[d] /\ (d = c => k < n)
  <2>1. PICK d \in Aircraft, k \in Nat, f \in Flights : x = <<<<d, k>>, f>> /\ k < hist.sequences[d]
    BY DEF SavesInv, IssuedInv, Issued
  <2>2. d = c => k < n /\ k < n + 1
    BY <1>3, <2>1 DEF n
  <2> QED  BY <1>9, <2>1, <2>2
<1>12. \A x \in issued' : Issued(x)'
  <2> DEFINE Fine(x) == \E d \in Aircraft, k \in Nat, f \in Flights :
                            x = <<<<d, k>>, f>> /\ k < hist'.sequences[d]
  <2>1. Fine(<<<<c, n>>, FlightOf(cand)>>)
    <3>1. n < hist'.sequences[c]
      BY <1>3, <1>9
    <3> QED  BY <1>3, <3>1
  <2>2. \A x \in issued : Fine(x)
    BY <1>11
  <2> HIDE DEF Fine
  <2>3. \A x \in issued' : Fine(x)
    BY <1>10, <2>1, <2>2
  <2> QED  BY <2>3 DEF Issued, Fine
<1>13. IdsAreNotReused'
  <2>1. \A x \in issued : x[1] # <<c, n>>
    BY <1>3, <1>11
  <2>2. \A x, y \in issued : x[1] = y[1] => x[2] = y[2]
    BY DEF SavesInv, IssuedInv, IdsAreNotReused
  <2> QED  BY <1>10, <2>1, <2>2 DEF IdsAreNotReused
<1> QED  BY <1>4, <1>8, <1>12, <1>13 DEF SavesInv, IssuedInv

\* Forgetting in this program's history.
LEMMA ForgetTakesHere ==
    ASSUME IsHistory(hist, Saves), NEW id
    PROVE  ForgetSavesOfFlight(hist, id) =
               [hist EXCEPT !.records = SelectPlaces(hist.records, OtherFlights(Key, hist.records, id))]
<1>1. hist.records \in Seq(Saves) /\ Ascending(hist.records)
  BY HistoryIs
<1>2. IsRecords(Saves) /\ Key \in [Saves -> Flights] /\ Tells(Key, Saves)
  BY SavesAreRecords, KeyTells
<1> HIDE DEF Key, Saves
<1> QED  BY <1>1, <1>2, ForgetTakes

LEMMA ForgetFlightKeeps ==
    ASSUME SavesInv, NEW id, ForgetFlight(id)
    PROVE  SavesInv'
<1> DEFINE rs == hist.records
           places == OtherFlights(Key, rs, id)
<1>1. rs \in Seq(Saves) /\ Ascending(rs) /\ IsHistory(hist, Saves)
  BY HistoryIs DEF SavesInv
<1>2. hist' = [hist EXCEPT !.records = SelectPlaces(rs, places)] /\ UNCHANGED <<cand, opens, issued>>
  BY <1>1, ForgetTakesHere DEF ForgetFlight
<1>3. places \subseteq DOMAIN rs
  BY DEF OtherFlights
<1> HIDE DEF places
<1>4. hist = [records |-> rs, sequences |-> hist.sequences]
  BY <1>1 DEF IsHistory
<1>5. hist' = [hist EXCEPT !.records = SelectPlaces(@, places)]
      /\ hist'.records = SelectPlaces(rs, places) /\ hist'.sequences = hist.sequences
  BY <1>2, <1>4
<1>6. IsHistory(hist', Saves)
  BY <1>1, <1>3, <1>5, SavesAreRecords, SelectedIsHistory
<1>7. \A k \in DOMAIN hist'.records : \E i \in DOMAIN rs : hist'.records[k] = rs[i]
  BY <1>1, <1>3, <1>5, SelectedAre
<1> QED  BY <1>2, <1>5, <1>6, <1>7, FewerKeep

LEMMA ForgetMachineKeeps ==
    ASSUME SavesInv, NEW c \in Aircraft, ForgetMachine(c)
    PROVE  SavesInv'
<1> DEFINE rs == hist.records
           places == DOMAIN rs \ Mine(rs, c)
<1>1. rs \in Seq(Saves) /\ IsHistory(hist, Saves) /\ hist.sequences \in [Aircraft -> Nat]
  BY HistoryIs DEF SavesInv
<1>2. hist' = ForgetAircraft(hist, c) /\ cand' = cand /\ opens' = opens
      /\ issued' = {x \in issued : x[1][1] # c}
  BY DEF ForgetMachine
<1>3. IsHistory(hist', Saves)
  BY <1>1, <1>2, ForgotAircraft, SavesAreRecords
<1>4. hist'.records = SelectPlaces(rs, places) /\ hist'.sequences = [hist.sequences EXCEPT ![c] = 0]
  BY <1>2 DEF ForgetAircraft
<1>5. \A k \in DOMAIN hist'.records : \E i \in DOMAIN rs : hist'.records[k] = rs[i]
  <2>1. places \subseteq DOMAIN rs
    OBVIOUS
  <2> HIDE DEF places
  <2> QED  BY <1>1, <1>4, <2>1, SelectedAre
<1>6. TokensInv'
  BY <1>2, <1>5 DEF SavesInv, TokensInv
<1>7. \A d \in Aircraft : d # c => hist'.sequences[d] = hist.sequences[d]
  BY <1>1, <1>4
<1>8. \A x \in issued' : Issued(x)'
  <2> SUFFICES ASSUME NEW x \in issued, x[1][1] # c PROVE Issued(x)'
    BY <1>2
  <2>1. PICK d \in Aircraft, k \in Nat, f \in Flights : x = <<<<d, k>>, f>> /\ k < hist.sequences[d]
    BY DEF SavesInv, IssuedInv, Issued
  <2> QED  BY <1>7, <2>1 DEF Issued
<1>9. IdsAreNotReused'
  BY <1>2 DEF SavesInv, IssuedInv, IdsAreNotReused
<1> QED  BY <1>3, <1>6, <1>8, <1>9 DEF SavesInv, IssuedInv

LEMMA ForgetEverythingKeeps ==
    ASSUME SavesInv, ForgetEverything
    PROVE  SavesInv'
<1>1. hist' = CreateHistory /\ issued' = {} /\ cand' = cand /\ opens' = opens
  BY DEF ForgetEverything
<1>2. IsHistory(hist', Saves)
  BY <1>1, EmptyIsHistory
<1>3. DOMAIN hist'.records = {}
  BY <1>1 DEF CreateHistory
<1>4. TokensInv'
  BY <1>1, <1>3 DEF SavesInv, TokensInv
<1>5. IssuedInv'
  BY <1>1 DEF IssuedInv, IdsAreNotReused
<1> QED  BY <1>2, <1>4, <1>5 DEF SavesInv

LEMMA RestartKeeps ==
    ASSUME SavesInv, Restart
    PROVE  SavesInv'
<1>1. hist' = ImportHistory(ExportHistory(hist)) /\ cand' = NoRecord /\ opens' = opens
      /\ issued' = issued
  BY DEF Restart
<1>2. IsHistory(hist, Saves)
  BY DEF SavesInv
<1>3. hist' = ExportHistory(hist)
  BY <1>1, <1>2, ExportedIsHistory, ImportedIsSame, SavesAreRecords
<1>4. /\ IsHistory(hist', Saves) /\ hist'.sequences = hist.sequences
      /\ \A i \in DOMAIN hist'.records : hist'.records[i].token = NoToken
  BY <1>2, <1>3, ExportedIsHistory
<1>5. TokensInv'
  BY <1>1, <1>4 DEF SavesInv, TokensInv, NoToken
<1>6. IssuedInv'
  BY <1>1, <1>4 DEF SavesInv, IssuedInv, Issued, IdsAreNotReused
<1> QED  BY <1>4, <1>5, <1>6 DEF SavesInv

LEMMA SavesInvStep == SavesInv /\ [Next]_vars => SavesInv'
<1> SUFFICES ASSUME SavesInv, [Next]_vars PROVE SavesInv'
  OBVIOUS
<1>1. CASE UNCHANGED vars
  BY <1>1 DEF vars, SavesInv, TokensInv, IssuedInv, Issued, IdsAreNotReused
<1> QED
  BY <1>1, OpenKeeps, ReanalyseKeeps, SaveKeeps, ForgetFlightKeeps, ForgetMachineKeeps,
     ForgetEverythingKeeps, RestartKeeps DEF Next

LEMMA SavesInvHolds == Spec => []SavesInv
BY SavesInvInit, SavesInvStep, PTL DEF Spec

-----------------------------------------------------------------------------
(* What is forgotten, and what is recognised.                              *)

\* A Forget names one flight for good, and all of that flight goes and nothing else
\* (forgetSavesOfFlight, createHistory's sequences).
THEOREM ForgettingIsExact == Spec => []ForgetMeansTheFlight
<1>1. ASSUME SavesInv PROVE ForgetTakesTheFlight
  <2> DEFINE rs == hist.records
  <2> SUFFICES ASSUME NEW i \in DOMAIN rs
               PROVE  ForgetSavesOfFlight(hist, RecordId(rs[i])).records =
                          SelectPlaces(rs, {j \in DOMAIN rs : FlightOf(rs[j]) # FlightOf(rs[i])})
    BY DEF ForgetTakesTheFlight
  <2> DEFINE id == RecordId(rs[i])
             others == OtherFlights(Key, rs, id)
  <2>1. IsHistory(hist, Saves)
    BY <1>1 DEF SavesInv
  <2>2. rs \in Seq(Saves) /\ Ascending(rs) /\ \A j \in DOMAIN rs : rs[j] \in Saves
    BY <2>1, HistoryIs
  <2>3. hist = [records |-> rs, sequences |-> hist.sequences]
    BY <2>1 DEF IsHistory
  <2>4. ForgetSavesOfFlight(hist, id) = [hist EXCEPT !.records = SelectPlaces(rs, others)]
    BY <2>1, ForgetTakesHere
  <2> HIDE DEF others
  <2>5. ForgetSavesOfFlight(hist, id).records = SelectPlaces(rs, others)
    BY <2>3, <2>4
  <2>6. \A j \in DOMAIN rs : RecordId(rs[j]) = id <=> j = i
    BY <2>2, SavesAreRecords, OrdinalsAreDistinct
  <2>7. \A j \in DOMAIN rs : Key[rs[j]] = FlightOf(rs[j])
    BY <2>2 DEF Key
  <2>8. others = {j \in DOMAIN rs : FlightOf(rs[j]) # FlightOf(rs[i])}
    BY <2>6, <2>7 DEF others, OtherFlights
  <2> QED  BY <2>5, <2>8
<1>2. SavesInv => ForgetMeansTheFlight
  BY <1>1 DEF SavesInv, IssuedInv, ForgetMeansTheFlight
<1> QED  BY <1>2, SavesInvHolds, PTL

LEMMA CandidateFound ==
    ASSUME SavesInv, cand # NoRecord
    PROVE  BaselineIs(SelectBaseline(hist, cand), hist.records, cand.aircraft, Key, FlightOf(cand))
<1> DEFINE kc == FlightOf(cand)
<1>1. hist.records \in Seq(Saves) /\ Ascending(hist.records)
      /\ \A i \in DOMAIN hist.records : hist.records[i] \in Saves
  BY HistoryIs DEF SavesInv
<1>2. IsRecords(Saves) /\ Tells(Key, Saves)
  BY SavesAreRecords, KeyTells
<1>3. \A r \in Saves : SameStoredFlight(r, cand) <=> Key[r] = kc
  <2> TAKE r \in Saves
  <2> DEFINE f == FlightOf(r)
             g == FlightOf(cand)
  <2>1. /\ g \in Flights /\ cand.aircraft = AircraftOf[g] /\ cand.header = Header[g]
        /\ cand.parts[Summary] = Figure[g][Summary]
        /\ \A p \in Parts : cand.parts[p] \in {Absent, Figure[g][p]}
    BY CandidateIs
  <2>2. /\ f \in Flights /\ r.aircraft = AircraftOf[f] /\ r.header = Header[f]
        /\ r.parts[Summary] = Figure[f][Summary]
        /\ \A p \in Parts : r.parts[p] \in {Absent, Figure[f][p]}
    BY SavesAre
  <2> HIDE DEF f, g
  <2>3. SameStoredFlight(r, cand) <=> f = g
    BY <2>1, <2>2, SameIsSame
  <2> QED  BY <2>3 DEF Key, f, g
<1>4. \A i \in DOMAIN hist.records :
          IsSameFlight(hist.records[i], cand) => Key[hist.records[i]] = kc
  BY <1>1 DEF IsSameFlight, SavesInv, TokensInv, Key
<1> HIDE DEF kc
<1>5. Matches(cand, kc, Key, Saves, hist.records)
  BY <1>3, <1>4 DEF Matches
<1>6. BaselineIs(SelectBaseline(hist, cand), hist.records, cand.aircraft, Key, kc)
  BY <1>1, <1>2, <1>5, BaselineFound
<1> QED  BY <1>6 DEF kc

\* A candidate is recognised exactly when its flight is stored, whatever each open
\* measured, and its baseline is the newest flight first saved before it
\* (selectBaseline, sameStoredFlight, flightsOf).
THEOREM FlightsAreRecognised == Spec => []RecognitionIsExact
<1>1. ASSUME SavesInv, cand # NoRecord
      PROVE  RecognitionIsExact
  <2> DEFINE rs == hist.records
             f == FlightOf(cand)
             first == {i \in DOMAIN rs : \A k \in 1..(i - 1) : Key[rs[k]] # Key[rs[i]]}
             mine == {i \in first : Key[rs[i]] = f}
             truly == {i \in DOMAIN rs : FlightOf(rs[i]) = f /\ TrueFirst(i)}
             Others(e) == {i \in first : rs[i].aircraft = cand.aircraft /\ i < e}
             Truly(e) == {i \in DOMAIN rs : rs[i].aircraft = cand.aircraft /\ i < e /\ TrueFirst(i)}
  <2>1. /\ \A i \in DOMAIN rs : rs[i] \in Saves /\ Key[rs[i]] = FlightOf(rs[i])
        /\ \A i \in DOMAIN rs : \A k \in 1..(i - 1) : k \in DOMAIN rs
    <3>1. rs \in Seq(Saves)
      BY <1>1, HistoryIs DEF SavesInv
    <3> QED  BY <3>1 DEF Key
  <2>2. \A i \in DOMAIN rs : i \in first <=> TrueFirst(i)
    BY <2>1 DEF TrueFirst
  <2> HIDE DEF first
  <2>3. first \subseteq DOMAIN rs
    BY DEF first
  <2>4. mine = truly /\ \A e : Others(e) = Truly(e)
    BY <2>1, <2>2, <2>3
  <2> DEFINE end == IF mine = {} THEN Len(rs) + 1 ELSE Min(mine)
  <2>5. SelectBaseline(hist, cand) =
            [storedAs |-> IF mine = {} THEN NoRecord ELSE rs[Min(mine)],
             baseline |-> IF Others(end) = {} THEN NoRecord ELSE rs[Max(Others(end))]]
    BY <1>1, CandidateFound DEF BaselineIs, first
  <2> HIDE DEF mine, truly, Others, Truly
  <2>6. SelectBaseline(hist, cand) =
            [storedAs |-> IF truly = {} THEN NoRecord ELSE rs[Min(truly)],
             baseline |-> IF Truly(IF truly = {} THEN Len(rs) + 1 ELSE Min(truly)) = {} THEN NoRecord
                          ELSE rs[Max(Truly(IF truly = {} THEN Len(rs) + 1 ELSE Min(truly)))]]
    BY <2>4, <2>5
  <2> QED  BY <2>6, Zenon DEF RecognitionIsExact, truly, Truly
<1>2. SavesInv => RecognitionIsExact
  BY <1>1 DEF RecognitionIsExact
<1> QED  BY <1>2, SavesInvHolds, PTL
-----------------------------------------------------------------------------
(* What a comparison credits.                                              *)

LEMMA LargestOfSome ==
    ASSUME NEW n \in Nat, NEW S, S \subseteq 1..n, S # {}
    PROVE  Max(S) \in S
<1> DEFINE T == {k \in Nat : n - k \in S}
<1>1. PICK x \in S : TRUE
  OBVIOUS
<1>2. n - x \in T
  <2>1. n - x \in Nat /\ n - (n - x) = x
    OBVIOUS
  <2> QED  BY <1>1, <2>1
<1>3. PICK m \in T : \A k \in T : m <= k
  BY <1>2, SmallestOfSet
<1>4. n - m \in S
  OBVIOUS
<1>5. ASSUME NEW y \in S PROVE n - m >= y
  <2>1. n - y \in Nat /\ n - (n - y) = y
    OBVIOUS
  <2>2. n - y \in T
    BY <2>1
  <2> QED  BY <1>3, <2>1, <2>2
<1> HIDE DEF T
<1>6. \E y \in S : \A z \in S : y >= z
  BY <1>4, <1>5
<1> QED  BY <1>6 DEF Max

\* A baseline is a stored save of another flight.
LEMMA BaselineIsAnother ==
    ASSUME NEW S, NEW rs \in Seq(S), NEW c, NEW key, NEW kc, NEW found,
           BaselineIs(found, rs, c, key, kc), found.baseline # NoRecord
    PROVE  \E i \in DOMAIN rs : found.baseline = rs[i] /\ key[rs[i]] # kc
<1> DEFINE first == {i \in DOMAIN rs : \A k \in 1..(i - 1) : key[rs[k]] # key[rs[i]]}
           mine == {i \in first : key[rs[i]] = kc}
           end == IF mine = {} THEN Len(rs) + 1 ELSE Min(mine)
           others == {i \in first : rs[i].aircraft = c /\ i < end}
<1>1. found = [storedAs |-> IF mine = {} THEN NoRecord ELSE rs[Min(mine)],
               baseline |-> IF others = {} THEN NoRecord ELSE rs[Max(others)]]
  BY DEF BaselineIs
<1>2. Len(rs) \in Nat /\ first \subseteq 1..Len(rs)
  OBVIOUS
<1> HIDE DEF first
<1>3. others # {} /\ found.baseline = rs[Max(others)] /\ others \subseteq 1..Len(rs)
  BY <1>1, <1>2
<1>4. Max(others) \in others
  <2> HIDE DEF others
  <2> QED  BY <1>2, <1>3, LargestOfSome
<1> DEFINE o == Max(others)
<1>5. o \in first /\ o < end /\ found.baseline = rs[o]
  BY <1>3, <1>4
<1> HIDE DEF o, others
<1>6. o \in DOMAIN rs /\ o \in Nat
  BY <1>2, <1>5
<1>7. mine # {} => \A n \in mine : end <= n
  <2> HAVE mine # {}
  <2>1. end = Min(mine) /\ mine \subseteq first
    OBVIOUS
  <2> HIDE DEF mine, end
  <2>2. mine \subseteq Nat
    BY <1>2, <2>1
  <2>3. PICK m \in mine : \A n \in mine : m <= n
    BY <2>2, SmallestOfSet
  <2>4. \A n \in mine : Min(mine) <= n
    BY <2>3 DEF Min
  <2> QED  BY <2>1, <2>4
<1>8. end \in Nat
  <2>1. CASE mine = {}
    BY <1>2, <2>1
  <2>2. CASE mine # {}
    <3>1. end = Min(mine) /\ mine \subseteq first
      BY <2>2
    <3> HIDE DEF mine, end
    <3>2. mine \subseteq Nat
      BY <1>2, <3>1
    <3>3. PICK m \in mine : \A n \in mine : m <= n
      BY <2>2, <3>2, SmallestOfSet
    <3>4. Min(mine) \in mine
      BY <3>3 DEF Min
    <3> QED  BY <3>1, <3>2, <3>4
  <2> QED  BY <2>1, <2>2
<1> HIDE DEF end
<1>9. o \notin mine
  <2> HIDE DEF mine
  <2>1. o \in mine => end <= o
    BY <1>7
  <2> QED  BY <1>5, <1>6, <1>8, <2>1
<1>10. key[rs[o]] # kc
  BY <1>5, <1>9
<1> QED  BY <1>5, <1>6, <1>10

\* Only so many lines can have changed.
LEMMA ChangedIsFinite ==
    ASSUME NEW before \in [Axes -> Seq(Nat)], NEW after
    PROVE  IsFiniteSet(Changed(before, after))
<1> DEFINE At(axis) == {axis} \X {i \in DOMAIN before[axis] : before[axis][i] # after[axis][i]}
           S == {At(axis) : axis \in Axes}
           f == [axis \in Axes |-> At(axis)]
<1>1. IsFiniteSet(Axes)
  BY ComparisonAssumption
<1>2. f \in Surjection(Axes, S)
  <2>1. \A t \in S : \E axis \in Axes : f[axis] = t
    OBVIOUS
  <2>2. f \in [Axes -> S]
    OBVIOUS
  <2> HIDE DEF f, S
  <2> QED  BY <2>1, <2>2 DEF Surjection
<1>3. IsFiniteSet(S)
  <2> HIDE DEF f, S
  <2> QED  BY <1>1, <1>2, FS_Surjection
<1>4. ASSUME NEW axis \in Axes PROVE IsFiniteSet(At(axis))
  <2> DEFINE n == Len(before[axis])
             T == {i \in DOMAIN before[axis] : before[axis][i] # after[axis][i]}
  <2>1. n \in Nat /\ T \in SUBSET (1..n)
    OBVIOUS
  <2>2. IsFiniteSet(1..n)
    BY <2>1, FS_Interval
  <2> HIDE DEF T, n
  <2>3. IsFiniteSet(T) /\ IsFiniteSet({axis})
    BY <2>1, <2>2, FS_Subset, FS_Singleton
  <2>4. IsFiniteSet({axis} \X T)
    BY <2>3, FS_Product
  <2> QED  BY <2>4 DEF T
<1>5. \A T \in S : IsFiniteSet(T)
  BY <1>4
<1>6. IsFiniteSet(UNION S)
  <2> HIDE DEF S
  <2> QED  BY <1>3, <1>5, FS_UNION
<1> QED  BY <1>6 DEF Changed

LEMMA OnlyOne ==
    ASSUME NEW S, IsFiniteSet(S), Cardinality(S) <= 1, NEW x \in S
    PROVE  S = {x}
<1>1. IsFiniteSet(S \ {x}) /\ Cardinality(S \ {x}) = Cardinality(S) - 1
  BY FS_RemoveElement
<1>2. Cardinality(S) \in Nat /\ Cardinality(S \ {x}) \in Nat
  BY <1>1, FS_CardinalityType
<1>3. S \ {x} = {}
  BY <1>1, <1>2, FS_EmptySet
<1> QED  BY <1>3

\* An axis with an I of its own that changed is the only line that did.
OnlyTheI(before, after, axis) ==
    /\ before[axis][2] # after[axis][2]
    /\ before = [after EXCEPT ![axis][2] = before[axis][2]]

LEMMA OnlyTheITermChanged ==
    ASSUME NEW before \in [Axes -> Seq(Nat)], NEW after \in [Axes -> Seq(Nat)],
           GainsComparable(before, after), Cardinality(Changed(before, after)) <= 1,
           NEW axis \in Axes, AttributedTerm(Changed(before, after), axis) = "I"
    PROVE  OnlyTheI(before, after, axis)
<1> DEFINE changes == Changed(before, after)
           here == {c \in changes : c[1] = axis}
           c1 == CHOOSE c \in here : TRUE
<1>1. here # {} /\ TermAt(c1[2]) = "I"
  BY DEF AttributedTerm, NoTerm
<1>2. c1 \in changes /\ c1[1] = axis
  <2>1. c1 \in here
    BY <1>1
  <2> HIDE DEF c1, changes
  <2> QED  BY <2>1
<1>3. \A a \in Axes : \A i \in DOMAIN before[a] :
          before[a][i] # after[a][i] => <<a, i>> \in changes
  BY DEF Changed
<1>4. c1 = <<axis, c1[2]>> /\ c1[2] \in DOMAIN before[axis] /\ before[axis][c1[2]] # after[axis][c1[2]]
  <2> HIDE DEF c1
  <2>1. PICK a \in Axes : c1 \in {a} \X {i \in DOMAIN before[a] : before[a][i] # after[a][i]}
    BY <1>2 DEF Changed
  <2> QED  BY <1>2, <2>1
<1>5. c1[2] = 2
  <2>1. DOMAIN before[axis] = 1..Len(before[axis]) /\ Len(before[axis]) \in Nat
    OBVIOUS
  <2>2. TermAt(c1[2]) = "I"
    BY <1>1
  <2> HIDE DEF c1
  <2>3. c1[2] \in Nat /\ c1[2] >= 1
    BY <1>4, <2>1
  <2> DEFINE n == c1[2]
  <2>4. n \in Nat /\ n >= 1 /\ TermAt(n) = "I"
    BY <2>2, <2>3
  <2> HIDE DEF n
  <2>5. n = 2
    <3>1. n <= 3
      <4>1. Len(Terms) = 3
        BY DEF Terms
      <4> QED  BY <2>4, <4>1 DEF TermAt
    <3>2. n = 1 => TermAt(n) = "P"
      BY DEF TermAt, Terms
    <3>3. n = 3 => TermAt(n) = "D"
      BY DEF TermAt, Terms
    <3> QED  BY <2>4, <3>1, <3>2, <3>3
  <2> QED  BY <2>5 DEF n
<1>6. changes = {<<axis, 2>>}
  <2>1. IsFiniteSet(changes)
    BY ChangedIsFinite
  <2>2. <<axis, 2>> \in changes
    BY <1>2, <1>4, <1>5
  <2>3. Cardinality(changes) <= 1
    OBVIOUS
  <2> HIDE DEF changes
  <2> QED  BY <2>1, <2>2, <2>3, OnlyOne
<1>7. \A a \in Axes : \A i \in DOMAIN before[a] :
          <<a, i>> # <<axis, 2>> => before[a][i] = after[a][i]
  BY <1>3, <1>6
<1>8. \A a \in Axes : Len(before[a]) = Len(after[a]) /\ DOMAIN before[a] = DOMAIN after[a]
  BY DEF GainsComparable
<1> HIDE DEF changes, here, c1
<1>9. ASSUME NEW a \in Axes, a # axis PROVE before[a] = after[a]
  <2>1. before[a] \in Seq(Nat) /\ after[a] \in Seq(Nat)
    OBVIOUS
  <2>2. \A i \in 1..Len(before[a]) : before[a][i] = after[a][i]
    BY <1>7, <1>9
  <2>3. /\ before[a] = [i \in 1..Len(before[a]) |-> before[a][i]]
        /\ after[a] = [i \in 1..Len(after[a]) |-> after[a][i]]
    BY <2>1
  <2> QED  BY <1>8, <2>2, <2>3
<1>10. before[axis] = [after[axis] EXCEPT ![2] = before[axis][2]]
  <2> DEFINE t == [after[axis] EXCEPT ![2] = before[axis][2]]
  <2>1. 2 \in DOMAIN before[axis]
    BY <1>4, <1>5
  <2>2. \A i \in DOMAIN before[axis] : before[axis][i] = t[i]
    BY <1>7, <1>8
  <2>3. DOMAIN t = DOMAIN before[axis]
    BY <1>8
  <2>4. before[axis] = [i \in DOMAIN before[axis] |-> before[axis][i]]
    OBVIOUS
  <2>5. t = [i \in DOMAIN t |-> t[i]]
    OBVIOUS
  <2> HIDE DEF t
  <2>6. before[axis] = t
    BY <2>2, <2>3, <2>4, <2>5
  <2> QED  BY <2>6 DEF t
<1>11. before = [after EXCEPT ![axis] = before[axis]]
  BY <1>9
<1>12. [after EXCEPT ![axis][2] = before[axis][2]]
           = [after EXCEPT ![axis] = [after[axis] EXCEPT ![2] = before[axis][2]]]
  OBVIOUS
<1> QED  BY <1>4, <1>5, <1>10, <1>11, <1>12 DEF OnlyTheI

\* What it takes to be credited or blamed on an axis.
LEMMA VerdictNeeds ==
    ASSUME NEW axis \in Axes, NEW from, NEW to, NEW term,
           from.error \in Nat, to.error \in Nat,
           CompareAxisHold(axis, from, to, term) \in {"improved", "worsened"}
    PROVE  /\ term = "I"
           /\ from.count >= MinimumHolds /\ to.count >= MinimumHolds /\ from.kind = to.kind
           /\ Size(to.error - from.error) > Floor[axis]
           /\ CompareAxisHold(axis, from, to, term) = "improved" <=> to.error < from.error
           /\ CompareAxisHold(axis, from, to, term) = "worsened" <=> to.error > from.error
<1>1. Floor[axis] \in Nat
  BY ComparisonAssumption
<1>2. HoldsComparable(from, to) /\ term \in {"I", NoTerm} /\ ClearsFloors(axis, from, to) /\ term # NoTerm
  BY DEF CompareAxisHold
<1>3. CompareAxisHold(axis, from, to, term) =
          IF to.error < from.error THEN "improved" ELSE "worsened"
  BY <1>2 DEF CompareAxisHold
<1>4. Size(to.error - from.error) > Floor[axis]
  BY <1>2 DEF ClearsFloors
<1>5. to.error # from.error
  BY <1>1, <1>4 DEF Size
<1> QED  BY <1>2, <1>3, <1>4, <1>5 DEF HoldsComparable

\* No credit and no blame but for the one gain that changed, on its own axis, between
\* two flights whose holds were both read (compareFlightRecords).
THEOREM CreditIsAlwaysEarned == Spec => []CreditIsEarned
<1>1. ASSUME SavesInv, cand # NoRecord, SelectBaseline(hist, cand).baseline # NoRecord,
             NEW x \in Experiments, NEW axis \in Axes,
             CompareFlightRecords(x, SelectBaseline(hist, cand).baseline, cand)[axis]
                 \in {"improved", "worsened"}
      PROVE  LET before == SelectBaseline(hist, cand).baseline
                 verdict == CompareFlightRecords(x, before, cand)[axis]
                 was == Held(x, before, axis)
                 is == Held(x, cand, axis)
             IN /\ Earned(x, before, cand, axis)
                /\ verdict = "improved" <=> is.error < was.error
                /\ verdict = "worsened" <=> is.error > was.error
  <2> DEFINE before == SelectBaseline(hist, cand).baseline
             f == FlightOf(before)
             g == FlightOf(cand)
             A == x.gains[Header[f]]
             B == x.gains[Header[g]]
             from == x.holds[before.parts[HoldPart]]
             to == x.holds[cand.parts[HoldPart]]
             term == AttributedTerm(Changed(A, B), axis)
  <2>1. hist.records \in Seq(Saves)
    BY <1>1, HistoryIs DEF SavesInv
  <2>2. PICK i \in DOMAIN hist.records : before = hist.records[i] /\ Key[before] # g
    BY <1>1, <2>1, CandidateFound, BaselineIsAnother
  <2>3. before \in Saves
    BY <2>1, <2>2
  <2> HIDE DEF before
  <2>4. /\ f \in Flights /\ before.header = Header[f] /\ f # g
        /\ \A p \in Parts : before.parts[p] \in {Absent, Figure[f][p]}
    BY <2>2, <2>3, SavesAre DEF Key
  <2>5. /\ g \in Flights /\ cand.header = Header[g]
        /\ \A p \in Parts : cand.parts[p] \in {Absent, Figure[g][p]}
    BY <1>1, CandidateIs
  <2> HIDE DEF f, g
  <2>6. HoldPart \in Parts
    BY ComparisonAssumption
  <2>7. ~Refused(x, before, cand) /\ Absent \notin {before.parts[HoldPart], cand.parts[HoldPart]}
    <3>1. ASSUME Refused(x, before, cand) \/ Absent \in {before.parts[HoldPart], cand.parts[HoldPart]}
          PROVE  CompareFlightRecords(x, before, cand)[axis] = "not enough evidence"
      BY <3>1 DEF CompareFlightRecords
    <3> QED  BY <1>1, <3>1 DEF before
  <2>8. CompareFlightRecords(x, before, cand)[axis] = CompareAxisHold(axis, from[axis], to[axis], term)
    BY <2>4, <2>5, <2>7 DEF CompareFlightRecords
  <2>9. /\ x.firmware[Header[f]] = x.firmware[Header[g]] /\ x.rates[Header[f]] = x.rates[Header[g]]
        /\ GainsComparable(A, B) /\ ~(Cardinality(Changed(A, B)) > 1)
    BY <2>4, <2>5, <2>7 DEF Refused
  <2>10. before.parts[HoldPart] = Figure[f][HoldPart] /\ cand.parts[HoldPart] = Figure[g][HoldPart]
    BY <2>4, <2>5, <2>6, <2>7
  <2>11. /\ A \in [Axes -> Seq(Nat)] /\ B \in [Axes -> Seq(Nat)]
         /\ from[axis].error \in Nat /\ to[axis].error \in Nat
    BY <2>4, <2>5, <2>10, ComparisonAssumption
  <2>12. Cardinality(Changed(A, B)) <= 1
    <3>1. IsFiniteSet(Changed(A, B))
      BY <2>11, ChangedIsFinite
    <3>2. Cardinality(Changed(A, B)) \in Nat
      BY <3>1, FS_CardinalityType
    <3> QED  BY <2>9, <3>2
  <2>13. CompareAxisHold(axis, from[axis], to[axis], term) \in {"improved", "worsened"}
    BY <1>1, <2>8 DEF before
  <2> HIDE DEF A, B, from, to
  <2>14. term = "I"
    BY <2>11, <2>13, VerdictNeeds
  <2>15. /\ from[axis].count >= MinimumHolds /\ to[axis].count >= MinimumHolds
         /\ from[axis].kind = to[axis].kind
         /\ Size(to[axis].error - from[axis].error) > Floor[axis]
         /\ CompareAxisHold(axis, from[axis], to[axis], term) = "improved" <=>
                to[axis].error < from[axis].error
         /\ CompareAxisHold(axis, from[axis], to[axis], term) = "worsened" <=>
                to[axis].error > from[axis].error
    <3> HIDE DEF term
    <3> QED  BY <2>11, <2>13, VerdictNeeds
  <2>16. OnlyTheI(A, B, axis)
    BY <2>9, <2>11, <2>12, <2>14, OnlyTheITermChanged
  <2>17. from = x.holds[Figure[f][HoldPart]] /\ to = x.holds[Figure[g][HoldPart]]
    BY <2>10 DEF from, to
  <2> HIDE DEF term
  <2>18. Held(x, before, axis) = from[axis] /\ Held(x, cand, axis) = to[axis]
    BY <2>17 DEF Held, f, g
  <2>19. Earned(x, before, cand, axis)
    BY <2>4, <2>7, <2>9, <2>15, <2>16, <2>18 DEF Earned, OnlyTheI, A, B, f, g
  <2> QED  BY <2>8, <2>15, <2>18, <2>19 DEF before
<1>2. SavesInv => CreditIsEarned
  BY <1>1, Zenon DEF CreditIsEarned
<1> QED  BY <1>2, SavesInvHolds, PTL
=============================================================================
