----------------------------- MODULE FlightHistory -----------------------------
(***************************************************************************)
(* The flight-history engine's store (src/analysis/flight-history.mjs): the *)
(* operators that add, find, recognise and forget flights.  They are pure: *)
(* each returns a new history.                                             *)
(*                                                                         *)
(* A record is what buildFlightRecord measured, reduced to what these       *)
(* operators tell apart: the aircraft, the "identity" half of flightContent *)
(* as one header value, each of its parts as a figure (Absent when this     *)
(* open did not measure it), and the token of the decoded session it was    *)
(* built from.  A stored record has its ordinal; <<aircraft, ordinal>> is   *)
(* its recordId.  A part that is present without a finite figure, and a     *)
(* record too malformed to have content, are left out.                     *)
(***************************************************************************)
EXTENDS Naturals, Sequences, SequencesExt, FiniteSetsExt

CONSTANTS Aircraft,  \* keyable aircraft
          Parts,     \* the parts flightContent compares two saves on
          Cap        \* HISTORY_LIMITS.maximumRecordsPerAircraft

ASSUME CapAssumption == Cap \in Nat \ {0}

Absent == "absent"
NoToken == 0
NoRecord == [kind |-> "no record"]

CreateHistory == [records |-> <<>>, sequences |-> [c \in Aircraft |-> 0]]

RecordId(r) == <<r.aircraft, r.ordinal>>

\* What a sequence has at some places, in their order.
SelectPlaces(s, places) ==
    [k \in 1..Cardinality(places) |->
        s[CHOOSE i \in places : Cardinality({j \in places : j < i}) = k - 1]]

\* The records of an aircraft by their places, and which of two is the older.
Mine(records, c) == {i \in DOMAIN records : records[i].aircraft = c}
Older(records, j, i) ==
    \/ records[j].ordinal < records[i].ordinal
    \/ records[j].ordinal = records[i].ordinal /\ j < i

\* findRecords: one aircraft's flights, oldest first.
FindRecords(h, c) ==
    LET mine == Mine(h.records, c) IN
    [k \in 1..Cardinality(mine) |->
        h.records[CHOOSE i \in mine :
                      Cardinality({j \in mine : Older(h.records, j, i)}) = k - 1]]

\* A record as it is stored, with its ordinal.
Stored(record, n) ==
    [aircraft |-> record.aircraft, header |-> record.header, token |-> record.token,
     parts |-> record.parts, ordinal |-> n]

\* listAircraft, as the set of keys its callers use.
ListAircraft(h) == {h.records[i].aircraft : i \in DOMAIN h.records}

\* Faulty variant: the counter is the number of records, not one that only grows.
AddFlightRecordByLength(h, record) ==
    LET c == record.aircraft
        n == Len(FindRecords(h, c))
        kept == Append(h.records, Stored(record, n))
        mine == FindRecords([h EXCEPT !.records = kept], c)
        excess == IF Len(mine) > Cap THEN Len(mine) - Cap ELSE 0
        dropped == {mine[i].ordinal : i \in 1..excess}
    IN [records |-> SelectPlaces(kept, {i \in DOMAIN kept : \/ kept[i].aircraft # c
                                                           \/ kept[i].ordinal \notin dropped}),
        sequences |-> [h.sequences EXCEPT ![c] = n + 1]]

\* addFlightRecord: the aircraft's next ordinal, and the oldest records of the
\* aircraft dropped once it has more than the cap.
AddFlightRecord(h, record) ==
    LET c == record.aircraft
        n == h.sequences[c]
        kept == Append(h.records, Stored(record, n))
        mine == FindRecords([h EXCEPT !.records = kept], c)
        excess == IF Len(mine) > Cap THEN Len(mine) - Cap ELSE 0
        dropped == {mine[i].ordinal : i \in 1..excess}
    IN [records |-> SelectPlaces(kept, {i \in DOMAIN kept : \/ kept[i].aircraft # c
                                                           \/ kept[i].ordinal \notin dropped}),
        sequences |-> [h.sequences EXCEPT ![c] = n + 1]]

-----------------------------------------------------------------------------
(* Which records are one flight.                                           *)

\* isSameFlight: proven, by the decoded session both were built from.
IsSameFlight(l, r) == l.token # NoToken /\ l.token = r.token

\* Faulty variant: a part only one open measured tells the two apart.
SameStoredFlightWhole(l, r) ==
    /\ l.aircraft = r.aircraft /\ l.header = r.header
    /\ l.parts = r.parts
    /\ \E p \in Parts : l.parts[p] # Absent

\* sameStoredFlight: inferred, when the parts both records carry agree and
\* there is one.
SameStoredFlight(l, r) ==
    /\ l.aircraft = r.aircraft /\ l.header = r.header
    /\ \A p \in Parts : Absent \in {l.parts[p], r.parts[p]} \/ l.parts[p] = r.parts[p]
    /\ \E p \in Parts : l.parts[p] # Absent /\ l.parts[p] = r.parts[p]

\* One step of flightsOf: a record joins the earliest flight whose every save is
\* the same flight as it, or begins one.
Join(flights, r) ==
    LET homes == {i \in DOMAIN flights :
                      \A k \in DOMAIN flights[i] : SameStoredFlight(flights[i][k], r)}
    IN IF homes = {} THEN Append(flights, <<r>>)
       ELSE [flights EXCEPT ![Min(homes)] = Append(@, r)]

\* flightsOf: each flight as the sequence of its saves, oldest first.
FlightsOf(records) ==
    LET joined[n \in 0..Len(records)] ==
            IF n = 0 THEN <<>> ELSE Join(joined[n - 1], records[n])
    IN joined[Len(records)]

\* selectBaseline: the first save of the earliest flight that is the candidate,
\* and the flight before it; or, for a new flight, the newest one.
SelectBaseline(h, candidate) ==
    LET flights == FlightsOf(FindRecords(h, candidate.aircraft))
        Is(i) == \/ \E k \in DOMAIN flights[i] : IsSameFlight(flights[i][k], candidate)
                 \/ \A k \in DOMAIN flights[i] : SameStoredFlight(flights[i][k], candidate)
        matches == {i \in DOMAIN flights : Is(i)}
        Before(i) == IF i > 1 THEN flights[i - 1][1] ELSE NoRecord
    IN IF matches = {} THEN [baseline |-> Before(Len(flights) + 1), storedAs |-> NoRecord]
       ELSE [baseline |-> Before(Min(matches)), storedAs |-> flights[Min(matches)][1]]

-----------------------------------------------------------------------------
(* Forgetting, exporting, importing.                                       *)

\* Faulty variant: only the record named goes, as forgetFlight does.
ForgetOneRecord(h, id) ==
    [h EXCEPT !.records = SelectPlaces(@, {i \in DOMAIN @ : RecordId(@[i]) # id})]

\* forgetSavesOfFlight: the record named and every other save of its flight.
ForgetSavesOfFlight(h, id) ==
    LET flights == FlightsOf(FindRecords(h, id[1]))
        named == {i \in DOMAIN flights : \E k \in DOMAIN flights[i] : RecordId(flights[i][k]) = id}
        saves == UNION {{RecordId(flights[i][k]) : k \in DOMAIN flights[i]} : i \in named}
    IN [h EXCEPT !.records = SelectPlaces(@, {i \in DOMAIN @ : RecordId(@[i]) \notin saves})]

\* forgetAircraft: its counter goes with its records.
ForgetAircraft(h, c) ==
    [records |-> SelectPlaces(h.records, DOMAIN h.records \ Mine(h.records, c)),
     sequences |-> [h.sequences EXCEPT ![c] = 0]]

\* exportHistory: the token is not a field of the file.
ExportHistory(h) ==
    [h EXCEPT !.records = [i \in DOMAIN @ |-> [@[i] EXCEPT !.token = NoToken]]]

\* importHistory of a file that reads whole: each counter is past every record
\* of its aircraft, and no lower than the file said.
ImportHistory(file) ==
    [file EXCEPT !.sequences = [c \in Aircraft |->
        LET past == {file.records[i].ordinal + 1 :
                         i \in {j \in DOMAIN file.records : file.records[j].aircraft = c}}
        IN Max(past \cup {file.sequences[c]})]]

=============================================================================
