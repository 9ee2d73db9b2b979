------------------------------ MODULE FlightSaves ------------------------------
(***************************************************************************)
(* A pilot and the flight history: logs opened, analysed and analysed       *)
(* again, flights saved and forgotten, and the process restarted, over the *)
(* operators of FlightHistory.  It is the sequential use of the store; the *)
(* queue of storage operations in front of it is Storage's subject.        *)
(*                                                                         *)
(* A flight has one true figure for each part.  The summary is measured by *)
(* every open; an open measures any of the other parts (the memory budget   *)
(* and the axis picker decide which).                                       *)
(***************************************************************************)
EXTENDS FlightHistory

CONSTANTS Flights,    \* the flights the pilot has logs of
          AircraftOf, \* the aircraft of each
          Figure,     \* what each measures on each part
          Header,     \* the header half of each
          MaxOpens,   \* bound: decodes of a log, and so tokens
          MaxOrdinal, \* bound: saves of one aircraft
          MaxOld      \* bound: records in the history this version finds

Summary == "summary"

ASSUME FlightsAssumption ==
    /\ Summary \in Parts
    /\ AircraftOf \in [Flights -> Aircraft]
    \* Two flights never agree on every head-speed and noise figure.
    /\ \A f, g \in Flights : f # g => Figure[f][Summary] # Figure[g][Summary]
    /\ \A f \in Flights, p \in Parts : Figure[f][p] # Absent

VARIABLES hist,   \* state.history, here always what is stored too
          cand,   \* state.candidate
          opens,  \* decodes so far: each gives its session a token of its own
          issued  \* history: the ids given out and the flight each was given to

vars == <<hist, cand, opens, issued>>

\* buildFlightRecord for an open that measured these parts.
BuildFlightRecord(f, measured, token) ==
    [aircraft |-> AircraftOf[f], header |-> Header[f], token |-> token,
     parts |-> [p \in Parts |-> IF p \in measured THEN Figure[f][p] ELSE Absent]]

Opened == {m \in SUBSET Parts : Summary \in m}

FlightOf(r) == CHOOSE f \in Flights : Figure[f][Summary] = r.parts[Summary]

OldFile(s) ==
    LET saved[n \in 0..Len(s)] ==
            IF n = 0 THEN CreateHistory ELSE AddFlightRecord(saved[n - 1], s[n])
    IN ExportHistory(saved[Len(s)])

OldRecords == {BuildFlightRecord(f, m, NoToken) : f \in Flights, m \in Opened}

\* A file that says nothing, or no number, of the counters of some aircraft.
WithoutCounters(file, lost) ==
    [file EXCEPT !.sequences = [c \in Aircraft |-> IF c \in lost THEN 0 ELSE file.sequences[c]]]

\* An earlier version saved a reopened flight again: any short sequence of saves
\* may be in the file, with its counters or without.
Init ==
    /\ \E n \in 0..MaxOld : \E s \in [1..n -> OldRecords], lost \in SUBSET Aircraft :
           hist = ImportHistory(WithoutCounters(OldFile(s), lost))
    /\ cand = NoRecord
    /\ opens = 0
    /\ issued = {<<RecordId(hist.records[i]), FlightOf(hist.records[i])>> :
                     i \in DOMAIN hist.records}

\* openFile, the decode, and considerFlight.
Open(f, measured) ==
    /\ opens < MaxOpens
    /\ opens' = opens + 1
    /\ cand' = BuildFlightRecord(f, measured, opens')
    /\ UNCHANGED <<hist, issued>>

\* A new window or axis re-derives the record from the same decoded session.
Reanalyse(measured) ==
    /\ cand # NoRecord
    /\ LET f == FlightOf(cand) IN cand' = BuildFlightRecord(f, measured, cand.token)
    /\ UNCHANGED <<hist, opens, issued>>

StoredAs == SelectBaseline(hist, cand).storedAs

\* rememberCandidateFlight: offered only while the flight is not stored.
Save ==
    /\ cand # NoRecord /\ StoredAs = NoRecord
    /\ hist.sequences[cand.aircraft] < MaxOrdinal
    /\ hist' = AddFlightRecord(hist, cand)
    /\ issued' = issued \cup {<<RecordId(hist'.records[Len(hist'.records)]), FlightOf(cand)>>}
    /\ UNCHANGED <<cand, opens>>

\* The Forget of a row of the history panel, or of the before/after panel.
ForgetFlight(id) ==
    /\ \E i \in DOMAIN hist.records : RecordId(hist.records[i]) = id
    /\ hist' = ForgetSavesOfFlight(hist, id)
    /\ UNCHANGED <<cand, opens, issued>>

\* With the counter gone, the ids of the aircraft begin again.
ForgetMachine(c) ==
    /\ c \in ListAircraft(hist)
    /\ hist' = ForgetAircraft(hist, c)
    /\ issued' = {x \in issued : x[1][1] # c}
    /\ UNCHANGED <<cand, opens>>

ForgetEverything ==
    /\ hist # CreateHistory
    /\ hist' = CreateHistory
    /\ issued' = {}
    /\ UNCHANGED <<cand, opens>>

\* The tokens are not in the file.
Restart ==
    /\ hist' = ImportHistory(ExportHistory(hist))
    /\ cand' = NoRecord
    /\ UNCHANGED <<opens, issued>>

Next ==
    \/ \E f \in Flights, m \in Opened : Open(f, m)
    \/ \E m \in Opened : Reanalyse(m)
    \/ Save
    \/ \E id \in Aircraft \X (0..MaxOrdinal) : ForgetFlight(id)
    \/ \E c \in Aircraft : ForgetMachine(c)
    \/ ForgetEverything
    \/ Restart

Spec == Init /\ [][Next]_vars

-----------------------------------------------------------------------------
(* Properties.                                                            *)

\* The saves of a flight that are stored, oldest first, by the flights the
\* records truly are of.
TrueFirst(i) == \A k \in 1..(i - 1) : FlightOf(hist.records[k]) # FlightOf(hist.records[i])

\* A candidate is recognised exactly when its flight is stored, whatever each
\* open measured and whatever the process has forgotten; it is named by its
\* first save; and the baseline is the newest flight first saved before it,
\* never the candidate's own (selectBaseline, sameStoredFlight, flightsOf).
RecognitionIsExact ==
    cand # NoRecord =>
        LET f == FlightOf(cand)
            mine == {i \in DOMAIN hist.records :
                         FlightOf(hist.records[i]) = f /\ TrueFirst(i)}
            end == IF mine = {} THEN Len(hist.records) + 1 ELSE Min(mine)
            others == {i \in DOMAIN hist.records :
                           /\ hist.records[i].aircraft = cand.aircraft
                           /\ i < end /\ TrueFirst(i)}
        IN SelectBaseline(hist, cand) =
               [storedAs |-> IF mine = {} THEN NoRecord ELSE hist.records[Min(mine)],
                baseline |-> IF others = {} THEN NoRecord ELSE hist.records[Max(others)]]

\* Forget takes every save of a flight and nothing else, whichever save it
\* names (forgetSavesOfFlight): no copy is left standing in for it.
ForgetTakesTheFlight ==
    \A i \in DOMAIN hist.records :
        ForgetSavesOfFlight(hist, RecordId(hist.records[i])).records =
            SelectPlaces(hist.records, {j \in DOMAIN hist.records :
                                            FlightOf(hist.records[j]) # FlightOf(hist.records[i])})

\* An id is never given to a second flight, so a Forget bound to it can only
\* mean the flight it was shown for; only forgetting the whole aircraft, counter
\* included, starts its ids again (createHistory's sequences).
IdsAreNotReused ==
    \A x, y \in issued : x[1] = y[1] => x[2] = y[2]

\* A Forget names one flight, for good, and all of that flight goes.
ForgetMeansTheFlight == ForgetTakesTheFlight /\ IdsAreNotReused

=============================================================================
