------------------------- MODULE MCMechanicalWindow -------------------------
(* Small flights for MechanicalWindow: eight samples fit one stretch. *)
EXTENDS MechanicalWindow

CONSTANTS X, Y

\* Even sampling that fits, that needs two stretches and three, a sample lost
\* so that only resampling finds the cap, and a pause in the log.
Samplings == {0 .. 6, 0 .. 12, 0 .. 17, (0 .. 6) \cup {8}, (0 .. 5) \cup (9 .. 14)}

Speed(times, f(_)) == [t \in times |-> f(t)]
HeadSpeeds(times) ==
    {Speed(times, LAMBDA t : 10), Speed(times, LAMBDA t : -1),
     Speed(times, LAMBDA t : IF t < 7 THEN 10 ELSE 20),
     Speed(times, LAMBDA t : IF t < 4 THEN 10 ELSE 0)}

Ticks == 0 .. 17
Tone(hz, size, loud, soft) == [axis |-> X, hz |-> hz, size |-> size, loud |-> loud, soft |-> soft]
Tones == {Tone(hz, size, loud, {}) :
            hz \in {10, 12, 17}, size \in {8, 24, 25}, loud \in {Ticks, 4 .. 9}}
ToneSets == {{}, {Tone(10, 8, {}, Ticks)}, {Tone(10, 8, Ticks, {}), Tone(12, 8, Ticks, {})},
             {Tone(10, 8, Ticks, {}), Tone(17, 8, 1 .. 2, {})},
             {Tone(10, 8, {}, Ticks), Tone(17, 8, {}, Ticks)}} \cup {{t} : t \in Tones}

\* In the longer windows, the tones at the rotor's own frequency and off it.
TonesOf(times) == IF Max(times) > 8 THEN {s \in ToneSets : \A t \in s : t.hz # 12} ELSE ToneSets

Sources == {[x \in Axes |-> "gyroRAW"],
            [x \in Axes |-> IF x = X THEN "gyroADC-filtered" ELSE "gyroUnfilt"],
            [x \in Axes |-> IF x = X THEN "gyroRAW" ELSE "missing"]}
Deads == {[x \in Axes |-> {}], [x \in Axes |-> IF x = Y THEN 3 .. 4 ELSE {}]}

Flight(times, dead, source, head, tones) ==
    [times |-> times, dead |-> dead, source |-> source, head |-> head,
     noisy |-> [x \in Axes |-> {}],
     tail |-> [t \in times |-> -1], tones |-> tones,
     asked |-> <<0, Max(times)>>, stops |-> {}, holds |-> {}]
Raw == [x \in Axes |-> "gyroRAW"]
Alive == [x \in Axes |-> {}]
Steady(times) == [t \in times |-> 10]

\* Every rotor speed and tone on every sampling; every source and hole with a
\* steady rotor on two of them.
MCFlights ==
    UNION {{Flight(times, Alive, Raw, head, tones) :
              head \in HeadSpeeds(times), tones \in TonesOf(times)} : times \in Samplings}
    \cup {Flight(times, dead, source, Steady(times), tones) :
            times \in {0 .. 6, 0 .. 12}, dead \in Deads, source \in Sources,
            tones \in {{}, {Tone(10, 8, Ticks, {})}, {Tone(17, 25, 1 .. 4, {})}}}
    \cup {[times |-> 0 .. 6, dead |-> [x \in Axes |-> {}], source |-> [x \in Axes |-> "gyroRAW"],
           noisy |-> [x \in Axes |-> {}],
           head |-> [t \in 0 .. 6 |-> 10], tail |-> [t \in 0 .. 6 |-> 40], tones |-> tones,
           asked |-> asked, stops |-> stops, holds |-> {5}] :
              tones \in {{}, {Tone(40, 8, Ticks, {})}},
              asked \in {<<0, 6>>, <<0, 5>>, <<2, 9>>, <<3, 3>>}, stops \in {{}, {1, 6}}}
=============================================================================
