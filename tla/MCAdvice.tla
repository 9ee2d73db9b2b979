------------------------------ MODULE MCAdvice ------------------------------
(* Small flights and what their axes may have given, for Advice: two axes,  *)
(* a main rotor at 10 turns a second, one stretch or two.                   *)
EXTENDS Advice

CONSTANTS X, Y

MCAxisOrder == <<X, Y>>

OneStretch == 0 .. 6
TwoStretches == 0 .. 12
Flight(times, source, head, noisy, tones) ==
    [times |-> times, dead |-> [x \in Axes |-> {}], source |-> source,
     head |-> [t \in times |-> head[t + 1]], tail |-> [t \in times |-> -1],
     noisy |-> [x \in Axes |-> IF x = X THEN noisy ELSE {}], tones |-> tones,
     asked |-> <<0, Max(times)>>, stops |-> {}, holds |-> {}]
Tone(hz, size, loud, soft) == [axis |-> X, hz |-> hz, size |-> size, loud |-> loud, soft |-> soft]
Raw == [x \in Axes |-> "gyroRAW"]
Filtered == [x \in Axes |-> "gyroADC-filtered"]
Ticks == 0 .. 12

\* Steady, moved while it turned, lost for a sample, not turning, not logged.
Steady == [k \in 1 .. 13 |-> 10]
Heads == {Steady, [k \in 1 .. 13 |-> IF k < 5 THEN 20 ELSE 22],
          [k \in 1 .. 13 |-> IF k = 3 THEN 0 ELSE 10],
          [k \in 1 .. 13 |-> 0], [k \in 1 .. 13 |-> -1]}
\* A rotor order and a stranger: lasting, in part, below the level.
ToneSets == {{}, {Tone(10, 8, {}, Ticks)}, {Tone(10, 8, Ticks, {})}, {Tone(10, 25, Ticks, {})},
             {Tone(10, 8, 4 .. 5, {})}, {Tone(17, 8, {}, Ticks)}, {Tone(17, 25, 4 .. 5, {})},
             {Tone(17, 8, Ticks, {})}}

MCFlights ==
    {Flight(OneStretch, Raw, Steady, {}, tones) : tones \in ToneSets}
    \cup {Flight(times, Raw, head, {}, {}) : times \in {OneStretch, TwoStretches}, head \in Heads}
    \cup {Flight(TwoStretches, Raw, Steady, noisy, {}) : noisy \in {0 .. 6, 7 .. 12, Ticks}}
    \cup {Flight(TwoStretches, Raw, Steady, {}, {Tone(10, 8, {}, 6 .. 12)})}
    \cup {Flight(OneStretch, Filtered, Steady, {}, tones) : tones \in {{}, {Tone(10, 25, Ticks, {})}}}
    \cup {[Flight(TwoStretches, Raw, Steady, {}, {}) EXCEPT !.asked = asked]
            : asked \in {<<0, 4>>, <<3, 9>>}}
    \cup {[Flight(OneStretch, Raw, Steady, {}, {}) EXCEPT !.dead = [@ EXCEPT ![Y] = OneStretch]]}

Window(from, to, fault) == [from |-> from, to |-> to, fault |-> fault]
Base == [stops |-> {2, 4}, complete |-> TRUE, directions |-> "agree", agreed |-> TRUE,
         end |-> "settled", source |-> "", hz |-> 0, short |-> FALSE, separable |-> TRUE,
         sure |-> {"tracking", "ringing"},
         windows |-> {Window(0, 2, ""), Window(4, 6, "")},
         bind |-> FALSE, reads |-> "I_TERM_WITHIN_TOLERANCE"]

Ends == {[Base EXCEPT !.end = "not-stopped", !.short = short] : short \in BOOLEAN}
        \cup {[Base EXCEPT !.end = "ringing", !.source = source, !.hz = hz, !.separable = separable]
                : source \in {"hold-and-release", "release", ""}, hz \in {5, 11}, separable \in BOOLEAN}
        \cup {[Base EXCEPT !.end = "overshoot", !.source = source, !.hz = 11]
                : source \in {"hold-and-release", "release"}}
Gates == {[Base EXCEPT !.end = "ringing", !.source = "release", !.hz = 30, !.sure = {"tracking"}],
          [Base EXCEPT !.end = "not-stopped", !.short = TRUE, !.sure = {"ringing"}],
          [Base EXCEPT !.directions = "disagree", !.end = "not-stopped", !.short = TRUE],
          [Base EXCEPT !.end = "unknown", !.agreed = FALSE],
          [Base EXCEPT !.stops = {4}, !.complete = FALSE, !.directions = "unmeasured", !.end = "unknown"],
          [Base EXCEPT !.stops = {}, !.complete = FALSE, !.directions = "unmeasured",
                       !.end = "unknown", !.agreed = FALSE]}
Holds == {[Base EXCEPT !.reads = reads]
            : reads \in {"I_TOO_HIGH", "I_TOO_LOW", "I_TERM_NOT_JUDGED", "I_TERM_VERDICT_UNSTABLE"}}
         \cup {[Base EXCEPT !.bind = TRUE]}
         \cup {[Base EXCEPT !.windows = windows, !.reads = "I_TOO_LOW"]
                 : windows \in {{}, {Window(0, 2, "")}, {Window(0, 6, "HOLD_BATTERY_UNSTABLE")},
                                {Window(0, 5, "")}, {Window(0, 1, "HOLD_TOO_SHORT"), Window(3, 5, "")},
                                {Window(1, 2, ""), Window(5, 6, "")}, {Window(4, 5, "")}}}

Others == {Base, [Base EXCEPT !.end = "not-stopped", !.short = TRUE],
           [Base EXCEPT !.reads = "I_TOO_HIGH", !.windows = {Window(0, 6, "")}],
           [Base EXCEPT !.windows = {Window(1, 2, "HOLD_BATTERY_UNSTABLE"), Window(4, 6, "")}],
           [Base EXCEPT !.bind = TRUE], [Base EXCEPT !.windows = {Window(3, 4, "")}]}
MCMaterials ==
    {<<>>} \cup {X :> a : a \in {Base} \cup Holds} \cup {Y :> b : b \in Others}
    \cup {(X :> a) @@ (Y :> b) : a \in {Base} \cup Ends \cup Gates \cup Holds, b \in Others}
=============================================================================
