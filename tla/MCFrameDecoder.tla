----------------------------- MODULE MCFrameDecoder -----------------------------
(* Logs whose data looks like frames (73, 80, 71 and 69 are I, P, G and E), a   *)
(* header without S frames, and a word of eight bits in at most two bytes.      *)
EXTENDS SessionReport

F(kind, value) == [kind |-> kind, value |-> value]
Stream(s) == s \o <<F("end", 0)>>

MCLogs ==
    LET body == {<<F("I", 73), a, b, F("P", 81)>> :
                     a \in {F("P", 80), F("G", 73), F("adjust", 128), F("state", 73)},
                     b \in {F("P", 80), F("I", 80), F("state", 200)}}
    IN {Stream(s) : s \in body}
       \cup {<<F("I", 127), F("P", 140), F("P", 140), F("G", 150), F("P", 255)>>,
             <<F("H", 9), F("G", 71), F("I", 80), F("custom", 73), F("P", 80), F("I", 81), F("P", 99)>>,
             Stream(<<F("I", 1), F("P", 2), F("P", 3), F("P", 4), F("I", 5), F("P", 5)>>),
             Stream(<<F("state", 4), F("I", 10), F("P", 20), F("P", 30), F("state", 5), F("P", 40),
                      F("state", 4), F("P", 50), F("state", 4), F("P", 60), F("P", 70), F("state", 6),
                      F("I", 80)>>),
             Stream(<<F("I", 10), F("adjust", 1), F("beep", 73), F("mode", 30), F("P", 20),
                      F("string", 80), F("disarm", 3), F("P", 30)>>),
             Stream(<<F("adjust", 69), F("I", 10), F("custom", 14), F("P", 20)>>),
             Stream(<<F("I", 10), F("state", 4), F("P", 20), F("resume", 3), F("P", 30), F("state", 7),
                      F("state", 4), F("P", 40), F("P", 55)>>)}
\* 0, 13, 14, 30, 50 and 100 are types of events, 73 and 80 markers.
MCOverwrites == {0, 13, 14, 30, 50, 73, 80, 100, 255}

Generous == [records |-> 50, frames |-> 50, events |-> 50, aux |-> 50, errors |-> 50, cells |-> 50]
MCLimits == {Generous, [Generous EXCEPT !.errors = 0],
             [Generous EXCEPT !.frames = 2, !.aux = 1],
             [Generous EXCEPT !.records = 4, !.events = 1],
             [Generous EXCEPT !.cells = 0]}
MCWindows == {NoWindow, [start |-> 15, end |-> 65], [start |-> 35, end |-> 45]}
MCDeclared == {"I", "P", "G", "H"}
MCWidth == [I |-> 4, P |-> 6, G |-> 2, H |-> 2, S |-> 1]
MCEndPayload == <<101, 0>>
=============================================================================
