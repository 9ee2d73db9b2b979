--------------------------- MODULE MCStopEvidence ---------------------------
(* Small flights for StopEvidence: four stops, one of them flown otherwise. *)
EXTENDS StopEvidence

\* A manoeuvre: what was asked, the reply of the axis and the rotor, in one
\* direction; <<magnitude, reply, rotor>> for each sample.
Steady(magnitude, reply, n) == [k \in 1 .. n |-> <<magnitude, reply, 20>>]
Rate(x, sign) == IF x = NaN THEN NaN ELSE sign * x
Flown(manoeuvre, sign) ==
    [k \in DOMAIN manoeuvre |->
        [set |-> Rate(manoeuvre[k][1], sign), gyro |-> sign * manoeuvre[k][2],
         head |-> manoeuvre[k][3]]]
Turned(hold, reply) == Steady(10, hold, 4) \o <<<<5, 5, 20>>>> \o reply \o Steady(0, 0, 8 - Len(reply))

Settles   == Turned(10, <<>>)
Rings     == Turned(10, <<<<0, 0, 20>>, <<0, 4, 20>>, <<0, -4, 20>>, <<0, 4, 20>>, <<0, -4, 20>>, <<0, 4, 20>>>>)
RingsSlow == Turned(10, <<<<0, 0, 20>>, <<0, 4, 20>>, <<0, -4, 20>>, <<0, 4, 20>>, <<0, 4, 20>>, <<0, -4, 20>>>>)
Shakes    == <<<<10, 13, 20>>, <<10, 7, 20>>, <<10, 13, 20>>, <<10, 7, 20>>>> \o SubSeq(Rings, 5, 13)
Past      == Turned(10, <<<<0, 0, 20>>, <<0, -6, 20>>, <<0, -2, 20>>, <<0, 1, 20>>, <<0, 1, 20>>, <<0, 1, 20>>>>)
ShakesPast == SubSeq(Shakes, 1, 4) \o SubSeq(Past, 5, 13)
Runs      == Turned(8, <<<<0, 6, 20>>, <<0, 6, 20>>, <<0, 6, 20>>, <<0, 6, 20>>, <<0, 6, 20>>, <<0, 6, 20>>>>)
RunsFar   == Turned(3, SubSeq(Runs, 6, 11))
RunsTrue  == Turned(10, SubSeq(Runs, 6, 11))
Responses == {Settles, Rings, RingsSlow, Shakes, Past, ShakesPast, Runs, RunsFar, RunsTrue}

\* Manoeuvres the detector must judge: one release each, or none.
Rest8 == Steady(0, 0, 8)
Odd ==
    {Rest8,
     Steady(10, 10, 2) \o Rest8,                                         \* too short
     Steady(10, 10, 4) \o Steady(5, 5, 8) \o Rest8,                      \* too slow
     Steady(10, 10, 4) \o <<<<6, 6, 20>>, <<5, 5, 20>>, <<4, 4, 20>>, <<3, 3, 20>>>> \o Rest8,
     Steady(10, 10, 4) \o Steady(5, 5, 4) \o Rest8,                      \* lingering
     Steady(10, 10, 4) \o <<<<4, 4, 20>>, <<7, 7, 20>>>> \o Rest8,       \* rising again
     Steady(10, 10, 4) \o <<<<5, 5, 20>>>> \o Steady(9, 9, 3) \o <<<<5, 5, 20>>>> \o Rest8,
     Steady(10, 10, 3) \o Steady(9, 9, 2) \o Steady(12, 12, 1) \o Rest8,
     Steady(10, 10, 4) \o <<<<5, 5, 20>>, <<-4, -4, 20>>>> \o Rest8,     \* through zero
     Steady(10, 10, 4) \o <<<<5, 5, 20>>>> \o Steady(-10, -10, 4) \o Rest8,
     Steady(10, 10, 4) \o Steady(-10, -10, 4) \o Rest8,
     Steady(10, 10, 4) \o <<<<NaN, 0, 20>>>> \o Rest8,                   \* a hole in the log
     Steady(10, 10, 4) \o <<<<5, 5, 20>>, <<0, 0, 20>>, <<NaN, 0, 20>>>> \o Rest8,
     Steady(10, 10, 4) \o Steady(0, 0, 3) \o <<<<3, 3, 20>>>> \o Rest8,  \* a touch during the response
     Steady(10, 10, 4) \o Steady(0, 0, 6),                               \* the next one too soon
     [k \in DOMAIN Settles |-> <<Settles[k][1], Settles[k][2], IF k < 4 THEN 20 ELSE 16>>],
     [k \in DOMAIN Settles |-> <<Settles[k][1], Settles[k][2], IF k = 3 THEN 0 ELSE 20>>],
     [k \in DOMAIN Settles |-> <<Settles[k][1], Settles[k][2], NaN>>]}

Logged(pieces) ==
    With(FlattenSeq(pieces), LAMBDA log :
        [k \in DOMAIN log |-> [t |-> k, set |-> log[k].set, gyro |-> log[k].gyro, head |-> log[k].head]])
Fleet(pieces, airframe, tone, noise) ==
    [records |-> Logged(pieces), airframe |-> airframe, tone |-> tone, noise |-> noise]
Plain(pieces) == Fleet(pieces, "permitted", FALSE, 0)
Four(a, b, c, d) == <<Flown(Steady(0, 0, 1) \o a, 1), Flown(b, -1), Flown(c, 1), Flown(d, -1)>>
Same(r) == Four(r, r, r, r)
Cut(flown, n) == [flown EXCEPT !.records = SubSeq(flown.records, 1, Len(flown.records) - n)]

\* The rotor is slow while the turn begins; the axis lags in the release only;
\* the reply is over early; it is faint; the axis still turns as the window opens.
Sagging(r) == [k \in DOMAIN r |-> <<r[k][1], r[k][2], IF k = 1 THEN 16 ELSE 20>>]
Early == Turned(10, <<<<0, -6, 20>>, <<0, -6, 20>>>>)
Faint == Turned(10, <<<<0, 0, 20>>, <<0, 3, 20>>, <<0, -3, 20>>, <<0, 3, 20>>, <<0, -3, 20>>, <<0, 3, 20>>>>)
Slides == [Rings EXCEPT ![6] = <<0, 7, 20>>]
Late == SubSeq(Shakes, 1, 4) \o <<<<8, 16, 20>>>> \o SubSeq(Shakes, 5, 13)
Leads == Turned(8, SubSeq(Rings, 6, 11))

MCFlights ==
    {Plain(Same(r)) : r \in Responses}
    \cup {Fleet(Same(r), "permitted", TRUE, 0) : r \in {Rings, Shakes, ShakesPast}}
    \cup {Fleet(Same(r), "permitted", FALSE, 900) : r \in {Rings, Runs}}
    \cup {Fleet(Same(r), "blocked", FALSE, 0) : r \in {Rings, Settles}}
    \cup {Plain(Four(p, n, p, n)) : p, n \in {Settles, Rings, Runs, Shakes}}
    \cup {Plain(Four(p, n, p, n)) : p \in {Faint, Leads, Early}, n \in {Rings, Past}}
    \cup {Plain(Four(Shakes, Late, Shakes, Late))}
    \cup {Plain(Same(r)) : r \in {Sagging(Rings), Early, Faint, Leads, Slides}}
    \cup {Plain(Four(Shakes, Shakes, o, Shakes)) : o \in Odd}
    \cup {Plain(Same(Rings) \o <<Flown(o, 1)>>) : o \in Odd}
    \cup {Plain(<<Flown(o, 1)>> \o Same(Shakes)) : o \in Odd}
    \cup {Plain(Same(Rings) \o Four(Rings, Rings, Rest8, Rest8))}
    \cup {Cut(Plain(Same(Runs)), n) : n \in {1, 4, 7, 10}}
    \cup {Plain(<<Flown(o, 1)>>) : o \in Odd}

Setting(plateau, tracking, fast) == [plateau |-> plateau, tracking |-> tracking, fast |-> fast]
MCSettings == <<Setting(18, 3, <<1, 5>>), Setting(10, 3, <<1, 5>>), Setting(18, 4, <<0, 5>>)>>
Judging(decay, offset, plateau) == [decay |-> decay, offset |-> offset, plateau |-> plateau]
MCJudgement == Judging(60, 70, 40)
MCJudgements == {MCJudgement, Judging(80, 70, 60)}
MCSlow == <<3, 6>>
=============================================================================
