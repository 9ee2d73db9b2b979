--------------------------- MODULE MCHoldEvidence ---------------------------
(* Small flights for HoldEvidence: up to four holds and what surrounds them. *)
EXTENDS HoldEvidence

\* What the error does over the samples of a hold, in degrees a second.
Wave(half, size, k) == IF (k \div half) % 2 = 0 THEN size ELSE -size
ErrorAt(shape, k) ==
    CASE shape = "none"        -> 0
      [] shape = "small"       -> 2
      [] shape = "stands"      -> 5
      [] shape = "swings"      -> Wave(3, 8, k)
      [] shape = "swingsLow"   -> 5 + Wave(3, 8, k)
      [] shape = "shakes"      -> Wave(1, 9, k)
      [] shape = "shakesLow"   -> 5 + Wave(1, 8, k)
      [] shape = "noisySwing"  -> Wave(3, 4, k) + (IF k % 3 = 2 THEN -12 ELSE 6)
      [] shape = "wanders"     -> k - 8
      [] shape = "wandersLow"  -> 4 + Wave(7, 6, k)
      [] shape = "ramps"       -> (3 * k) \div 2
Shapes == {"none", "small", "stands", "swings", "swingsLow", "shakes", "shakesLow", "noisySwing",
           "wanders", "wandersLow", "ramps"}

\* What the I term does meanwhile, in hundredths; n is the number of the hold.
ITermAt(term, error, k, n) ==
    CASE term = "follows" -> 100 * error
      [] term = "faint"   -> 20 * error
      [] term = "still"   -> 20 + 10 * (k % 2)
      [] term = "pinned"  -> 3000 + 5 * (k % 2)
      [] term = "winds"   -> 2000 * n + 100 * k
      [] term = "against" -> 100 * k - 6000
      [] term = "zero"    -> 0
ITerms == {"follows", "faint", "still", "pinned", "winds", "against", "zero", "absent"}

Sample(set, error, p, i, off, head, vbat) ==
    [set |-> set, gyro |-> set - error, p |-> p, i |-> i, d |-> 0, off |-> off, head |-> head, vbat |-> vbat]
\* A hold of fifteen samples: its stick, its side and its flaw.
Held(design, n) ==
    [k \in 1 .. 15 |->
        LET error == ErrorAt(design.shape, k - 1) * design.side
            last == k = 15
            p == IF design.term = "absent" THEN NaN ELSE IF design.term = "zero" THEN 0 ELSE 150 * error
            i == IF design.term = "absent" THEN NaN
                 ELSE design.side * ITermAt(design.term, ErrorAt(design.shape, k - 1), k, n)
        IN  Sample(design.set + (IF design.flaw = "ramp" THEN 8 * k ELSE 0), error, p, i,
                   IF last /\ design.flaw = "off" THEN 31 ELSE 0,
                   IF last /\ design.flaw = "head" THEN 1100
                   ELSE IF last /\ design.flaw = "unspun" THEN NaN ELSE 1000,
                   IF last /\ design.flaw = "sag" THEN 80
                   ELSE IF design.flaw = "no battery" THEN NaN ELSE 100)]
Kept(held, flaw) ==
    IF flaw = "gap" THEN SubSeq(held, 1, 6) \o SubSeq(held, 10, 15)
    ELSE IF flaw = "late" THEN SubSeq(held, 1, 2) \o SubSeq(held, 7, 15)
    ELSE IF flaw = "empty" THEN SubSeq(held, 1, 2) \o SubSeq(held, 15, 15)
    ELSE IF flaw = "short" THEN SubSeq(held, 1, 13) ELSE held
\* The stick is moved before each hold; a hole is a setpoint that is missing.
Moved == <<Sample(150, 100, 100, 100, 0, 1000, 100)>>
Hole == <<[Moved[1] EXCEPT !.set = NaN]>>

Design(shape, term, side, set, flaw) ==
    [shape |-> shape, term |-> term, side |-> side, set |-> set, flaw |-> flaw]
Timed(piece, from, flaw) ==
    [k \in DOMAIN piece |->
        piece[k] @@ [t |-> from + (IF flaw = "gap" /\ k > 6 THEN k + 3
                                   ELSE IF flaw = "late" /\ k > 2 THEN k + 4
                                   ELSE IF flaw = "empty" /\ k > 2 THEN 15 ELSE k)]]
Flown(designs) ==
    FlattenSeq([n \in DOMAIN designs |->
        (IF n = 1 /\ designs[n].flaw = "edge" THEN <<>>
         ELSE <<(IF designs[n].flaw = "hole" THEN Hole ELSE Moved)[1] @@ [t |-> 20 * n]>>)
        \o Timed(Kept(Held(designs[n], n), designs[n].flaw), 20 * n, designs[n].flaw)])

Plain(shape, term, side) == Design(shape, term, side, 0, "none")
Times(n, design) == [k \in 1 .. n |-> design]
Alike == {Times(n, Plain(s, t, side)) : n \in {3}, s \in Shapes, t \in ITerms, side \in {1, -1}}
Few == {Times(n, Plain(s, "follows", 1)) : n \in {1, 2, 5}, s \in Shapes}
Sides == {<<Plain("stands", t, a), Plain("stands", t, b), Plain(s, t, c)>> :
            t \in {"follows", "winds"}, s \in {"stands", "wandersLow", "none"},
            a \in {1, -1}, b \in {1, -1}, c \in {1, -1}}
Turns == {<<Design("stands", "still", a, 40, "none"), Design("stands", "still", b, -40, "none"),
            Design("stands", "still", IF c = 0 THEN -a ELSE a, c, "none")>> : a \in {1, -1}, b \in {1, -1}, c \in {40, 0}}
Mixes == {<<Plain(a, "follows", 1), Plain(b, "follows", 1), Plain(a, "follows", 1)>> :
            a \in {"stands", "swings", "none"}, b \in Shapes}
Flaws == {"gap", "late", "empty", "short", "off", "head", "unspun", "sag", "no battery", "ramp", "hole", "edge"}
Flawed == {[k \in 1 .. 4 |-> IF k = n THEN Design("stands", "still", 1, 0, f) ELSE Plain("stands", "still", 1)] :
              n \in {1, 3}, f \in Flaws}
          \cup {[k \in 1 .. 2 |-> Design("stands", "still", 1, 0, f)] : f \in Flaws}

MCFlights == {Flown(designs) : designs \in Alike \cup Few \cup Sides \cup Turns \cup Mixes \cup Flawed}
MCFilters == <<2, 1, 4>>
MCRipples == {100, 200, 400}
=============================================================================
