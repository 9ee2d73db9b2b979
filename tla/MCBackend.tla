----------------------------- MODULE MCBackend -----------------------------
(* Two aircraft; two devices that hold the capability of the first and one that *)
(* asks for the second, with its capability or without.                        *)
EXTENDS Backend, TLC

CONSTANTS a1, a2, c1, c2, p1, p2, q, i1, i2, i3

MCAircraftOf == (p1 :> a1) @@ (p2 :> a1) @@ (q :> a2)
MCCapabilityOf == (p1 :> c1) @@ (p2 :> c1) @@ (q :> c2)

Doc(capability, n, validated, eligible) ==
    [capability |-> capability, contributions |-> n, validated |-> validated, eligible |-> eligible]
Stats(aircraft, flights, eligible) ==
    [aircraft |-> aircraft, flights |-> flights, eligible |-> eligible]
Both == [aircraft |-> (a1 :> Doc(c1, 2, 2, 1)) @@ (a2 :> Doc(c2, 1, 1, 0)),
         contributions |-> (a1 :> {i1, i2}) @@ (a2 :> {i3}),
         claims |-> {i1, i2, i3},
         tombstones |-> (a1 :> None) @@ (a2 :> None),
         stats |-> Stats(2, 3, 1)]

\* Sound records, never validated ones, an aircraft erased before, the second one
\* another's, and three that cannot be.
MCSeeds ==
    {Both,
     [Both EXCEPT !.aircraft[a1] = Doc(c1, 2, 0, 0), !.stats = Stats(1, 1, 0)],
     [Both EXCEPT !.aircraft[a1] = None, !.contributions[a1] = {}, !.claims = {i3},
                  !.tombstones[a1] = c1, !.stats = Stats(1, 1, 0)],
     [Both EXCEPT !.aircraft[a2].capability = c1],
     [Both EXCEPT !.tombstones[a1] = c1, !.stats = None],
     [Both EXCEPT !.aircraft[a1] = Odd, !.stats = Odd],
     [Both EXCEPT !.aircraft[a1].contributions = 1, !.stats = Stats(3, 3, 1)]}
=============================================================================
