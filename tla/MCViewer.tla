------------------------------- MODULE MCViewer -------------------------------
(* A dump of three flights of which memory holds the one on screen and one more, *)
(* a log whose flights cannot be shown, and a file that is no log.               *)
EXTENDS Viewer

MCFiles == {"dump", "broken", "photo"}
MCFlights == [f \in MCFiles |->
    CASE f = "dump" -> <<"flight", "flight", "flight">>
      [] f = "broken" -> <<"empty", "faulty">>
      [] f = "photo" -> <<>>]
MCCost == [k \in Kinds |-> IF k = "flight" THEN 1 ELSE 0]
=============================================================================
