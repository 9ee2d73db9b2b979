-------------------------------- MODULE Once --------------------------------
(* A value used many times, evaluated once.                                *)

\* F(v).  Binding v to the member of a one-element set makes TLC evaluate it
\* before F and not at every use.
With(v, F(_)) == CHOOSE y \in {F(x) : x \in {v}} : TRUE
=============================================================================
