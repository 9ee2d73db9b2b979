--------------------------- MODULE NewestSelection ---------------------------
(***************************************************************************)
(* What the shell's import slot promises the page: there is one slot, the  *)
(* newest selection owns it, the page hears at most one outcome for a      *)
(* selection and only while it is the newest one, and it hears "ready"     *)
(* only of a log the slot holds.  Selections are counted, 0 being none.    *)
(***************************************************************************)
EXTENDS Naturals

VARIABLES newest,  \* the selection that owns the slot
          held,    \* TRUE when the slot holds that selection's log
          told     \* the last outcome the page heard: [gen, kind]

Untold == [gen |-> 0, kind |-> "none"]

Init == newest = 0 /\ held = FALSE /\ told = Untold

\* A newer selection, a share without a file, a lost viewer or the end of the
\* activity takes the slot over, and its log is gone.
Select == newest' = newest + 1 /\ held' = FALSE /\ UNCHANGED told

\* The copy of the newest selection completes.
Hold == ~held /\ told.gen # newest /\ held' = TRUE /\ UNCHANGED <<newest, told>>

\* The page hears how the newest selection ended, once.
Tell(kind) ==
    /\ told.gen # newest
    /\ kind = "ready" => held
    /\ told' = [gen |-> newest, kind |-> kind]
    /\ UNCHANGED <<newest, held>>

\* The process dies; a new one starts from nothing.
Restart == newest' = 0 /\ held' = FALSE /\ told' = Untold

Next == Select \/ Hold \/ (\E kind \in {"ready", "failed"} : Tell(kind)) \/ Restart

Spec == Init /\ [][Next]_<<newest, held, told>>
=============================================================================
