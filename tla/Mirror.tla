-------------------------------- MODULE Mirror --------------------------------
(***************************************************************************)
(* What a table that mirrors the cluster promises, whatever fetches, watches  *)
(* and errors lie between: it shows what the cluster held at some moment, it    *)
(* never goes back, and once the cluster rests it shows what the cluster holds,  *)
(* unless its view has left.                                                     *)
(***************************************************************************)
EXTENDS Naturals

CONSTANT None   \* nothing shown so far

VARIABLES
    source,  \* version of what the cluster holds
    shown,   \* version shown, or None
    left     \* the view has left

vars == <<source, shown, left>>

Init == source = 0 /\ shown = None /\ ~left

Change == source' = source + 1 /\ UNCHANGED <<shown, left>>

Show ==
    /\ shown' \in (IF shown = None THEN 0 ELSE shown)..source
    /\ UNCHANGED <<source, left>>

Leave == left' = TRUE /\ UNCHANGED <<source, shown>>

CatchesUp == <>[](left \/ shown = source)

Safe == Init /\ [][Change \/ Show \/ Leave]_vars

Spec == Safe /\ CatchesUp
===============================================================================
