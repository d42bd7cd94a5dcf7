------------------------------- MODULE PodFeed -------------------------------
(***************************************************************************)
(* What a pods table promises, whatever lies between it and the cluster:   *)
(* every row shows its pod as it was at some moment, a row only ever moves  *)
(* forward in its pod's history, and once the cluster rests the table       *)
(* shows what the cluster holds.                                            *)
(***************************************************************************)
EXTENDS Integers, FiniteSetsExt, Sequences

CONSTANTS Keys,       \* the pods, by namespace and name
          MaxChanges  \* bound on the changes of the cluster

VARIABLES
    log,   \* the changes of the cluster's pods, in the order of their versions
    view,  \* pod -> the version of the row shown, or Absent
    upto,  \* pod -> the moment of its history the table has reached
    left   \* the table's view has left

vars == <<log, view, upto, left>>

\* Version 0 stands for no row.
Absent == 0

\* The version of pod k after the first i changes.
RowAt(k, i) ==
    LET changes == {j \in 1..i : log[j].key = k}
        latest  == Max(changes)
    IN  IF changes = {} THEN Absent
        ELSE IF log[latest].alive THEN latest ELSE Absent

Now == Len(log)

\* A pod appears or changes, or one that exists goes away.
Change(k, alive) ==
    /\ Len(log) < MaxChanges
    /\ alive \/ RowAt(k, Now) # Absent
    /\ log' = Append(log, [key |-> k, alive |-> alive])

Init ==
    /\ log = <<>>
    /\ view = [k \in Keys |-> Absent]
    /\ upto = [k \in Keys |-> 0]
    /\ ~left

ClusterStep == \E k \in Keys, alive \in BOOLEAN : Change(k, alive) /\ UNCHANGED <<view, upto, left>>

\* Rows move forward, each to what its pod was at the moment it reaches.
Show ==
    /\ upto' \in [Keys -> 0..Now] /\ \A k \in Keys : upto'[k] >= upto[k]
    /\ view' = [k \in Keys |-> RowAt(k, upto'[k])]
    /\ UNCHANGED <<log, left>>

Leave == left' = TRUE /\ UNCHANGED <<log, view, upto>>

Current == view = [k \in Keys |-> RowAt(k, Now)]

\* The part without liveness.
Safe == Init /\ [][ClusterStep \/ Show \/ Leave]_vars

Spec == Safe /\ <>[](left \/ Current)
=============================================================================
