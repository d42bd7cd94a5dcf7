-------------------------- MODULE MCClusterActions --------------------------
(* Instances of ClusterActions for TLC. *)
EXTENDS ClusterActions

CONSTANTS p1, p2, d1

TheMenus == {{"window", "edit"}, {"window", "delete"}, {"edit", "merge", "delete"}, {"undo", "merge"},
             {"undo", "edit"}, {"undo", "delete"}, {"drain", "cordon"}, {"trigger"}}
=============================================================================
