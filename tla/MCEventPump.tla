---------------------------- MODULE MCEventPump ----------------------------
(* Instances of EventPump for TLC. *)
EXTENDS EventPump, TLC
=============================================================================
