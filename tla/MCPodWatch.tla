----------------------------- MODULE MCPodWatch -----------------------------
(* Instances of PodWatch for TLC: two pods that appear, change, go away and    *)
(* come back while the watch fails and relists.                               *)
EXTENDS PodWatch, TLC

CONSTANTS a, b
=============================================================================
