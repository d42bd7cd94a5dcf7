------------------------------ MODULE MCTuiApp ------------------------------
(* Instances of TuiApp for TLC. *)
EXTENDS TuiApp, TLC

CONSTANTS A, B, n1, n2

Sits(cs, ns, presses, shells, events) ==
    {[contexts |-> cs, namespaces |-> ns, keys |-> presses,
      shells |-> shells, events |-> events]}

\* One context and namespace, whose watches send rows to act on
Acting == Sits({A}, {n1}, 2, 1, 1)

\* Keys in quick succession between contexts and namespaces
Moving == Sits({A, B}, {n1, n2}, 2, 0, 0)

Both == Acting \cup Moving

\* A key while another context connects
ActingOnTwo == Sits({A, B}, {n1}, 2, 1, 1)

\* Two shells asked for in a row
TwoShells == Sits({A}, {n1}, 1, 2, 1)

\* A namespace picked while rows are on their way
MovingWithRows == Sits({A}, {n1, n2}, 1, 0, 2)

\* Two connects that overlap
TwoConnects == Sits({A, B}, {n1}, 2, 0, 1)
=============================================================================
