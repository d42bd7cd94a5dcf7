\* A key while another context connects.
SPECIFICATION Spec
CONSTANTS
    None = None
    A = A  B = B  n1 = n1  n2 = n2
    Sittings <- ActingOnTwo
INVARIANTS
    ActsOnSelectedRow
CHECK_DEADLOCK FALSE
