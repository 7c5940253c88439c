SPECIFICATION AdminSpec
CONSTANTS
    Admins = {a1, a2, a3, a4}
    Ids = {k1, k2, k3}
    Names = {n1, n2}
SYMMETRY Symmetry
INVARIANTS
    DuplicatesNeedOverlap
PROPERTIES
    RevocationHolds
CHECK_DEADLOCK FALSE
