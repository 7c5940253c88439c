SPECIFICATION Spec
CONSTANTS
    Calls = {c1, c2, c3}
    RpmLimits = {0, 1, 2}
    TpmLimits = {0, 2}
    Sizes = {2, 3}
    Window = 2
    MaxTime = 4
SYMMETRY Symmetry
INVARIANTS
    RequestsBounded
    TokensBounded
PROPERTIES
    RejectionsDeserved
    TokenRejectionsDeserved
CHECK_DEADLOCK FALSE
