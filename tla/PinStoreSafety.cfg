\* Two calls, of one server or of two, two pins and room for one.
SPECIFICATION Spec
CONSTANTS
    Calls = {c1, c2}
    Servers = {s1, s2}
    Pins = {p1, p2}
    Weight <- MCWeight
    MaxWeight = 1
    MaxBytes = 1
    Grace = 2
    MaxClock = 3
SYMMETRY MCSymmetry
INVARIANTS
    OneFetchPerPin
PROPERTIES
    TreesAppearWhole
    GraceHoldsUntilListed
