SPECIFICATION Spec
CONSTANTS
    PhotoCount = 3
    Processes = {p1, p2}
    Readers = {r1}
    MaxWanted = 2
    None = None
SYMMETRY MCSymmetry
CONSTRAINT MCFocus
INVARIANTS
    TypeOK
    ListedWithinAMinute
    ListedAtOnce
PROPERTIES
    NothingRearranged
CHECK_DEADLOCK FALSE
