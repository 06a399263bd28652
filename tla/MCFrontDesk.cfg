SPECIFICATION Spec
CONSTANTS
    Slots = {s1}
    Bookings = {b1, b2, b3}
    MAX_PER_SLOT = 2
    LeadIds = {l1, l2}
    Requests = {r1, r2}
    Operators = {o1}
    Moves = {"contacted"}
    Messages = {m1}
    SafeAck = {m1}
    Processes = {p1, p2}
    Cap = 2
    None = None
    NoMessage = NoMessage
SYMMETRY MCSymmetry
CONSTRAINT MCFocus
INVARIANTS
    TypeOK
    NoOversell
    AlertedOnce
    OneReplyUnlessOverlap
PROPERTIES
    LostToStaleCopy
    PurgedStays
    DecisionStands
    SettledStays
CHECK_DEADLOCK FALSE
