SPECIFICATION Spec
CONSTANTS
    Slots = {s1}
    Bookings = {b1}
    MAX_PER_SLOT = 2
    LeadIds = {l1, l2}
    Requests = {r1, r2}
    Operators = {o1}
    Moves = {"contacted"}
    Messages = {}
    SafeAck = {}
    Processes = {}
    Cap = 1
    None = None
    NoMessage = NoMessage
PROPERTIES
    FirstResponseStays
CHECK_DEADLOCK FALSE
