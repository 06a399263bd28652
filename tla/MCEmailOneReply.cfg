SPECIFICATION EmailSpec
CONSTANTS
    Messages = {m1}
    SafeAck = {m1}
    Processes = {p1, p2}
    Cap = 1
    NoMessage = NoMessage
INVARIANTS
    OneReply
CHECK_DEADLOCK FALSE
