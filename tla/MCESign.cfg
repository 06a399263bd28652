SPECIFICATION Spec
CONSTANTS
    Contents = {v1, v2, v3}
    Ready = {v1, v2}
    Submissions = {i1}
    Requests = {r1, r2, r3}
    Processes = {p1, p2}
    None = None
SYMMETRY MCSymmetry
INVARIANTS
    TypeOK
    SentWasReviewed
    CancelledIsClosed
    AnsweredIsDownloaded
CHECK_DEADLOCK FALSE
