SPECIFICATION Spec
CONSTANTS
    k1 = k1
    k2 = k2
    k3 = k3
    owner = owner
    staff = staff
    d1 = d1
    Keys <- MCKeys
    Users = {owner, staff}
    Protected = {owner}
    OwnerOf <- MCOwnerOf
    Counting <- MCCounting
    Challenges = {c1}
    Attempts = {a1, a2}
    MaxSignatures = 2
    Nonces = {n1, n2}
    StepUps = {r1, r2}
    Approvals = {q1, q2}
    MaxProbe = 2
    Workers = {}
    Dispatchers = {d1}
    Campaigns = {}
    MaxAttempts = 1
    None = None
SYMMETRY MCSymmetry
CONSTRAINT MCFocus
INVARIANTS
    TypeOK
    LoginOnce
    OneWinnerPerReading
    AnswersAgree
    StepUpOnce
PROPERTIES
    CountNeverFalls
    OwnerKeepsAKey
    LiveChallengeStays
    ApprovedAsSeen
CHECK_DEADLOCK FALSE
