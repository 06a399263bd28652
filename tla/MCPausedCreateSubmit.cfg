SPECIFICATION Spec
CONSTANTS
    w1 = w1
    w2 = w2
    w3 = w3
    d1 = d1
    d2 = d2
    Dispatchers <- MCDispatchers
    Preexisting = Preexisting
    None = None
    Workers <- MCWorkers2
    Campaigns <- MCCampaigns2
    MaxAttempts = 2
    MaxFaults = 0
INVARIANTS
    SubmissionsAreExclusive
