SPECIFICATION Spec
CONSTANTS
    w1 = w1
    w2 = w2
    w3 = w3
    d1 = d1
    d2 = d2
    Workers <- MCWorkers2
    Dispatchers <- MCDispatchers
    Campaigns <- MCCampaigns2
    Preexisting = Preexisting
    MaxAttempts = 2
    MaxFaults = 1
    None = None
SYMMETRY MCSymmetry
INVARIANTS
    TypeOK
    AtMostOneCampaign
    CampaignsAreFenced
    CreatedIsReal
PROPERTIES
    OnlyOwnDispatchIsRearmed
