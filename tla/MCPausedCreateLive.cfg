SPECIFICATION FairSpec
CONSTANTS
    w1 = w1
    w2 = w2
    w3 = w3
    d1 = d1
    d2 = d2
    Workers <- MCWorkers1
    Dispatchers <- MCDispatchers
    Campaigns <- MCCampaigns1
    Preexisting = Preexisting
    MaxAttempts = 2
    MaxFaults = 1
    None = None
PROPERTIES
    ApprovalSettles
    CreatedIsSettled
