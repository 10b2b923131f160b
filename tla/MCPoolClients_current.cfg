CONSTANTS
    k1 = k1
    k2 = k2
    k3 = k3
    t1 = t1
    t2 = t2
    Tasks <- MCTasks
    NoCall = NoCall
    Items <- MCItems
    Algorithm = "round_robin"
    Models <- MCModels
    NoModel = NoModel
    Patterns <- MCPatterns
    RateLimits <- MCRateLimits
    SubstringOf <- MCSubstringOf
    CoolingTimes <- MCCoolingTimes
    NoKey = NoKey
    RateLimited = RateLimited
    NoResult = NoResult
    MaxTime = 1
    MaxRequests = 2
SPECIFICATION Spec2
INVARIANT CurrentIsOwnKey
