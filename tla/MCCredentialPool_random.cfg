CONSTANTS
    k1 = k1
    k2 = k2
    k3 = k3
    Items <- MCItems
    Algorithm = "random"
    Models <- MCModels
    NoModel = NoModel
    Patterns <- MCPatterns
    RateLimits <- MCRateLimits
    SubstringOf <- MCSubstringOf
    CoolingTimes <- MCCoolingTimes
    NoKey = NoKey
    RateLimited = RateLimited
    NoResult = NoResult
    MaxTime = 2
    MaxRequests = 3
SPECIFICATION Spec
INVARIANT RoundRobinNoStarvation
