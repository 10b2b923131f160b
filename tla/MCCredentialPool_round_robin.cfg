CONSTANTS
    k1 = k1
    k2 = k2
    k3 = k3
    Items <- MCItems
    Algorithm = "round_robin"
    Models <- MCModels
    NoModel = NoModel
    Patterns <- MCPatterns
    RateLimits <- MCRateLimits
    SubstringOf <- MCSubstringOf
    CoolingTimes <- MCCoolingTimes
    NoKey = NoKey
    RateLimited = RateLimited
    NoResult = NoResult
    MaxTime = 3
    MaxRequests = 4
SPECIFICATION Spec
INVARIANT TypeOK
INVARIANT RateLimitRespected
INVARIANT RoundRobinNoStarvation
