\* update_config runs once at startup; after it the listing is fixed, so
\* the state after the load has no successor.
CONSTANTS
    ProviderConfigs <- MCProviderConfigs
    RawEntries <- MCRawEntries
    MaxEntries = 2
    ModelsList <- MCModelsList
    SkNames = {"sk1"}
    ApiList = {"sk1"}
    Star = "*"
    All <- MCAll
    NoModelField = NoModelField
SPECIFICATION Spec
INVARIANT ListingIsReference
INVARIANT WeightsAreReference
CHECK_DEADLOCK FALSE
