SPECIFICATION ApplyLiveSpec
CONSTANTS
    Deploys = {d1, d2, d3}
    NumFiles = 4
    Needs <- MCNeeds
    MaxCrashes = 2
INVARIANTS
    RecordFollowsSchema
    SuccessIsComplete
    FailureNeedsRaceOrCrash
PROPERTIES
    SchemaGetsDone
