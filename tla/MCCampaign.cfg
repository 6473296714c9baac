CONSTANTS
    Query = {"q1", "q2"}
    Family = {"qwen", "llama", "mistral"}
    Variant = {"think", "nothink"}
    ClusterFrequency = 3
    MinFrequency = 3
    MinModels = 2
    MinFrequencySingle = 2
    AttemptFactor = 2
    MaxTries = 3
    Settings <- MCSettings
SPECIFICATION Spec
CHECK_DEADLOCK FALSE
INVARIANTS
    TypeOK
    RunsNotExceeded
    AttemptsBounded
    EmptyCellNeverDone
    OwnRuleIsNoConvergence
PROPERTY CampaignEnds
