CONSTANTS
    NoValue = NoValue
    ExplainBudgetMs = 45000
    FastBudgetMs = 30000
    VerifyInstance = FALSE
    TimeoutSaysTimeout = TRUE
    Sql <- FailingSql
    Raw = "raw"
    NoSql = NoSql
    Unparseable = {"broken"}
    Repair <- MCRepair
    OriginalMeasures <- MCOriginals
    MeasuresOf <- MCMeasuresOf
    NoMeasure = NoMeasure
    NoValidation = NoValidation
    Configs <- DeadlineConfig
    MaxReflectionIterations = 2
    MaxRetryAttempts = 2
    MaxCorrectorAttempts = 2
    MaxStrategyAttempts = 3
    ComboThreshold = 2500
    ComboMinMs = 1000
    RecursionLimit = 25
SPECIFICATION Spec
INVARIANT TimeoutsAreRecorded
