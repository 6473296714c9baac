CONSTANTS
    NoValue = NoValue
    ExplainBudgetMs = 45000
    FastBudgetMs = 30000
    VerifyInstance = TRUE
    TimeoutSaysTimeout = TRUE
SPECIFICATION Spec
INVARIANTS
    ApprovedIsEquivalent
    FullScaleVerdictStands
    LandsWereFaster
    FastRewriteLands
PROPERTY FasterNeverWorse
