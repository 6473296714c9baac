CONSTANTS
    Request = {r1, r2}
    Query <- MCQuery
    Tag <- MCTag
    Signature <- MCSignature
    SavedSignature <- MCSavedSignature
    Strategy = {a, b}
    None = None
    Torn = Torn
    MaxLoss = 1
    MaxGain = 3
    NoiseFloor = 2
    MinPrecision = 34
    MinHitsToJudge = 3
    Settings <- MCSettings
    MaxAsks = 4
SPECIFICATION Spec
SYMMETRY Symmetry
CHECK_DEADLOCK FALSE
INVARIANTS
    TypeOK
    PrecisionFloor
    ServedLandedOnTheShape
    CountsAreExactAlone
