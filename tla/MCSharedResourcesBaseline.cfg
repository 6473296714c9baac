CONSTANTS
    Request = {r1,r2}
    Query = {q1, q2}
    None = None
    Torn = Torn
    MaxInvalidations = 1
    Settings <- MCSettings
    Column <- MCColumn
    IndexName <- MCIndexName
    OwnIndexes <- MCOwn
    MigratedIndexes <- MCMigrated
    MaxAlterations = 1
    Candidate <- MCCandidate
    SimName <- MCSimName
    RescueName <- MCRescueName
    SimNames <- MCSimNames
    ForeignKeys <- MCForeignKeys
    ImplicitIndexes <- MCOwn
SPECIFICATION Spec
SYMMETRY Symmetry
INVARIANT BaselineHasNoSuchIndex
