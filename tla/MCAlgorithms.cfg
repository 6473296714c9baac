CONSTANTS
    Null = Null
    CorrelatedCalls <- MCCorrelatedCalls
    RepeatedCalls <- MCRepeatedCalls
    JoinCalls <- MCJoinCalls
    MaskCalls <- MCMaskCalls
    BatchCalls <- MCBatchCalls
    Owners <- MCOwners
    store = store
    city = city
    title = title
    music = music
    rock = rock
    seven = seven
    Real = {store, city, title, music, rock}
    Numeral = {seven}
    Apostrophe = Apostrophe
    Escaped = Escaped
    Hint = {"h1", "h2", "h3", "leak"}
    NoHint = NoHint
    SlugName = {"s1", "s2"}
    Paraphrases <- MCParaphrases
    Leaking = {"leak"}
SPECIFICATION Spec
CHECK_DEADLOCK FALSE
INVARIANTS
    PlainDecorrelationPreserves
    ConsolidationPreserves
    StructuralCheckIsExact
    NormalizeKeepsThePredicates
    MaskRoundTrip
    PayloadCarriesNoName
    BatchHasNoParaphrases
