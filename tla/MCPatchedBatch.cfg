CONSTANTS
    a = a
    b = b
    c = c
    d = d
    e = e
    f = f
    Action = {a, b, c, d, e, f}
    Protocol <- MCProtocol
    InitialGroups <- MCGroups
    Rows <- MCRows
    GuardSets <- MCGuardSets
    Names <- MCNames
    Flags <- MCFlags
    Factors <- MCFactors
    Terms <- MCTerms
    Sums <- MCSums
    RowBound <- MCRowBound
SPECIFICATION BatchSpec
INVARIANTS OrderKept LastRowObeyed EachActionOnce SerialisedApart GuardsReadAlike FollowsRuntimeWhenPlain
