CONSTANTS
    a = a
    b = b
    c = c
    d = d
    e = e
    g = g
    h = h
    Action = {a, b, c, d, e, h}
    Protocol <- MCProtocol
    Plan <- MCPlan
    GuardToken = {g}
    Targets <- MCTargets
    BucketOf <- MCBucketOf
    Exports = {TRUE, FALSE}
    Cancellable = TRUE
SPECIFICATION FairSpec
INVARIANTS NoTaskLeftBehind BeginsAreClosed
PROPERTIES KeepsContract CallEnds
