CONSTANTS
    MaxSteps = 6
    MaxParallel = 2
    ManyActions = TRUE
    NoPlan = NoPlan
SPECIFICATION Spec
INVARIANTS ResultBelongsTogether LogDescribesPlan ReferenceIsStructured VerdictUnderOwnScopes
