CONSTANTS
    Plans <- MCPlans
    Policies <- MCPolicies
SPECIFICATION Spec
INVARIANTS BuiltIsValid OneAtATime OverlapsAreHarmless SavedAsPromised HighestSavingWins GivenUpForAReason
CHECK_DEADLOCK FALSE
