CONSTANT
    Comparisons <- MCComparisons
SPECIFICATION Spec
INVARIANTS PassedIsEquivalent EquivalentPasses
CHECK_DEADLOCK FALSE
