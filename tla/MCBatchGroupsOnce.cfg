SPECIFICATION GroupsSpec
CONSTANTS
    q1 = q1
    q2 = q2
    q3 = q3
    h1 = h1
    h2 = h2
    w = w
    NoBucket = NoBucket
    Action <- MCAction
    CloudRead = {q1, q2, q3}
    LocalRead = {h1, h2}
    Idempotent = {q1, q3}
    GroupValue <- MCGroupValue
    Orders <- MCOrders
    BatchRuleLists <- MCBatchRuleLists
    SessionRuleLists <- MCSessionRuleLists
    SoftOrders <- MCSoftOrders
    Ranks <- MCRanks
INVARIANT GroupedOnce
