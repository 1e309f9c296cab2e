SPECIFICATION DagSpec
CONSTANTS
    q1 = q1
    q2 = q2
    q3 = q3
    h1 = h1
    h2 = h2
    c = c
    w = w
    mq = mq
    mh = mh
    mg = mg
    mc = mc
    md = md
    ms = ms
    mw = mw
    Action <- MCAction
    CandidateEdges <- MCEdges
    Mssu <- MCMssu
    ActionsOf <- MCActionsOf
    Rows <- MCRows
    Dependencies <- MCDependencies
    MustHappen <- MCMustHappen
    Representative <- MCRepresentative
    Writeback = {c, w}
    Sink = {}
    Update = {mw}
    Resource <- MCResource
    ActionPhase <- MCPhase
    BatchSafe = {q1, q2, q3, h1, h2}
    Fat = {c}
    Critical = {w}
    Slot <- MCSlot
    SoftOrder <- MCSoftOrder
    MinGap <- MCMinGap
    Budgets <- MCBudgets
    NoOverlap <- MCNoOverlap
    TotalLimit = 3
    BleLimit = 1
    CloudLimit = 1
    LocalLimit = 2
    UnknownLimit = 1
    EdgeCap = 4
INVARIANTS HardOrderKept NeverStuck VerificationAfterControl LimitsKept DataDemotedLast RefusedForAReason
PROPERTIES ForcedOnlyWhenBlocked ScheduleEnds
