CONSTANTS
    t1 = t1
    t2 = t2
    t3 = t3
    t4 = t4
    h1 = h1
    h2 = h2
    Task = {t1, t2, t3, t4}
    Cloud = {t1, t2, t3}
    Host = {h1, h2}
    HostOf <- MCHostOf
    Burst = 1
    MaxQps = 1000
    BaseBackoff = 300
    BackoffMax = 2000
    Factor10 = 20
    TickMs = 50
    AgeCap = 200
SPECIFICATION FairSpec
INVARIANTS TypeOK WindowBound
PROPERTIES BackoffNotShortened AcquireTerminates
