SPECIFICATION LimiterSpec
CONSTANTS
    r1 = r1
    r2 = r2
    r3 = r3
    Absent = Absent
    Requests <- MCRequests
    Obedient <- MCObedient
    Limit = 2
    Interval = 5
    Second = 2
    MaxLag = 2
    MaxBumps = 1
    MaxTime = 10
    a = a
    b = b
    k1 = k1
    Replicas <- MCReplicas
    SharedKeys <- MCOneKey
    SharedLimit = 1
    Batch = 1
    Progress = 1
    MaxBucket = 2
    MaxIncarnations = 2
    Budgets <- MCBudgets
INVARIANTS BurstBound RetryAfterSuffices SketchOvershoot CountsBacked
PROPERTY Converges
