CONSTANTS
    Failures = 2
    Window = 1
    Cooldown = 2
    SuccessesToClose = 2
    MaxTrials = 1
    MaxTime = 4
    MaxPreempt = 1
    Requests = {r1, r2, r3}
SPECIFICATION FairSpec
INVARIANTS
    NoLeakedTrial
PROPERTIES
    OpensOnlyOnBurst
    HalfOpenResolves
