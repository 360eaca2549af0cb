CONSTANTS
    Failures = 2
    Window = 1
    Cooldown = 2
    SuccessesToClose = 2
    MaxTrials = 1
    MaxTime = 5
    MaxPreempt = 1
    Requests = {r1, r2, r3}
SYMMETRY RequestSymmetry
SPECIFICATION Spec
PROPERTIES
    ClosesOnTrialEvidence
