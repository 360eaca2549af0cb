SPECIFICATION Spec
CONSTANTS
    r1 = r1
    r2 = r2
    r3 = r3
    route = route
    alice = alice
    bob = bob
    None = None
    Requests <- MCRequests
    RouteKeys <- MCRouteKeys
    CallerKeys <- MCCallerKeys
    Caps <- MCCaps
    Depth = 2
    Hash <- MCHash
    Failures = 1
    Window = 1
    Cooldown = 1
    SuccessesToClose = 1
    MaxTrials = 1
INVARIANTS EveryTrialReports
