SPECIFICATION SFairSpec
CONSTANTS
    q1 = q1
    q2 = q2
    Missing = Missing
    None = None
    Broken <- MCBroken
    Versions <- MCVersions
    Policy <- MCPolicy
    Boot <- R1
    Requests <- MCRequests
    Limit = 2
    MaxWrites = 3
    MaxOutages = 1
    Vars <- MCVars
    Worlds <- MCWorlds
    RouteFiles <- MCRouteFiles
    BootEnv <- MCBootEnv
    Edits <- MCEdits
    Registered = {"audit"}
    OfflineWrites = 1
    MaxEdits = 2
INVARIANTS QuotaAcrossReloads ReportsHonest EffectiveHidesEnv 
PROPERTIES ServesTheFile DevFollows
