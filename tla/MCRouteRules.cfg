SPECIFICATION RulesSpec
CONSTANTS
    n = n
    None = n
    IndexAbove = 2
    DefaultMethods <- Get
    Upstreams <- MCUpstreams
    KeysOn = TRUE
    KeyExempt <- MCExempt
    KeyExemptGroups <- MCGroups
    MachineSecret = TRUE
    InternalListen = TRUE
    CacheOn = TRUE
    SyncEvery = 1
    Second = 2
    TrustsProxies = FALSE
    Files <- MCFiles
    Revisions <- MCRevisions
    Queries <- MCQueries
    Mounts <- MCMounts
    HealthPath <- MCHealth
    BasePath <- MCBase
INVARIANTS RightRoute UpstreamSeesMatched OfflineToolsAgree
