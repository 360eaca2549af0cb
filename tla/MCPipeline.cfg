SPECIFICATION Spec
CONSTANTS
    r1 = r1
    r2 = r2
    None = None
    Requests <- MCRequests
    Arrivals <- MCArrivals
    TableIds = {"open", "strict", "moved"}
    Content <- MCContent
    Boot = "open"
    MaxReloads = 1
    Paths <- MCPaths
    Methods <- MCMethods
    RouteIds <- MCRouteIds
    Upstreams <- MCUpstreams
    Identities <- MCIdentities
    CorsOrigins = {"app"}
    CorsMethods = {"GET", "POST"}
    CookieOrigins = {"app"}
    KeyExempt = {}
    MachineSecret = TRUE
    Verifier = TRUE
SYMMETRY Symmetry
INVARIANTS OneTablePermits IdentityHonest ChargedOnce DenyListHidden CacheStaysHome
\* Every request of the instance is one request, and ends.
CHECK_DEADLOCK FALSE
