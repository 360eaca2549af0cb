SPECIFICATION TSpec
CONSTANTS
    v1 = v1
    v2 = v2
    k1 = k1
    None = None
    Verifiers <- MCVerifiers
    Kids <- MCKids
    MinTtl = 1
    MaxKeyTtl = 1
    MaxAges <- MCMaxAges
    StaleIfError = 1
    FetchTimeout = 1
    MaxTime = 4
    MaxRotations = 1
    Tokens <- MCTokens
    Issuers <- MCIssuers
    JwtIssuer = "p1"
    Audiences = {"p1"}
    Algorithms = {"RS256", "ES256"}
    Required = {"tenant"}
    Skew = 1
INVARIANTS SingleFlight
PROPERTIES NeverOlder VerificationEnds IdentityProven
