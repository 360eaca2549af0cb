SPECIFICATION ExchangeSpec
CONSTANTS
    a = a
    b = b
    c = c
    main = main
    rival = rival
    None = None
    Addrs <- MCAddrs
    Answers <- MCAnswers
    MaxAddrs <- MCMaxAddrs
    Retries <- MCRetries
    Starts <- MCStarts
    MaxTries <- MCMaxTries
    Exchanges <- MCExchanges
    Main = main
    HeaderTimeout = 1
    Settings <- MCSettings
    HookBudget = 2
    ChainBudget = 3
    Inflight = 1
    LookupTimeout = 1
    MaxTime = 5
CONSTRAINT MCUntilOver
INVARIANTS NoDuplicateDelivery AttemptBudget NoTruncatedReplay PolicyInBudget
PROPERTIES FailoverTriesAll AddressesFresh
\* An exchange ends, and time with the run.
CHECK_DEADLOCK FALSE
