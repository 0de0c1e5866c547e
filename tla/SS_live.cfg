CONSTANTS
    c1 = c1
    c2 = c2
    t1 = t1
    t2 = t2
    NoClient = NoClient
    NoTarget = NoTarget
    Clients <- OneClient
    Retriers <- NoRetry
    Targets <- OneTarget
    MaxVersion = 2
    DispatchAttempts = 1
    Abandonable <- NoVersion
SPECIFICATION FairSpec
PROPERTY EverythingSettles
