CONSTANTS
    c1 = c1
    c2 = c2
    t1 = t1
    t2 = t2
    NoClient = NoClient
    NoTarget = NoTarget
    Clients <- OneClient
    Retriers <- NoRetry
    Targets <- TwoTargets
    MaxVersion = 3
    DispatchAttempts = 2
    Abandonable <- AllThree
SPECIFICATION Spec
INVARIANT CanceledNeverStarts
INVARIANT FailedMissesOnlyLostRuns
INVARIANT StartedNamesTheRun
INVARIANT RunUsesPinnedTarget
PROPERTY ImplementsLifecycle
