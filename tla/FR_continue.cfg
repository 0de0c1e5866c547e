CONSTANTS
    Names <- FiveNames
    NoStep = NoStep
    NoRoot = NoRoot
    Flows <- LoopFlows
    Signals <- OneSignal
    SignalOf <- AllOnOne
    TotalInvocations = 4
    MaxTransitions = 3
    ChunkItems = 2
    MaxConcurrency = 2
    QueuedMessages = 2
    ContinuationInput = 4
    MaxEvents = 0
    MaxRuns = 2
SPECIFICATION Spec
PROPERTY ContinuationIsNoFailure
