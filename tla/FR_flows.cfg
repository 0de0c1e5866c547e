CONSTANTS
    Names <- FiveNames
    NoStep = NoStep
    NoRoot = NoRoot
    Flows <- AllFlows
    Signals <- OneSignal
    SignalOf <- AllOnOne
    TotalInvocations = 4
    MaxTransitions = 3
    ChunkItems = 2
    MaxConcurrency = 2
    QueuedMessages = 2
    ContinuationInput = 4
    MaxEvents = 3
    MaxRuns = 2
    Executions <- TwoExecutions
    Steps <- FourSteps
    Kind <- KindOf
    Caches <- CachedSteps
    Legacy <- LegacySteps
    Digest <- DigestOf
    Contract <- ContractOf
    Values <- ThreeValues
    Large <- LargeValues
    UseChoices <- Callers
    Retries = 1
    SignalLimit = 2
    MaxCalls = 2
    MaxContinuations = 1
    MaxCallFaults <- FaultsOf
SPECIFICATION ExecutionSpec
INVARIANT InvocationsAreBounded
INVARIANT OrderIsKept
INVARIANT FailuresAreHandled
INVARIANT CallsAreAnswered
INVARIANT ResultsAreValid
PROPERTY RunsHandOver
PROPERTY EverythingEnds
