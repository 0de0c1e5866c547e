CONSTANTS
    a1 = a1
    a2 = a2
    r0 = r0
    r1 = r1
    r2 = r2
    p1 = p1
    p2 = p2
    t1 = t1
    t2 = t2
    NoRevision = NoRevision
    NoActivation = NoActivation
    NoProcess = NoProcess
    Workflows <- WorkflowParts
    Schedules <- ScheduleParts
    Activations <- TwoActivations
    Revisions <- TwoRevisions
    Processes <- TwoProcesses
    Tasks <- TwoTasks
    ProcessOf <- OnTwoProcesses
    HasBinding = TRUE
    MaxHistory = 3
    MaxVersion = 2
    First = r0
SPECIFICATION Spec
SYMMETRY RaceSymmetry
CONSTRAINT Healthy
INVARIANT WinnersAreInLine
PROPERTY PointerMovesOnlyWhenReady
CHECK_DEADLOCK FALSE
