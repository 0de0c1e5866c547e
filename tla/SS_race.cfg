CONSTANTS
    c1 = c1
    c2 = c2
    t1 = t1
    t2 = t2
    NoClient = NoClient
    NoTarget = NoTarget
    Clients <- TwoClients
    Retriers <- TwoClients
    Targets <- OneTarget
    MaxVersion = 2
    DispatchAttempts = 1
    Abandonable <- BothOfThem
SPECIFICATION Spec
SYMMETRY ClientSymmetry
CONSTRAINT SureDispatch
INVARIANT TypeOK
INVARIANT OneOutcomePerVersion
INVARIANT AnswersAreTrue
PROPERTY RecordNeverGoesBack
