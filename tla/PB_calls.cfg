CONSTANTS
    d1 = d1
    d2 = d2
    k1 = k1
    k2 = k2
    t1 = t1
    t2 = t2
    NoDocument = NoDocument
    NoKey = NoKey
    Documents <- TwoDocuments
    Keys <- OneKey
    Tasks <- TwoTasks
    First = d1
    KeepLatest = 1
    DeleteLimit = 2
    MaxDraft = 2
    MaxPointer = 2
    MaxRecord = 3
SPECIFICATION Spec
CONSTRAINT Apart
SYMMETRY Alike
INVARIANT ReferencesHold
INVARIANT RecordsAreTrue
PROPERTY ImplementsStore
PROPERTY AppliedIsFinal
CHECK_DEADLOCK FALSE
