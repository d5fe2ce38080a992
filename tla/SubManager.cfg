\* Two DuckTypes share the only worker, or one is deleted and created again and
\* edited under way; one failure.
SPECIFICATION FairSpec
CONSTANTS
    Names = {n1, n2}
    UIDs = {u1, u2}
    None = None
    MaxVersions = 3
    MaxFaults = 1
INVARIANTS
    NoOrphanSubManager
    CancelledOnlyWhenDeleting
    NothingForgotten
    AwaitedAnswers
PROPERTIES
    ImplementsLifecycle
    NoLostWrite
    EveryRequestIsTaken
\* Nothing is left to do once every DuckType is gone and no UID is left.
CHECK_DEADLOCK FALSE
