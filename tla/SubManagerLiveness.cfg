\* One DuckType, deleted and created again, edited under way; two failures.
SPECIFICATION FairSpec
CONSTANTS
    Names = {n1}
    UIDs = {u1, u2}
    None = None
    MaxVersions = 7
    MaxFaults = 2
PROPERTIES
    DeletionCompletes
    EventuallyStarted
\* Nothing is left to do once every DuckType is gone and no UID is left.
CHECK_DEADLOCK FALSE
