\* One DuckType whose sub-manager may fail once.
SPECIFICATION ResyncSpec
CONSTANTS
    Names = {n1}
    UIDs = {u1}
    None = None
    MaxVersions = 4
    MaxFaults = 1
PROPERTY
    AlreadyRunning
CHECK_DEADLOCK FALSE
