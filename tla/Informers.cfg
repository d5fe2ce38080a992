\* Two Ducks that mark one of two types, two changes, two failures.
SPECIFICATION FairSpec
CONSTANTS
    Ducks = {d1, d2}
    Types = {t1, t2}
    None = None
    MaxChanges = 2
    MaxFaults = 2
INVARIANTS
    OneHandlerPerEntry
    RestsInformed
PROPERTIES
    ReadyDuckInformed
    DeletedDuckForgotten
\* Nothing happens any more when all Ducks are gone.
CHECK_DEADLOCK FALSE
