\* One Duck whose type may be edited; nothing fails.
SPECIFICATION FairSpec
CONSTANTS
    Ducks = {d1}
    Types = {t1, t2}
    None = None
    MaxChanges = 1
    MaxFaults = 0
PROPERTY
    InformersFollowDucks
CHECK_DEADLOCK FALSE
