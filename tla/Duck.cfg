\* Two kinds, two changes by users, one failure; the cache is resynced.
SPECIFICATION FairSpec
CONSTANTS
    Kinds = {k1, k2}
    None = None
    MaxChanges = 2
    MaxFaults = 1
INVARIANT
    NoLostChange
PROPERTY
    StatusConverges
