\* Two Ducks that name one of two kinds, two resource names, two changes.
SPECIFICATION Spec
CONSTANTS
    Ducks = {d1, d2}
    Kinds = {k1, k2}
    Versions = {v1, v2}
    Objects = {o1, o2}
    None = None
    MaxChanges = 2
SYMMETRY Symmetry
INVARIANTS
    ListCovers
    DeleteCovers
    GetIsUnambiguous
    StaleAnswerWakes
\* A call ends.
CHECK_DEADLOCK FALSE
