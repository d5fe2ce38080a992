\* Two dies, one resource; memory for all of them.
SPECIFICATION Spec
CONSTANTS
    Parts = {"Status"}
    Cells = {c1, c2, c3, c4}
    Values = {0, 1}
    Nil = Nil
    Dies = {d1, d2}
    Vars = {v}
SYMMETRY Symmetry
PROPERTIES
    ImmutableDiesStay
    SealsStay
    CachedStays
