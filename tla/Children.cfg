\* Three specs, one refused; two changes by users or failures.
SPECIFICATION MCSpec
CONSTANTS
    Ducks = {d1}
    Specs = {s1, s2, bad}
    Refused = {bad}
    NoSpec = NoSpec
    Later = {s2}
    MaxChanges = 2
INVARIANT
    RestsReconciled
PROPERTIES
    RulesManagedUpstream
    OthersKept
    ChildrenConverge
