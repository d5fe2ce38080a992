\* Two DuckTypes; kinds defined twice; the process ends once.
SPECIFICATION FairSpec
CONSTANTS
    FlagSets <- MCFlagSets
    MaxExits = 1
    Labels <- MCLabels
    Empty = ""
    lower <- MClower
    listKind <- MClistKind
    Names <- MCNames
    Owners <- MCNames
    Specs <- MCSpecs
    None = None
    DuckKinds <- MCDuckKinds
    ListKinds <- MCListKinds
    SharedKinds = {crd}
    NoManager = NoManager
    NoInformer = NoInformer
    MaxIncarnations = 2
INVARIANTS
    ServersUseOwnOptions
    FreshReads
    KindsFitName
    StaysAdmitted
    WaitsForServedOnly
PROPERTY
    StartEnds
