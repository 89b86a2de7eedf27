CONSTANTS
    f1 = f1
    f2 = f2
    None = None
    Content = {f1, f2}
    Clis = {p1, e1}
    Editors = {e1}
    Servers = {s1}
    Hooks = {h}
    Compacts = {}
    Deps <- EachImportsTheOther
    Near <- F1NearF2
    ProbeLimit = 1
    MinKeep = 0
    MaxRefAge = 2
    RefRenews = TRUE
    MaxTime = 3
SPECIFICATION AloneSpec
SYMMETRY AnyContent
INVARIANT FreshIsCovered
PROPERTY RefsAreCovered
