CONSTANTS
    f1 = f1
    f2 = f2
    None = None
    Content = {f1}
    Clis = {p1}
    Editors = {}
    Servers = {s1}
    Hooks = {h}
    Compacts = {k}
    Deps <- NoDeps
    Near <- NoneNear
    ProbeLimit = 1
    MinKeep = 0
    MaxRefAge = 2
    RefRenews = FALSE
    MaxTime = 3
SPECIFICATION Spec
INVARIANT TypeOK
INVARIANT IInv
PROPERTY RefsAreCovered
