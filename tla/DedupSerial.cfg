CONSTANTS
    f1 = f1
    f2 = f2
    None = None
    Content = {f1, f2}
    Clis = {p1}
    Editors = {}
    Servers = {}
    Hooks = {h}
    Compacts = {k}
    Deps <- NoDeps
    Near <- NoneNear
    ProbeLimit = 1
    MinKeep = 0
    MaxRefAge = 3
    RefRenews = TRUE
    MaxTime = 6
SPECIFICATION SerialSpec
INVARIANT SerialInv
PROPERTY RefsDoNotDangle
PROPERTY ImplementsPerfectCache
