CONSTANTS
    f1 = f1
    f2 = f2
    None = None
    Content = {f1, f2}
    Clis = {p1}
    Editors = {}
    Servers = {}
    Hooks = {h}
    Compacts = {}
    Deps <- F1ImportsF2
    Near <- NoneNear
    ProbeLimit = 1
    MinKeep = 0
    MaxRefAge = 2
    RefRenews = TRUE
    MaxTime = 4
SPECIFICATION SerialSpec
PROPERTY RefsDoNotDangle
