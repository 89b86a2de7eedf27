CONSTANTS
    f1 = f1
    f2 = f2
    None = None
    Content = {f1, f2}
    Clis = {}
    Editors = {}
    Servers = {s1}
    Hooks = {h}
    Compacts = {}
    Deps <- NoDeps
    Near <- NoneNear
    ProbeLimit = 1
    MinKeep = 0
    MaxRefAge = 9
    RefRenews = TRUE
    MaxTime = 3
SPECIFICATION SerialSpec
PROPERTY RefsDoNotDangle
