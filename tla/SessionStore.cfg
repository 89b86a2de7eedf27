CONSTANTS
    e1 = e1
    e2 = e2
    None = None
    Engines = {e1, e2}
    t1 = t1
    t2 = t2
    Turns = {t1, t2}
    Exports <- TwoTurnsOrNone
    MaxFiles = 2
    MaxCalls = 2
SPECIFICATION Spec
SYMMETRY AnyEngineAnyTurn
INVARIANT TypeOK
INVARIANT IInv
