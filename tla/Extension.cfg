CONSTANTS
    t1 = t1
    t2 = t2
    Tabs = {t1, t2}
    Texts <- Names
    TextsOf <- Typed
    Length <- Lengths
    Js <- Squeezed
    Answers <- Engine
    MaxRecorded = 1
    None = None
    Documents <- Squeezables
    Document <- Written
    Keys = {"", "k", "l"}
SPECIFICATION Spec
INVARIANTS TypeOK IInv LogsAreCounted AllLossesAreExpendable NothingIsLengthened
PROPERTIES ImplementsCalls EveryCallReturns
