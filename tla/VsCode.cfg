CONSTANTS
    None = None
    source = source
    prose = prose
    tiny = tiny
    Windows = {w1}
    Binaries = {old, new}
    Health = {"works", "flaky"}
    Documents <- Files
    Language <- LanguageOf
    ToSqz <- SqzNames
    AstLanguages <- Parsed
    Skipped <- TooSmall
    MaxLog = 2
    MaxDelayed = 1
SPECIFICATION Spec
INVARIANTS TypeOK IInv
PROPERTIES NoDataIsAFailure BarCatchesUp DisposedIsQuiet
