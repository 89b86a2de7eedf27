CONSTANTS
    Empty = Empty
    None = None
    long = long
    plain = plain
    mid = mid
    midBlank = midBlank
    Texts <- AllTexts
    Length <- LengthOf
    Trim <- Trimmed
    Wasm <- Background
    Js <- Passes
    Pastes = {}
    Threshold = 1
SPECIFICATION Spec
PROPERTY NoBannerNoRewrite
