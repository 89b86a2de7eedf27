CONSTANTS
    Empty = Empty
    None = None
    long = long
    plain = plain
    mid = mid
    midBlank = midBlank
    Texts <- AllTexts
    Length <- LengthOf
    Trim <- Trimmed
    Wasm <- Background
    Js <- Passes
    Pastes = {p1, p2}
    Threshold = 1
SPECIFICATION Spec
INVARIANTS TypeOK IInv BannerIsPending StableTextIsLeftAlone
PROPERTIES OwnTextIsLeftAlone LockIsReleased
