------------------------ MODULE MCBrowserInterceptor ------------------------
(* An instance of BrowserInterceptor for TLC: two long texts of the same    *)
(* number of tokens, of which one cannot be compressed; the compression of  *)
(* the other is still longer than the threshold and has a variant that ends *)
(* in a blank.                                                              *)
EXTENDS BrowserInterceptor

CONSTANTS long, plain, mid, midBlank

AllTexts == {Empty, long, plain, mid, midBlank}
LengthOf == [t \in AllTexts |-> CASE t = Empty -> 0 [] t = long -> 12
                                  [] t = plain -> 11 [] t = mid -> 5 [] OTHER -> 6]
Trimmed == [t \in AllTexts |-> IF t = midBlank THEN mid ELSE t]
Background == [t \in AllTexts |-> CASE t = long -> midBlank [] t = plain -> None [] OTHER -> t]
Passes == [t \in AllTexts |-> IF t \in {long, midBlank} THEN mid ELSE t]

=============================================================================
