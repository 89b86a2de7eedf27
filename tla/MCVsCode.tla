------------------------------ MODULE MCVsCode ------------------------------
(* An instance of VsCode for TLC: one window, the binary of the settings    *)
(* can be changed for another, and one file of three is neither skipped nor *)
(* of a language without a parser.                                          *)
EXTENDS VsCode

CONSTANTS source, prose, tiny

Files == {source, prose, tiny}
LanguageOf == [d \in Files |-> IF d = prose THEN "plaintext" ELSE "shellscript"]
SqzNames == [l \in {"plaintext", "shellscript"} |-> IF l = "shellscript" THEN "bash" ELSE None]
Parsed == {"bash"}
TooSmall == {tiny}

=============================================================================
