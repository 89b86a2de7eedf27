CONSTANTS
    Platforms = {"posix", "win32", "unsupported"}
    Layouts = {"flat", "nested", "other"}
    Answers = {"found", "refused", "redirect", "dropped"}
SPECIFICATION Spec
INVARIANTS TypeOK IInv
PROPERTIES OnlySqzFails
