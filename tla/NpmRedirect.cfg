CONSTANTS
    Platforms = {"posix"}
    Layouts = {"flat", "nested"}
    Answers = {"found", "redirect"}
SPECIFICATION Spec
INVARIANT SqzIsInstalled
