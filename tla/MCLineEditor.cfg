\* Lines of three bytes, a history of three.
CONSTANTS
    Chars <- ThreeChars
    Width <- Widths
    First <- Command
    Anywhere <- Option
    MaxLine = 3
    MaxHistory = 3
    Interrupting <- Interruptions

SPECIFICATION FairSpec
INVARIANTS
    TypeOK
PROPERTIES
    LineSpec
    ShellEnds
\* The shell ends.
CHECK_DEADLOCK FALSE
