\* Two tokens, wrapped SOL and an account that is not an associated one; a
\* transaction holds two closes, or one with its burn.
CONSTANTS
    a = a
    b = b
    w = w
    x = x
    Accounts <- FourAccounts
    Associated <- ThreeAssociated
    Native <- WrappedSol
    MaxAmount = 1
    BurnSize = 1
    CloseSize = 1
    Capacity = 3
    MaxCommands = 2
    MaxSent = 3

SPECIFICATION Spec
INVARIANTS
    TypeOK
    ShownIsSent
    OneBatchAtATime
    BurnsWereGranted
    CountIsTrue
CHECK_DEADLOCK FALSE
