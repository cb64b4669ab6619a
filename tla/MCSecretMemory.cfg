\* Argon2id takes five pages, every other owner one; twelve are required.
CONSTANTS
    Slots <- TenSlots
    Pages <- Sizes
    Limits <- AroundRequired
    Required = 12
    Unlimited <- NoLimit

SPECIFICATION Spec
INVARIANTS
    SecretsLocked
    AllowanceSuffices
\* Where the hard limit is too low nothing can be done.
CHECK_DEADLOCK FALSE
