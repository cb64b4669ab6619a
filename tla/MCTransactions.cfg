\* Two commands, answers that change, nodes one block behind, forks.
CONSTANTS
    a1 = a1
    a2 = a2
    none = none
    t1 = t1
    Addresses <- TwoAddresses
    NoAddress <- none
    Targets <- OneTarget
    Fees <- TwoFees
    Rents <- TwoRents
    Balances <- TwoBalances
    MaxCommands = 2
    MaxHeight = 3
    Validity = 2
    ExpiryMargin = 1
    Polls = 2
    Deadline = 5
    Pause = 2
    Timeout = 3

SPECIFICATION Spec
INVARIANTS
    TypeOK
    SignedAsShown
    ErrorMeansNothingSent
    ConfirmedLanded
    KnownWerePaid
    KeysOnlyForSigning
    DeadlineHonoured
