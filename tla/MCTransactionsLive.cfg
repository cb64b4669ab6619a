\* The outcome of a submission is always reported; one command.
CONSTANTS
    a1 = a1
    a2 = a2
    none = none
    t1 = t1
    Addresses <- OneAddress
    NoAddress <- none
    Targets <- OneTarget
    Fees <- OneFee
    Rents <- OneRent
    Balances <- OneBalance
    MaxCommands = 1
    MaxHeight = 3
    Validity = 2
    ExpiryMargin = 1
    Polls = 2
    Deadline = 5
    Pause = 2
    Timeout = 3

SPECIFICATION FairSpec
PROPERTIES
    ResultReported
