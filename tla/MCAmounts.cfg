\* Decimal digits of which some are typed, words up to 255.
CONSTANTS
    Base = 10
    MaxWord = 255
    MaxDecimals = 2
    Symbols <- SomeSymbols
    MaxLength = 5

SPECIFICATION AmountSpec
INVARIANTS
    ParseExact
    ShownIsMeant
\* An amount has been typed or shown.
CHECK_DEADLOCK FALSE
