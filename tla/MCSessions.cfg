\* Two revisions beyond the first, two changes to a draft.
CONSTANTS
    hash = hash
    none = none
    w1 = w1
    w2 = w2
    mine = mine
    Flags <- TwoFlags
    Pins <- OnePin
    NoPin = none
    Intervals <- TwoIntervals
    MinInterval = 2
    WalletNames <- TwoWallets
    MaxWallets = 1
    AliasNames <- OneAlias
    Words <- AllWords
    Targets <- AliasedWords
    MaxAliases = 1
    MaxSize = 1
    Foreign <- CachingElsewhere
    MaxRev = 3
    MaxChanges = 2
    MaxAge = 2

SPECIFICATION Spec
INVARIANTS
    TypeOK
    PolicyMatchesFile
    KeyOnlyIfCaching
PROPERTIES
    ReviewedAgainstFile
    RefreshesApart
