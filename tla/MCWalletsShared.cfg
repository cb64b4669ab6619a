\* Two processes: one changes the vault while the other waits for an answer.
CONSTANTS
    p1 = p1
    p2 = p2
    n1 = n1
    n2 = n2
    n3 = n3
    e1 = e1
    e2 = e2
    r1 = r1
    Procs <- TwoProcs
    Names <- TwoNames
    Entropies <- TwoEntropies
    Keypairs <- ExportedKey
    Recipients <- OneRecipient
    MaxMasters = 2
    MaxAccounts = 2
    MaxRecipients = 1
    MaxIndex = 3
    MaxRev = 4

SYMMETRY Symmetry
SPECIFICATION Spec
INVARIANTS
    AlwaysDecodable
    RevealsWhatWasShown
PROPERTIES
    DeletedAsShown
    PhraseErasedByConsent
