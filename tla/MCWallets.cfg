\* One process, long histories: every order of new, import and delete.
CONSTANTS
    p1 = p1
    p2 = p2
    n1 = n1
    n2 = n2
    n3 = n3
    e1 = e1
    e2 = e2
    r1 = r1
    Procs <- OneProc
    Names <- ThreeNames
    Entropies <- TwoEntropies
    Keypairs <- ExportedKey
    Recipients <- NoRecipients
    MaxMasters = 3
    MaxAccounts = 3
    MaxRecipients = 0
    MaxIndex = 3
    MaxRev = 5

SYMMETRY Symmetry
SPECIFICATION Spec
INVARIANTS
    AlwaysDecodable
    KeysMatch
PROPERTIES
    NeverReissued
