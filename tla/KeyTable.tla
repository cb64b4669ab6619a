------------------------------ MODULE KeyTable ------------------------------
(***************************************************************************)
(* The plaintext of the vault: recovery phrases (masters), wallets         *)
(* (accounts) and known recipients, and the functions of impl Vault that   *)
(* change them (src/src/vault.rs).  Operators only: each function takes    *)
(* the table it works on and returns the new one; its error returns are    *)
(* the operator XAccepted beside it.                                       *)
(*                                                                         *)
(* A keypair is the pair <<entropy, index>> it is derived from, and stands *)
(* for its own address; an imported key may well be the key of a derived   *)
(* wallet.  A position in the masters counts from 1 here, from 0 there.    *)
(***************************************************************************)
EXTENDS Integers, Sequences, FiniteSets, FiniteSetsExt, SequencesExt

CONSTANTS
    Names,           \* wallet names
    Entropies,       \* recovery phrases
    Keypairs,        \* private keys that are imported by themselves
    Recipients,      \* addresses that transfers go to
    MaxMasters,      \* MAX_MASTERS
    MaxAccounts,     \* MAX_ACCOUNTS
    MaxRecipients,   \* MAX_RECIPIENTS
    MaxIndex         \* 2^31, the number of hardened derivation indices

ASSUME LimitsAssumption ==
    /\ MaxMasters \in Nat \ {0} /\ MaxAccounts \in Nat \ {0}
    /\ MaxRecipients \in Nat /\ MaxIndex \in Nat \ {0}

Keys == (Entropies \X (0..(MaxIndex - 1))) \cup Keypairs
Masters == [entropy : Entropies, next : 1..MaxIndex]
AccountRecords ==
    [name : Names, address : Keys, kind : {"derived"},
     master : 1..MaxMasters, index : 0..(MaxIndex - 1)]
    \cup [name : Names, address : Keys, kind : {"imported"},
          master : {0}, index : {0}]
Tables == [masters : Seq(Masters), accounts : Seq(AccountRecords),
           recipients : SUBSET Recipients]

Empty == [masters |-> <<>>, accounts |-> <<>>, recipients |-> {}]

Master(e, next) == [entropy |-> e, next |-> next]
DerivedAccount(n, e, m, i) ==
    [name |-> n, address |-> <<e, i>>, kind |-> "derived", master |-> m,
     index |-> i]
ImportedAccount(n, key) ==
    [name |-> n, address |-> key, kind |-> "imported", master |-> 0,
     index |-> 0]

Accounts(t) == Range(t.accounts)
Phrases(t) == {m.entropy : m \in Range(t.masters)}
HasName(t, n) == \E a \in Accounts(t) : a.name = n
AccountNamed(t, n) == CHOOSE a \in Accounts(t) : a.name = n

\* The phrase behind a derived wallet, through its reference to a master.
PhraseOf(t, a) == t.masters[a.master].entropy

\* Every entry that holds phrase e: one phrase may have been imported twice.
Copies(t, e) == {m \in DOMAIN t.masters : t.masters[m].entropy = e}

\* Vault::signer before its check: the keypair the table really leads to.
KeyOf(t, a) ==
    IF a.kind = "imported" THEN a.address ELSE <<PhraseOf(t, a), a.index>>

\* ensure_new_name, of a well-formed name.
NewNameAccepted(t, n) ==
    /\ ~HasName(t, n)
    /\ Len(t.accounts) < MaxAccounts

-----------------------------------------------------------------------------
(* add_master, add_imported, add_derived.                                  *)

AddMasterAccepted(t, n) ==
    /\ NewNameAccepted(t, n)
    /\ Len(t.masters) < MaxMasters

AddMaster(t, n, e) ==
    [t EXCEPT
       !.masters = Append(@, Master(e, 1)),
       !.accounts = Append(@, DerivedAccount(n, e, Len(t.masters) + 1, 0))]

\* Mutation of AddImportedAccepted: import has looked at the name before.
AddImportedAcceptedAsReviewed(t, n) == Len(t.accounts) < MaxAccounts

AddImportedAccepted(t, n) == NewNameAccepted(t, n)
AddImported(t, n, key) ==
    [t EXCEPT !.accounts = Append(@, ImportedAccount(n, key))]

\* Mutation of NextIndex: a copy of the phrase keeps a sequence of its own.
NextIndexOfOneCopy(t, e) == Min({t.masters[m].next : m \in Copies(t, e)})

\* Re-imports of one phrase share a sequence.
NextIndex(t, e) == Max({t.masters[m].next : m \in Copies(t, e)})

\* Mutation of AddDerivedAccepted: the bound of derive_signer is off by one.
AddDerivedAcceptedPastEnd(t, n, source) ==
    /\ NewNameAccepted(t, n)
    /\ HasName(t, source)
    /\ AccountNamed(t, source).kind = "derived"
    /\ NextIndex(t, PhraseOf(t, AccountNamed(t, source))) <= MaxIndex

AddDerivedAccepted(t, n, source) ==
    /\ NewNameAccepted(t, n)
    /\ HasName(t, source)
    /\ AccountNamed(t, source).kind = "derived"
    /\ NextIndex(t, PhraseOf(t, AccountNamed(t, source))) < MaxIndex
AddDerived(t, n, source) ==
    LET from == AccountNamed(t, source)
        e == PhraseOf(t, from)
        next == NextIndex(t, e)
    IN [t EXCEPT
          !.accounts = Append(@, DerivedAccount(n, e, from.master, next)),
          !.masters = [m \in DOMAIN @ |->
                         IF m \in Copies(t, e) THEN Master(e, next + 1)
                         ELSE @[m]]]

-----------------------------------------------------------------------------
(* recovery_phrase_use and remove_account.                                 *)

RecoveryPhraseUse(t, n) ==
    LET a == AccountNamed(t, n)
        shared == \E other \in Accounts(t) :
                     /\ other.name # n
                     /\ other.kind = "derived"
                     /\ PhraseOf(t, other) = PhraseOf(t, a)
    IN CASE a.kind = "imported" -> "ImportedKey"
         [] a.kind = "derived" /\ shared -> "Shared"
         [] OTHER -> "UnusedAfterDeletion"

\* Mutation of Renumbered: positions behind an erased entry stay as they are.
RenumberedNever(a, m) == a

\* An account after the master entry at position m is gone.
Renumbered(a, m) == IF a.master > m THEN [a EXCEPT !.master = @ - 1] ELSE a

EraseMaster(t, m) ==
    [t EXCEPT
       !.masters = RemoveAt(@, m),
       !.accounts = [k \in DOMAIN @ |-> Renumbered(@[k], m)]]

\* The loop over the masters, from the last one down: after i rounds.
EraseMasters(t, erased) ==
    LET last == Len(t.masters)
        after[i \in 0..last] ==
            IF i = 0 THEN t
            ELSE IF last + 1 - i \in erased
                 THEN EraseMaster(after[i - 1], last + 1 - i)
                 ELSE after[i - 1]
    IN after[last]

Position(t, n) == CHOOSE i \in DOMAIN t.accounts : t.accounts[i].name = n
WithoutAccount(t, n) ==
    [t EXCEPT !.accounts = RemoveAt(@, Position(t, n))]

RemoveAccepted(t, n, erase) ==
    /\ HasName(t, n)
    /\ erase => RecoveryPhraseUse(t, n) = "UnusedAfterDeletion"

\* Mutation of RemoveAccount: the phrase goes whenever the user was asked.
RemoveAccountErasing(t, n, erase) ==
    LET a == AccountNamed(t, n)
    IN EraseMasters(WithoutAccount(t, n),
                    IF a.kind = "derived" THEN Copies(t, PhraseOf(t, a)) ELSE {})

\* Every copy of the phrase goes with it.
RemoveAccount(t, n, erase) ==
    LET a == AccountNamed(t, n)
    IN EraseMasters(WithoutAccount(t, n),
                    IF erase /\ a.kind = "derived"
                    THEN Copies(t, PhraseOf(t, a)) ELSE {})

-----------------------------------------------------------------------------
\* remember_recipient: a full list silently stays as it is.
RememberRecipient(t, r) ==
    IF Cardinality(t.recipients) < MaxRecipients
    THEN [t EXCEPT !.recipients = @ \cup {r}] ELSE t

-----------------------------------------------------------------------------
(* What Vault::decode demands of a table before a process may use it.      *)

MasterValid(m) == m.next >= 1 /\ m.next <= MaxIndex
AccountValid(t, a) ==
    a.kind = "derived" =>
        /\ a.master \in DOMAIN t.masters
        /\ a.index < MaxIndex
        /\ a.index < t.masters[a.master].next
Decodable(t) ==
    /\ Len(t.masters) <= MaxMasters
    /\ \A m \in Range(t.masters) : MasterValid(m)
    /\ Len(t.accounts) <= MaxAccounts
    /\ \A a \in Accounts(t) : AccountValid(t, a)
    /\ \A i, j \in DOMAIN t.accounts :
          t.accounts[i].name = t.accounts[j].name => i = j
    /\ Cardinality(t.recipients) <= MaxRecipients
=============================================================================
