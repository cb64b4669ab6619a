------------------------------- MODULE Wallets ------------------------------
(***************************************************************************)
(* The commands new, import, delete and export of several solx processes   *)
(* on one vault (src/src/commands.rs), down to the key table they change.  *)
(*                                                                         *)
(* A command loads the vault, works on its copy and saves it.  delete and  *)
(* export first show what they are about to do and wait for the user's     *)
(* answer with nothing loaded; import waits for the secret.  Meanwhile     *)
(* other processes go on.  The file is what VaultStore implements: a save  *)
(* replaces exactly the revision that was loaded, or fails, or commits but *)
(* reports that it is not sure, and then a power loss may undo it.         *)
(***************************************************************************)
EXTENDS KeyTable

CONSTANTS Procs,    \* solx processes
          MaxRev    \* bound on the number of committed revisions

ASSUME RevAssumption == MaxRev \in Nat

VARIABLES
    file,     \* the vault file: a revision and the table it decrypts to
    window,   \* the files a power loss may put back
    cmd,      \* the command each process is in
    issued    \* ghost: the derived addresses new has printed, while their
              \* phrase stays in the vault

vars == <<file, window, cmd, issued>>

Idle == [stage |-> "idle"]

\* What delete and export show, and delete remembers, of a wallet.
Shown(n, stage, op) ==
    [stage |-> stage, op |-> op, name |-> n,
     account |-> AccountNamed(file.table, n),
     use |-> RecoveryPhraseUse(file.table, n), rev |-> file.rev]

\* A changed copy of the vault that is about to be saved.
Changed(c, table) == [stage |-> "save", of |-> c, base |-> file.rev,
                      table |-> table]

Become(p, c) ==
    /\ cmd' = [cmd EXCEPT ![p] = c]
    /\ UNCHANGED <<file, window, issued>>

Files == [rev : 0..MaxRev, table : Tables]
Stages == {"idle", "review", "approved", "save", "revealed"}

TypeOK ==
    /\ file \in Files
    /\ window \subseteq Files
    /\ DOMAIN cmd = Procs
    /\ \A p \in Procs :
          /\ cmd[p].stage \in Stages
          /\ cmd[p].stage = "save" =>
                cmd[p].base \in 0..MaxRev /\ cmd[p].table \in Tables
          /\ cmd[p].stage = "revealed" => cmd[p].secret \in Keys
    /\ issued \subseteq Keys

Init ==
    /\ file = [rev |-> 0, table |-> Empty]
    /\ window = {file}
    /\ cmd = [p \in Procs |-> Idle]
    /\ issued = {}

-----------------------------------------------------------------------------
(* new and remember_recipient: one load, one save.                         *)

NewMaster(p) ==
    /\ cmd[p] = Idle
    /\ \E n \in Names, e \in Entropies :
          /\ AddMasterAccepted(file.table, n)
          /\ Become(p, Changed([op |-> "new"], AddMaster(file.table, n, e)))

NewDerived(p) ==
    /\ cmd[p] = Idle
    /\ \E n, source \in Names :
          /\ AddDerivedAccepted(file.table, n, source)
          /\ Become(p, Changed([op |-> "derive"],
                               AddDerived(file.table, n, source)))

Remember(p) ==
    /\ cmd[p] = Idle
    /\ \E r \in Recipients \ file.table.recipients :
          Become(p, Changed([op |-> "remember"],
                            RememberRecipient(file.table, r)))

-----------------------------------------------------------------------------
(* import: the name is looked at, the secret is asked for, the vault is    *)
(* loaded again.                                                           *)

ReviewImport(p) ==
    /\ cmd[p] = Idle
    /\ \E n \in Names :
          /\ ~HasName(file.table, n)
          /\ Become(p, [stage |-> "review", op |-> "import", name |-> n])

ImportPhrase(p) ==
    /\ cmd[p].stage = "review" /\ cmd[p].op = "import"
    /\ AddMasterAccepted(file.table, cmd[p].name)
    /\ \E e \in Entropies :
          Become(p, Changed(cmd[p], AddMaster(file.table, cmd[p].name, e)))

ImportKey(p) ==
    /\ cmd[p].stage = "review" /\ cmd[p].op = "import"
    /\ AddImportedAccepted(file.table, cmd[p].name)
    /\ \E key \in Keypairs :
          Become(p, Changed(cmd[p], AddImported(file.table, cmd[p].name, key)))

-----------------------------------------------------------------------------
(* delete: what is shown, the user's answers, the change.                  *)

ReviewDelete(p) ==
    /\ cmd[p] = Idle
    /\ \E n \in Names :
          /\ HasName(file.table, n)
          /\ Become(p, Shown(n, "review", "delete"))

\* confirm_delete_metadata: ERASE is only offered for an unused phrase.
ApproveDelete(p) ==
    /\ cmd[p].stage = "review" /\ cmd[p].op = "delete"
    /\ \E erase \in BOOLEAN :
          /\ erase => cmd[p].use = "UnusedAfterDeletion"
          /\ Become(p, [cmd[p] EXCEPT !.stage = "approved",
                                      !.op = IF erase THEN "erase" ELSE @])

\* Mutation of DeleteWallet: no look at the revision after the approval.
DeleteWalletUnchecked(p) ==
    /\ cmd[p].stage = "approved"
    /\ RemoveAccepted(file.table, cmd[p].name, cmd[p].op = "erase")
    /\ Become(p, Changed(cmd[p],
           RemoveAccount(file.table, cmd[p].name, cmd[p].op = "erase")))

DeleteWallet(p) ==
    /\ cmd[p].stage = "approved"
    /\ file.rev = cmd[p].rev
    /\ RemoveAccepted(file.table, cmd[p].name, cmd[p].op = "erase")
    /\ Become(p, Changed(cmd[p],
           RemoveAccount(file.table, cmd[p].name, cmd[p].op = "erase")))

-----------------------------------------------------------------------------
(* export: what is shown, the user's answer, the secret.                   *)

ReviewExport(p) ==
    /\ cmd[p] = Idle
    /\ \E n \in Names, kind \in {"key", "mnemonic"} :
          /\ HasName(file.table, n)
          /\ kind = "mnemonic" => AccountNamed(file.table, n).kind = "derived"
          /\ Become(p, Shown(n, "review", kind))

\* The wallet must have the address and the derivation index that were
\* shown; its private key passes the check of signer, a phrase is printed
\* as it is.
StillShown(c) ==
    /\ HasName(file.table, c.name)
    /\ LET a == AccountNamed(file.table, c.name) IN
          /\ a.address = c.account.address
          /\ a.kind = c.account.kind
          /\ a.index = c.account.index

\* Mutation of Reveal: the wallet is looked up by its name alone.
RevealByName(p) ==
    /\ cmd[p].stage = "review" /\ cmd[p].op \in {"key", "mnemonic"}
    /\ HasName(file.table, cmd[p].name)
    /\ LET key == KeyOf(file.table, AccountNamed(file.table, cmd[p].name))
       IN Become(p, [stage |-> "revealed", account |-> cmd[p].account,
                     secret |-> key])

\* The secret that is printed, with the index that was shown beside it.
Reveal(p) ==
    /\ cmd[p].stage = "review" /\ cmd[p].op \in {"key", "mnemonic"}
    /\ StillShown(cmd[p])
    /\ LET a == AccountNamed(file.table, cmd[p].name)
           key == KeyOf(file.table, a)
       IN /\ cmd[p].op = "key" => key = a.address
          /\ Become(p, [stage |-> "revealed", account |-> cmd[p].account,
                        secret |-> key])

-----------------------------------------------------------------------------
(* save, as VaultStore implements it, and the environment.                 *)

\* The ghost after a commit of table: the phrases that leave the vault take
\* their addresses with them.
IssuedIn(table, addresses) == {a \in addresses : a[1] \in Phrases(table)}

\* The address that new --wallet prints once its save has returned.
Printed(c) == IF c.of.op = "derive" THEN {Last(c.table.accounts).address}
              ELSE {}

Committed(c) == [rev |-> file.rev + 1, table |-> c.table]

\* A commit that is on stable storage when save returns Ok.
SaveOk(p) ==
    /\ cmd[p].stage = "save"
    /\ file.rev = cmd[p].base
    /\ file.rev < MaxRev
    /\ file' = Committed(cmd[p])
    /\ window' = {file'}
    /\ issued' = IssuedIn(cmd[p].table, issued \cup Printed(cmd[p]))
    /\ cmd' = [cmd EXCEPT ![p] = Idle]

\* A commit whose directory sync failed, or whose process was killed before
\* it: nothing is printed.
SaveUncertain(p) ==
    /\ cmd[p].stage = "save"
    /\ file.rev = cmd[p].base
    /\ file.rev < MaxRev
    /\ file' = Committed(cmd[p])
    /\ window' = window \cup {file'}
    /\ issued' = IssuedIn(cmd[p].table, issued)
    /\ cmd' = [cmd EXCEPT ![p] = Idle]

\* The command ends and has changed nothing: refused, because a name is
\* taken, a limit is reached, the vault has changed since the approval or
\* since the load; cancelled; failed; killed.
GiveUp(p) ==
    /\ cmd[p] # Idle
    /\ Become(p, Idle)

PowerLoss ==
    /\ file' \in window
    /\ window' = {file'}
    /\ cmd' = [p \in Procs |-> Idle]
    /\ UNCHANGED issued

Next ==
    \/ \E p \in Procs :
          \/ NewMaster(p) \/ NewDerived(p) \/ Remember(p)
          \/ ReviewImport(p) \/ ImportPhrase(p) \/ ImportKey(p)
          \/ ReviewDelete(p) \/ ApproveDelete(p) \/ DeleteWallet(p)
          \/ ReviewExport(p) \/ Reveal(p)
          \/ SaveOk(p) \/ SaveUncertain(p) \/ GiveUp(p)
    \/ PowerLoss

Spec == Init /\ [][Next]_vars

-----------------------------------------------------------------------------
(* What could go wrong.                                                    *)

\* Whatever is in the file, or may come back, decode accepts: no sequence of
\* commands locks the user out of the vault.
AlwaysDecodable == \A f \in window : Decodable(f.table)

\* Every wallet's key still leads to the address stored beside it, also
\* after entries of the master list before its own have been erased; signer
\* refuses a wallet for which it does not.
KeysMatch ==
    \A f \in window : \A a \in Accounts(f.table) :
        /\ a.kind = "derived" => a.master \in DOMAIN f.table.masters
        /\ KeyOf(f.table, a) = a.address

\* A commit of a new revision, as opposed to a power loss.
Commit == file'.rev > file.rev
Added == {a \in Accounts(file'.table) : ~HasName(file.table, a.name)}
Removed == {a \in Accounts(file.table) : ~HasName(file'.table, a.name)}

\* new never hands out an address it has printed before, even if that wallet
\* has been deleted and its phrase imported once more, or another copy of
\* the phrase derives, as long as the phrase stays in the vault.
NeverReissued ==
    [][Commit => \A a \in Added :
          a.kind = "derived" /\ a.index > 0 => a.address \notin issued]_vars

\* A phrase leaves the vault only if the user was told that no other wallet
\* uses it, which is still so, and asked for it to be erased.
PhraseErasedByConsent ==
    [][Commit => \A e \in Phrases(file.table) \ Phrases(file'.table) :
          /\ \E p \in Procs : /\ cmd[p].stage = "save"
                              /\ cmd'[p] = Idle
                              /\ cmd[p].of.op = "erase"
                              /\ cmd[p].of.use = "UnusedAfterDeletion"
                              /\ cmd[p].of.account.address[1] = e
          /\ \A a \in Accounts(file.table) \ Removed :
                a.kind = "derived" => PhraseOf(file.table, a) # e]_vars

\* A wallet leaves the vault only as the user saw it: same key, same use of
\* its phrase, at the time of the change.
DeletedAsShown ==
    [][Commit => \A a \in Removed :
          \E p \in Procs : /\ cmd[p].stage = "save"
                           /\ cmd'[p] = Idle
                           /\ cmd[p].of.op \in {"delete", "erase"}
                           /\ cmd[p].of.account = a
                           /\ cmd[p].of.use
                                 = RecoveryPhraseUse(file.table, a.name)]_vars

\* export prints the secret of the address that it showed and no other.
RevealsWhatWasShown ==
    \A p \in Procs : cmd[p].stage = "revealed" =>
        cmd[p].secret = cmd[p].account.address
=============================================================================
