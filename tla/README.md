# solx, modelled in TLA+

solx (`src/`) is a command-line Solana wallet. One encrypted file, the vault,
holds recovery phrases, imported keys, known recipients, settings and an audit
of settings changes. Several solx processes, shells or single commands, may work
on the same vault at the same time; each of them talks to an RPC node to build,
send and confirm transactions.

This directory models the parts where order, failure and concurrency matter,
checks them with TLC on small instances, and proves with TLAPS, for every
instance, the safety of the save protocol, the key table and the wallet commands,
transactions and their amounts, `close-ata`, the shell with its settings editor,
the line editor, and the secret memory (section 4): every safety property that a
run checks, and both refinements. `PROJECT.json` lists the components, the
runs, a mutation for every property (a plausible bug that the run finds), the
source lines behind every definition, the hazards and the theorems.

    tlc -workers 2 -config MCVaultStore.cfg MCVaultStore.tla
    tlapm VaultStoreProofs.tla

## 1. Inventory

### 1.1 Vault file and save protocol (`vault.rs`, `secure_file.rs`)

State: the file and its `.lock` file; per process the `Vault` in memory with
`source_revision` (the bytes it was decoded from), `saved_config` (the baseline
of the settings audit) and the contents. Operations: `Session::create`, `open`,
`load`, `save`. Interaction: processes meet only in the file and in a
nonblocking advisory lock. Hard: any two calls inside `save` can be separated by
another process, a kill or a power loss, and every call can fail, also the
directory sync *after* the rename.
Correct: no acknowledged update is lost; a reader never meets a torn file; the
result of `save`, the revision in memory and the file agree; the lock is
released on every path.

### 1.2 Settings audit (`ConfigAudit`, `Vault::saved_config`)

State: counter and time in the file, baseline in memory. `save` records an edit
exactly if the settings differ from the baseline, and moves the baseline only
after the rename. Hard: failed saves, retries, uncertain saves, edits that are
taken back, a clock that jumps or says zero. Correct: the counter is the number
of commits that changed the settings; no audit is written that `validate` would
refuse when the vault is next opened or saved.

### 1.3 Key table (`impl Vault`)

State: at most 32 phrases with their next index, at most 128 wallets that refer
to a phrase by *position*, known recipients. Operations: `add_master`,
`add_derived`, `add_imported`, `remove_account`, `remember_recipient`, and what
`decode` demands. Hard: erasing a phrase shifts positions; the same phrase may
stand in several entries; indices must not be reused over deletion and
re-import; limits. Correct: the vault stays loadable, every wallet's key leads
to its stored address, an address is never issued twice, a phrase is erased
only with consent and only if nothing uses it.

### 1.4 Wallet commands (`commands.rs`: init, new, import, list, export, delete)

`export` and `delete` show something, wait for an answer and load again; `import`
waits for a secret. Hard: another process changes the vault meanwhile. Correct:
what was shown is what is deleted or revealed.

### 1.5 Transactions (`transfer`, `token_transfer`, `send_transaction`, `refresh_and_sign`)

State: the review, the quoted fee, rent and balance, the signing key, the
unlocked session. Hard: every answer of an RPC node may differ from the last
one, the wallet may be replaced, replies get lost, the chain forks, blockhashes
expire. Correct: only what was approved is signed; an error means that nothing
was sent; success is reported only for what the cluster has confirmed; keys are
in memory from the password to the signature only.

### 1.6 RPC client (`rpc.rs`)

`submit_and_confirm`: one `sendTransaction`, then at most twenty polls within 60
seconds. Correct: the loop ends, within its deadline, and tells *unknown* from
*confirmed*. The other calls are answers or failures; HTTP and JSON are I/O.

### 1.7 Closing token accounts (`close_ata`, `send_close_batches`)

State: the candidates, and two lists that are built side by side, the
candidates shown and the instructions signed. Hard: the lists are split when
the transaction is full; a batch may stay pending and be executed later;
balances change meanwhile. Correct: shown is sent, a batch follows only an
executed one, nothing is burned without BURN, the count is true.

### 1.8 Session cache and shell (`main.rs`)

State: `App.session` (the unlocking key), `App.config` (the policy, read when the
process starts or the editor opens), `last_history`. Operations: `unlock`,
`release_session`, `with_session`, `public_vault`, `load_policy`, `dispatch`,
`shell`, `refresh_history`, `lock`. Hard: the cached key outlives a replaced
vault; the policy changes in the middle of a command; errors and cancelled
prompts anywhere; a refresh that fails must not come back at every prompt.
Correct: the key is in memory at a prompt only if the policy in force wants it
there; the policy is what was last read from or written to the file.

### 1.9 Settings editor and configuration (`settings.rs`, `config.rs`)

State: draft, the revision and settings it started from. Operations: the menus,
review, SAVE, adoption; `validate`, `same_settings`, `expand_alias`. Hard: the
menus validate entries one by one, `validate` the whole; a failed save may or may
not have committed; the running shell must adopt exactly what was committed.
Correct: what replaces the settings is what was reviewed, and replaces what was
shown; memory and file agree on every path; nothing is saved that cannot be
loaded.

### 1.10 Line editor (`line_editor.rs`, `read_bounded_line`)

State: 4096 bytes and a cursor, at most 64 commands, the browsing position, the
draft. Hard: characters of several bytes in a bounded buffer, cut off by other
keys or the end of the input; browsing a history that is full. Correct: the
bytes are always whole characters, the unfinished line comes back, secret input
is never remembered, the shell ends when its input does.

### 1.11 Secret memory and key derivation (`secret.rs`, `kdf.rs`, `signer.rs`)

State: mapped and locked regions, the process's locked-memory limit. Hard: every
call may fail, also inside a constructor; several owners are alive at once.
Correct: erase, unlock, unmap in this order on every path; the soft limit is
raised exactly when it must and may be, and then suffices.

### 1.12 Amounts (`parse_amount`, `format_amount`)

Pure functions on 64-bit integers with decimals. Hard: overflow, precision,
zeros. Correct: parsing is exact or fails; what is shown is what is meant.

### 1.13 Not modelled by intent

BIP32, BIP39, AES-GCM-SIV and Argon2 (libraries, partly vendored; a key is
modelled as what it is derived from, a ciphertext as a revision), terminal
modes, output formatting, and the test support code, which was read as a
description of what is meant to hold.

## 2. Modules

    AtomicVault <---- refined by ---- VaultStore <--- VaultStoreProofs
                                          ^
                                     MCVaultStore
    KeyTable <--- Wallets <--- MCWallets
                     ^-------- WalletsProofs ---> DataTheorems
    Transactions <--- MCTransactions
         ^----------- TransactionsProofs ---> Amounts, DataTheorems
    CloseBatches <--- MCCloseBatches
         ^----------- CloseBatchesProofs ---> DataTheorems
    Settings <--- Sessions <--- MCSessions
                     ^-------- SessionsProofs ---> DataTheorems
    Line <---- refined by ---- LineEditor <--- MCLineEditor
                                   ^----------- LineEditorProofs ---> DataTheorems
    SecretMemory <--- MCSecretMemory
         ^----------- SecretMemoryProofs ---> DataTheorems
    Amounts <--- MCAmounts

| Module | Models |
|---|---|
| `AtomicVault` | what the vault file promises: a set of updates, changed by compare-and-swap, and the window of states a power loss may restore |
| `VaultStore` | `Session::save` call by call, `load`, `create`, the audit, kills, power loss |
| `VaultStoreProofs` | its inductive invariant, the safety theorems, the audit, durability and the refinement of `AtomicVault` |
| `KeyTable` | the pure functions of `impl Vault` on the key table |
| `Wallets` | the wallet commands of several processes, on the file that `AtomicVault` describes |
| `Transactions` | one process's transfers, with nodes, chain and other processes around it |
| `CloseBatches` | `close-ata` on top of the outcomes that `Transactions` allows |
| `Settings` | what the editor's menus make of the settings, what is valid, loadable and savable, aliases |
| `Sessions` | `App` of one process between its commands: key, policy, shell loop, refreshes, the settings editor, on a file that others change, replace, remove and restore |
| `Line` | what the line editor promises: a line of characters around a cursor, a bounded history, browsing |
| `LineEditor` | the line editor, byte by byte, and the reader for input that is no terminal |
| `SecretMemory` | locked regions call by call under all their owners, and the memlock limit |
| `Amounts` | `parse_amount` and `format_amount` on words of any size |
| `WalletsProofs` | every function of `KeyTable` leaves a sound table sound; the inductive invariant of `Wallets` and its safety theorems |
| `TransactionsProofs` | the inductive invariant of `Transactions` and its safety theorems; at its end those of `Amounts`, which a transfer reads and shows |
| `LineEditorProofs` | what strings of whole characters are; the inductive invariant of `LineEditor` and the refinement of `Line` |
| `CloseBatchesProofs`, `SessionsProofs`, `SecretMemoryProofs` | the inductive invariant of each model and its safety theorems |
| `DataTheorems` | what the proofs need of sequences that are cut and joined, sums, folds and finite sets |

### VaultStore and the code

`pc[p]` is the place in `Session::save`; each system call is one action:
`Encode` (clock, audit, encryption; lines 277-308), `OpenDirectory`, `TryLock`
(`acquire_lock`), `CheckRevision`, `CreateTemp`, `WriteTemp`, `SyncTemp`,
`Rename`, `SyncDirectory`, and on any error after the creation of the temporary
file `Cleanup`. `Return` hands out the result and drops the lock. A failing call
is `FailEarly` or `FailLate`, depending on whether there is a temporary file to
remove.

- A *revision* is one ciphertext. `save` draws a new nonce each time, so equal
  bytes mean the same revision, and the byte comparison of the code is a
  comparison of numbers.
- `Validated` is `ConfigAudit::validate`, which `record_edit`, `encode_with_audit`
  and `decode` call: `EditAccepted`, `AuditAccepted` and `Load`.
- The contents are the set of updates a revision holds. Every call of `save`
  brings one update of its own, which stays in memory when the call fails, as
  in the code.
- `window` is what a power loss may leave under the name of the vault: every
  renamed revision since the directory was last synced. `dir` tells whether the
  directory itself has just been made.
- `Exit` is a kill at any point, or the normal end; the kernel drops the lock.

### KeyTable, Wallets and the code

A phrase is its entropy; a derived key is the pair of entropy and index; an
imported key may be one of those pairs (an exported key imported again).
`RemoveAccount` does the renumbering that `remove_account` does, from the last
phrase to the first. `Decodable` is
what `decode` refuses to load. In `Wallets` a command is at stage *review*,
*approved*, *save* or *revealed*; between the stages other processes act. Each
command loads its own copy, and `SaveOk`, `SaveUncertain`, `GiveUp` and
`PowerLoss` are what `AtomicVault` leaves of `save`.

### Transactions and the code

`stage` is the place in `send_transaction`. `Quote` is the fee, the simulation
and for ALL the two further fee calls; of these the first and the last must
agree, while the fee shown comes from a call of its own, as in the code.
`Refresh` is the second look at fee, rent and balance for the fresh blockhash,
`LoadSigner` reads the vault again, `Sign` looks at the height and drops the key
and the session; the calls of these three are made with the vault unlocked, the
last with the signing key in memory. `Refuse` is every error up to `Send`, also
that of a signed transaction which is too long for a packet. Whether a question is asked depends on the policy; a question
changes no state, so `Approve` is enabled either way. `Send`, `Poll` and
`StopPolling` are `submit_and_confirm`; time is `waited`, in units of which the
pause between polls has `Pause`.
The environment: other processes replace the wallet (`ReplaceWallet`), and the
chain executes, forks, confirms and expires. Nodes answer what they like, except
that they do not report a confirmed transaction as failed or one as confirmed
that is not.

### CloseBatches and the code

`Select` is `close_ata` up to the list of candidates, `--all` and named mints
alike, from a listing in any order with perhaps an account twice. `Pack` and
`BatchIsDue` are the loop of `send_close_batches`. The candidate whose instructions
do not fit stays the head of `rest` while the batch before it is sent: in the
code, it is the loop's variable, and its instructions, appended and split off
again, are `overflow`. `NextBatch` empties both lists and refills each from its
own, the instructions from the overflow and the batch from the candidate.
`Send` is `send_close_batch`; `Confirmed` and `Pending` are
`Ok(true)` and `Ok(false)`, and `GiveUp` every error and a kill. `Execute` runs
the *instructions*, not the candidates: all or none, and a close fails while
tokens are left in the account. The byte size of a transaction is a weight per
instruction. The accounts may hold anything at first.

### Settings, Sessions and the code

`Settings` keeps one field of each kind that the rules tell apart: the on/off
fields, a custom network and its hash, the refresh interval (a number with a
least value, or unset), the list of history wallets and the aliases with their
limits. `FieldEdits`, `WalletEdits` and `AliasEdits` are what one round of a menu
may leave; they check as little as the code does, and `Savable` is the whole of
`validate` and the size, at `s` in the editor, in `commit` and in `encode`.

In `Sessions` every command is a `task` that goes through the steps *unlock*,
*load* and perhaps *save*, with other processes in between:

- `Unlock` opens the file with the password or takes the key in memory; a key is
  named by the salt it was derived with. `Loadable` is the comparison of salts in
  `decrypt_bytes`. A save writes the salt of its key.
- `LoadRead` is `public_vault` (list, history, transfers, a refresh), `LoadChange`
  a command that saves, `LoadReview` one that shows something first and releases
  the key before it asks (`delete`, `export`).
- `End` is `with_session` around it all; `Fail` is any error of the calls, after
  which only some tasks have released the key themselves (`Releasing`).
- `LoadSettings` to `SaveDraft` are the editor: the policy is replaced when the
  editor opens, the draft is changed, reviewed, and saved if the file still is
  the revision that was reviewed; the settings are adopted by the revision, not
  by the result of `save`. `Retained` is the `retain` by which a wallet leaves the
  list of history wallets.
- `StartShell` and `Loop` are the two calls of `refresh_history`; `age` is the time
  since `last_history`, `since` the true time since the last attempt.
- `save` is one step, as `AtomicVault` has it: refused, committed, or committed
  with an error. `foreign` records that somebody else has changed the settings
  since this process last read or wrote them.

### Line, LineEditor and the code

A byte is a character and the place in it, so that a cut through a character
shows. Each key is one action, `Handle`, which dispatches as `read_tty_line`
does: a key is a character, one of the `Escapes`, or another of the `Controls`.
`Character` is `insert_character`, where another key may cut off the rest
(`pending`). Backspace at the start of the line does nothing, as its test of the
cursor has it. What the shell does with the line, `remember` and perhaps to end, is
in `Return`. `ReadChunk`, `ReadNewline` and `EndOfFile` are `read_bounded_line`.
`Line` knows only characters: the refinement maps the bytes before and behind
the cursor to characters, and the position, an index from the front, to the
number of steps back from the newest entry.

### SecretMemory and the code

An operation is a *plan*, the sequence of regions it maps, locks, protects,
fills and drops, taken from the order of the declarations in `App::unlock`,
`prompt`, `derive`, `decrypt_bytes` and `init`. `Map`, `Lock` and `Protect` are the
calls of `LockedRegion::new`, `Dropped` those of its `Drop`, one step each. `Fail`
is an error at any of them, or of what fills the region; `Unwind` drops the owners
alive from the youngest to the oldest. `Prepare` is `ensure_memlock_allowance`. The
contents of a slot stay when it is unmapped, to show what was left in it.

### Amounts and the code

`ParseAmount` and `FormatAmount` follow the functions line by line, with every
intermediate result checked against the word (`Checked`); `Power` is
`10u64.pow`. `Exact` is the reference: all digits, filled up with zeros, read as
one number. The texts are all sequences of
some digits, the point and another character; the amounts shown are all words.

## 3. What the runs check

| Run | Shows |
|---|---|
| `vault_store` | the inductive invariant `StoreInv`; `AckedSurvive`, no acknowledged update is lost, in the file or in what a power loss restores; `FileComplete`, no torn file; `OutcomeMatchesDisk`, result, memory and file agree; `AtomicSpec`, the refinement |
| `vault_audit` | `EditsCountCommits`: the audit counts exactly the commits that changed the settings, and its time never goes back; `AuditReadable`: whatever the clock says, zero included, and however saves fail, no vault stands or comes back whose audit `decode` refuses, and none is in memory that `encode` refuses for its audit |
| `vault_live` | `SaveReturns`: every call of `save` ends without the lock |
| `wallets` | `AlwaysDecodable`, which says of the file more than its type, `KeysMatch`, `NeverReissued` over long histories of one process with failed and uncertain saves and power loss |
| `wallets_shared` | `RevealsWhatWasShown`, `DeletedAsShown`, `PhraseErasedByConsent` and `AlwaysDecodable` while another process changes the vault, between the question and the answer of `delete` and `export`, and between the name and the secret of `import` |
| `transactions` | `SignedAsShown`, `ErrorMeansNothingSent`, `ConfirmedLanded`, `KnownWerePaid`, `DeadlineHonoured`; `KeysOnlyForSigning`: outside of `refresh_and_sign` the unlocking key is in memory only if caching, and the signing key only for its last call (`refresh_and_sign` itself asks the network with the vault unlocked) |
| `transactions_live` | `ResultReported`: a submission always comes to a report |
| `close_batches` | `ShownIsSent`, `OneBatchAtATime`, `BurnsWereGranted`, `CountIsTrue` |
| `sessions` | `PolicyMatchesFile`: commands run under the settings in the file, unless others changed them; `KeyOnlyIfCaching`: the key waits at a prompt only on request; `ReviewedAgainstFile`: the editor replaces what it has shown by what was reviewed, and no save brings back an old salt; `RefreshesApart`; `TypeOK`: the file can always be loaded |
| `line_editor` | `LineSpec`: the refinement of `Line`; `ShellEnds`; `TypeOK`: no index between two bytes of a character |
| `secret_memory` | `SecretsLocked`: no secret in pages that are not locked, mapped or not; `AllowanceSuffices`: the limit is never met and nothing is left behind |
| `amounts` | `ParseExact`, `ShownIsMeant` |

No disagreement between the code and its documents has been found so far. What
the user should know nevertheless: the first save into a directory that did not
exist relies on the file system to make the directory's own entry durable (see
4.1); a phrase whose wallets are all deleted without erasing it stays in the
table of 32 for good; the temporary file of a killed process stays behind; the
settings of a running shell do not follow changes made by another process until
`config` is opened (a confirmation switched on elsewhere is not asked here);
after the vault was replaced by one with another salt a caching shell needs `lock`;
and an error of the terminal that comes back at once makes the shell loop over
its prompt.

### Bounds

- `vault_store`: three processes, so that a third can come between two that
  race; three encryptions (`MaxRev`), enough for a lost update: a base, an
  acknowledged one and one that would overwrite it. Processes are symmetric.
- `vault_audit`: two processes, two settings, two edits, clock values `0..3` of
  which 0 (no time) and 3 (too late) are refused; three encryptions allow a
  failed save, its retry and a change back, or a first save, an edit and what is
  read after it.
- `vault_live`: no symmetry, as symmetry is not sound for liveness.
- `wallets`: three names, two phrases, room for three entries (so that a phrase
  can be there twice and something stands behind it), indices up to 3, five
  commits: import, import again, derive, delete, derive.
- `wallets_shared`: two processes, two names, two phrases, four commits: one
  before the review, the others during it.
- `transactions`: two commands, two addresses behind the source's name, two
  fees, rents and balances (an answer that changes needs two values; a balance
  of 1 is at the fee, one of 4 above it), three block heights with a validity
  of two and a margin of one, two polls within a deadline of five with calls of
  up to three: the deadline can strike before, in and after a call.
- `close_batches`: four accounts (two tokens, wrapped SOL, one that is not an
  associated account), up to one token each, two commands and three
  transactions; a transaction has room for two closes or one burn and close
  with one close, so that batches overflow with and without burns. Deadlock
  is not checked: when every transaction is settled and all bounds are used
  up, nothing is left to happen.
- `sessions`: three revisions (`MaxRev`): the one that is read, a change of another
  process or a second vault, and a save of the process; a draft is changed twice,
  enough to take a change back, and to change the network without giving a
  hash; one wallet and one alias reach the limits; ages up to two tell whether
  the interval is over; one copy to restore.
- `line_editor`: three bytes, so that a character of two bytes fits once and at
  the limit not; three entries of history, so that it is full, with something
  between the newest and the oldest; one command word and one option that must
  not be remembered. The shell ends, so deadlock is not checked.
- `secret_memory`: the Argon2 workspace has five pages, every other owner one, the
  allowance is twelve; limits are below, just below, at and above it, and
  unlimited. Deadlock is not checked: with a low hard limit nothing begins.
- `amounts`: words of eight bits, where 10^2 is the largest power of ten and 256
  does not fit, decimals from none to one too many, texts of five symbols out
  of five digits, the point and another character. Deadlock is not checked:
  an amount that is shown stays.

In every other run deadlock is checked: some process can always go on.

### Fairness

`VaultStore` assumes weak fairness of `Save(p)` for each process by itself.
`save` takes its lock with `try_lock` and waits for nobody, so once entered it
runs to its end unless its process is killed (`Exit`, which also ends the call).
`Transactions` assumes weak fairness of `SubmitAndConfirm`: every RPC call has a
timeout (`rpc.timeout`, cut to what is left of the deadline), and the sleep
between polls ends. `LineEditor` assumes weak fairness of `HandlePending` and
`ReadEnd`: a key already read, and the end of the input, need no user to be
handled; nothing is assumed of the user. `Sessions`, which may wait for a password
or an answer anywhere, assumes nothing. Nothing is assumed of other processes,
nodes or the chain.

## 4. What is proved

TLAPS proves, for any processes, wallets, phrases, accounts, settings, fees,
limits, and any number of steps:

| Theorem | Statement |
|---|---|
| `VaultStoreProofs!StoreInvariant`, `TypeCorrect` | `Spec => []StoreInv`, the inductive invariant; `Spec => []TypeOK` |
| `VaultStoreProofs!FileAlwaysComplete` | `Spec => []FileComplete` |
| `VaultStoreProofs!OutcomeAlwaysMatches` | `Spec => []OutcomeMatchesDisk` |
| `VaultStoreProofs!AuditInvariant` | `Spec => [](BaselineInv /\ CountedInv)` |
| `VaultStoreProofs!AuditCountsCommits` | `Spec => EditsCountCommits` |
| `VaultStoreProofs!AuditAlwaysReadable` | `Spec => []AuditReadable` |
| `VaultStoreProofs!AckedAlwaysSurvive` | `FsyncCoversParent => (Spec => []AckedSurvive)` |
| `VaultStoreProofs!ImplementsAtomicVault` | `FsyncCoversParent => (Spec => AtomicSpec)` |
| `WalletsProofs!WalletsInvariant`, `TypeCorrect` | `Spec => []WalletsInv`; `Spec => []TypeOK` |
| `WalletsProofs!NeverLockedOut` | `Spec => []AlwaysDecodable` |
| `WalletsProofs!WalletsKeepTheirKeys` | `Spec => []KeysMatch` |
| `WalletsProofs!ExportsWhatWasShown` | `Spec => []RevealsWhatWasShown` |
| `WalletsProofs!AddressesAreNew` | `Spec => NeverReissued` |
| `WalletsProofs!PhrasesGoByConsent` | `Spec => PhraseErasedByConsent` |
| `WalletsProofs!DeletesWhatWasShown` | `Spec => DeletedAsShown` |
| `TransactionsProofs!TransactionInvariant`, `TypeCorrect` | `Spec => []TransactionInv`; `Spec => []TypeOK` |
| `TransactionsProofs!SignsAsShown` | `Spec => []SignedAsShown` |
| `TransactionsProofs!ErrorsSendNothing` | `Spec => []ErrorMeansNothingSent` |
| `TransactionsProofs!ConfirmedIsFinal` | `Spec => []ConfirmedLanded` |
| `TransactionsProofs!KnownAreTrustworthy` | `Spec => []KnownWerePaid` |
| `TransactionsProofs!KeysGoneAfterSigning` | `Spec => []KeysOnlyForSigning` |
| `TransactionsProofs!DeadlineKept` | `Spec => []DeadlineHonoured` |
| `SessionsProofs!SessionInvariant`, `TypeCorrect` | `Spec => []SessionInv`; `Spec => []TypeOK` |
| `SessionsProofs!FileStaysDecodable` | `Spec => []Decodable(file.settings)` |
| `SessionsProofs!PolicyIsCurrent` | `Spec => []PolicyMatchesFile` |
| `SessionsProofs!KeyKeptOnlyIfCaching` | `Spec => []KeyOnlyIfCaching` |
| `SessionsProofs!EditorReplacesReviewed` | `Spec => ReviewedAgainstFile` |
| `SessionsProofs!RefreshesKeepApart` | `Spec => RefreshesApart` |
| `CloseBatchesProofs!CloseInvariant`, `TypeCorrect` | `Spec => []CloseInv`; `Spec => []TypeOK` |
| `CloseBatchesProofs!SignsWhatWasShown` | `Spec => []ShownIsSent` |
| `CloseBatchesProofs!BatchesFollowEachOther` | `Spec => []OneBatchAtATime` |
| `CloseBatchesProofs!BurnsByConsent` | `Spec => []BurnsWereGranted` |
| `CloseBatchesProofs!CountsWhatWasClosed` | `Spec => []CountIsTrue` |
| `LineEditorProofs!EditorInvariant`, `TypeCorrect` | `Spec => []EditorInv`; `Spec => []TypeOK` |
| `LineEditorProofs!ImplementsLine` | `Spec => LineSpec` |
| `TransactionsProofs!ParsesExactly` | `AmountSpec => []ParseExact` |
| `TransactionsProofs!ShowsWhatIsMeant` | `AmountSpec => []ShownIsMeant` |
| `SecretMemoryProofs!MemoryInvariant` | `Spec => []MemoryInv` |
| `SecretMemoryProofs!SecretsStayLocked` | `Spec => []SecretsLocked` |
| `SecretMemoryProofs!AllowanceIsEnough` | `Spec => []AllowanceSuffices` |

### 4.1 Assumptions

The assumptions are those of the modules, none is made in a module of proofs:

- `VaultStore`: `MaxRev` is a positive number, the default settings are settings,
  the bounds of the audit are natural numbers.
- `KeyTable` (`LimitsAssumption`): the tables have room for a phrase and a wallet,
  and there is an index; `Wallets` (`RevAssumption`): `MaxRev` is a number.
- `Transactions`: fees, rents, balances and all bounds are natural numbers, and no
  address is the one that stands for none. Nothing relates the deadline, the
  pause and the timeout to each other.
- `Settings`, `Sessions`: a hash is not None, an alias is never a command's name and
  stands for a command; other processes save only what `decode` accepts (they
  run the same code, the theorem `FileStaysDecodable` says so); the names of
  tasks that are no commands are no words; no interval exceeds the longest time
  told apart.
- `CloseBatches`: there are finitely many accounts, and the bounds are natural
  numbers.
- `LineEditor` (`EditorAssumption`): a character has one to four bytes, no character
  is a control key, what may cut off a character are keys, and the line and the
  history have room for something.
- `Amounts` (`AmountAssumption`): the base is at least two, `MaxDecimals` is the
  largest exponent whose power of the base fits into a word (for 64 bits and the
  base ten it is 19, the number in the code), and what is typed are digits, the
  point or the other character.
- `SecretMemory`: a region has at least one page, and the allowance is not less
  than the sum of all owners' pages, as the constants of `kdf.rs` have it.

`FsyncCoversParent` is a premise of two theorems and not an assumption: fsync of
a directory that has just been created also makes its entry in the parent
durable. Journaling file systems do so; POSIX does not promise it. With the
constant FALSE, TLC finds `AckedSurvive` violated: the whole directory vanishes
after an acknowledged first save. The other theorems about `VaultStore`, the
audit's among them, do not need it. Two more are in the model itself: a random
temporary name is a name of its own, and fsync of the temporary file keeps its
contents.

### 4.2 The arguments

Hardly any of the safety properties is inductive. Each module of proofs has one
inductive invariant, made of named parts; every part has a lemma with a step per
action, and the `...Effect` lemmas say once what the large actions leave behind.

**Save protocol.** `FileComplete` needs to know that what is about to be renamed
is synced, and that nobody else can rename in between. `StoreInv` adds:

- `LockInv`: the lock has at most one holder, which is inside a call that got it;
- `CallInv`: a call has a revision of its own, which holds what its process has
  in memory;
- `CommitInv`: before the rename the new revision is neither in the window nor
  anybody's source; after it, it *is* the file until the lock is given back; and
  from the revision check to the rename the file is still the source. This part
  is why lock and check are both needed;
- `ContentInv`: the file is in the window, every revision in use has been
  encrypted and contains its own update, a vault in memory contains what it was
  loaded from;
- `DiskInv`: when temporary names exist, and that what is renamed is synced.

The audit needs two more: a vault in memory has the settings and the audit of the
revision it claims to hold (`BaselineInv`), and a call that has not committed has
encrypted one edit more exactly if the settings differ from them (`CountedInv`).
As `CommitInv` says that this revision still is the file at the rename, what is
counted is the difference between the old file and the new one. A step is a
commit if the file it leaves is neither the old one nor one a power loss may
restore. That the audit can be read needs `RevisionsReadable`, of every revision
and not only of those in the file, because a vault in memory may come from one
that has been replaced since.

Durability needs `FreshInv` (the update of a call that has not committed is in no
vault but its own) and `OkInv` (a call about to return Ok has made its update
survive). The refinement maps the file to the set of updates in it and a process
to the contents of the revision its vault claims to hold: `Rename` is the only
`Commit`, `SyncDirectory` and `WriteBack` harden, `Return` with Ok acknowledges,
everything else stutters or opens or forgets a view.

**Key table and wallets.** `Sound` is what a table is that commands have led to:
within the limits, one wallet to a name, and every derived wallet refers to a
phrase that derives its address and whose next index is past it.
The first part of `WalletsProofs` shows that every function keeps it. The heart is
`RemoveAccount`: it erases the copies of a phrase from the last to the first, and
each erasure moves the positions behind it by one; `RenumberedRefers` shows one
erasure right, and a round by round argument over the positions all of them.
`WalletsInv` then says that every file a power loss may leave is sound
(`FileInv`), that what a waiting command has shown, or is going to save, is true
of the revision it took, and hence of the file if that still has this revision
(`ReviewInv`, `SaveInv`), and that no file has fallen behind a printed address
(`IssuedInv`). `NeverReissued` follows from the last part, for every file in the
window, so also after a power loss.

**Transactions.** Besides the types, `QuoteInv` says that from the refresh on the
message holds the numbers that were shown, that the key is the one of the
address shown, and that ALL is neither nothing nor more than the balance; `ChainInv` that commands which have not come to `Send` have
nothing on the chain, and that what is polled for is the transfer that was shown.
The properties themselves complete the invariant. That the time waited stays
within the deadline needs nothing about `Pause`, `Timeout` and the number of polls:
every call gets at most what is left (`CallTime`), and so does every pause.

**Sessions and editor.** A revision determines its file (`RevInv`), which makes
the editor's comparison of revisions one of settings; `KeyInv` says where a key
may be without caching, `PolicyInv` that the policy is the file's from the
moment it was read until others change it, `SaveInv` that what is about to be
saved was loaded with the key in memory and is what was reviewed, `SavedInv` that
only drafts are not loadable, `TimeInv` that no refresh counts as done that was
not tried. For the types every edit of a draft must leave settings
(`FieldsUsable`, `WalletsUsable`, `AliasesUsable`); that `retain` leaves a list of
names is the only induction.

**close-ata.** `CommandInv` says that no account is in two of the places where a
command keeps accounts: still to do, being packed, closed and counted; the count
is the size of the latter. `ShownInv` ties the two lists that are built side by
side: the instructions are those of the candidates, joined, and burn as many
tokens of each account. `OwedInv` is what `BurnsWereGranted` needs to be
inductive: what is burned already and what the transactions still out may burn
is, added up, not more than was granted.

**Line editor.** `Strings` are the sequences of bytes that are valid UTF-8, and
`Text` what they spell. Both are folds, so what they make of strings that are
joined, cut between two characters, or one character longer, is shown first
(`TextJoined`, `ValidJoined`, `ValidParts`), and from it an induction that takes
one character off a string (`StringInduction`); it gives that strings which spell
the same are the same bytes (`SameText`), so that the history may compare bytes
where `Line` compares texts; `BytesOfText` does the same for the limit in bytes.
`EditorInv` says that the line, the
entries and the draft are such strings within their limits, the cursor stands
between two characters, the history position is a place in it, and no entry is
empty. For the refinement, a cursor between two characters
cuts the line into two strings, and inserting, moving and deleting are what `Line`
does with the two texts (`SidesInserted`, `SidesOfCharacter`); one lemma per key
shows that its step is one of `Line`, or a stutter where the code does nothing:
no room left, the start or the end of the line, an unfinished character.

**Amounts.** `Value` is a fold; `ValueJoined` says that digits put behind others
move them up by a power of the base, and hence that the digits before and behind
the point, filled up, are worth what `ParseAmount` computes (`ValueFilled`). If
this fits into a word, so does every intermediate result, as no product with a
power is less than its factor (`CheckedSum`): so the function is exact or fails.
For `FormatAmount` it is shown that `Digits` and `Padded` print the numbers above and
below the scale (`DigitsPrint`, `PaddedPrints`, by induction over the number and
the width, with `DividedTwice` for the division by one power after another), that
what `Trimmed` cuts off is filled up again, and that the point is found where it
was put (`SplitAtPoint`). The invariant `AmountInv` says only that a shown text is
the one made from the units; the rest is true of any text.

**Secret memory.** The plan of an operation is a list of steps; `Leads(p, x, y)`
says that it takes the owners held from x to y treating each in the right order
(map, lock, protect, fill, drop). It is proved of every plan of the model, and
`PlanInv` of what is left of the running plan, together with the fact that memory
is as the rest of the plan presupposes (`Matches`). `SecretsLocked` follows, as
only a locked region is filled. For the limit every slot in use belongs to
another owner (`MemInv`), so that what is locked is at most the sum over the
owners (`SumMonotone`), which the allowance covers; `LimitInv` says that nothing
begins before the limit has been seen to.

**Data.** The induction theorems of the library cannot be used (they take an
operator as a parameter), so `DataTheorems` derives what is needed from
`NumberInduction`, induction stated for a set of numbers: that the functions
chosen in the definitions of the community modules' folds exist, and with them
the laws of sums over finite sets, of totals of lists and of `FlattenSeq`.

### 4.3 Only model-checked

- Liveness under fairness: `SaveReturns`, `ResultReported`, `ShellEnds`. The prover
  has no rule for it, nor for ENABLED.

Every invariant, action property and refinement that a run checks is a theorem.
No module that is proved about uses RECURSIVE.

## 5. Plan

What was planned is done: all components worth modelling are modelled, checked
and proved safe. What could follow:

1. The revision check and the cached key in one model: `Wallets` and `Sessions`
   composed, so that a shell's stale key meets another process's `delete`.
2. The RPC client's other calls, as far as an answer decides what happens next
   (retries of a read, the choice of the blockhash).

## 6. Not modelled, and why

- What the user is shown is data, not text: prompts, colours, escaping,
  `safe_text`, `utc_time` and redrawing are left out.
- Permission and ownership checks of `secure_file.rs` are calls that may fail.
- The password: a wrong one is a command that fails (`Refuse`, `GiveUp`, `Fail`).
- Compute-unit tuning (`tuned_compute_limit`) and simulations: calls that may
  fail; they change the instructions before the review only.
- Instruction encoding, BIP32, BIP39 and the ciphers: data and libraries.
- The RPC client beyond sending and confirming: answers or failures, given to
  whoever asks.
- Deleting the `.lock` file while it is held; the repository's README tells the
  user not to (`README.md:158`).
- `Sessions`: the revision check of `delete` and `export` is in `Wallets`; settings
  with a range of numbers other than the interval; the syntax of names, words
  and URLs, which a menu or `validate` refuses; `mode`, which no menu changes.
- `LineEditor`: an escape sequence is one key, though an ESC key alone swallows
  the key after it when that follows within 50 ms; bytes that are no UTF-8,
  which a terminal's line refuses and `read_bounded_line` reports; lines of
  blanks; that Ctrl-C in the settings editor cancels the edit instead of
  returning an empty line (`LeaveEditor` in `Sessions`).
- `SecretMemory`: copies the compiler makes, registers, dumps (the comments of
  `secret.rs` exclude them too), a kill, after which the kernel frees everything,
  and erasing the tail of a buffer that is shortened.
