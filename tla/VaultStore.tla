----------------------------- MODULE VaultStore -----------------------------
(***************************************************************************)
(* The encrypted vault file, and the protocol by which several solx        *)
(* processes load and save it (src/src/vault.rs, src/src/secure_file.rs).  *)
(*                                                                         *)
(* Session::save is one function, but every call it makes can fail, other  *)
(* processes run between any two of them, the process can be killed and    *)
(* the machine can lose power.  So each call is an action here:            *)
(*                                                                         *)
(*   Encode    -> OpenDirectory -> TryLock -> CheckRevision -> CreateTemp  *)
(*             -> WriteTemp -> SyncTemp -> Rename -> SyncDirectory         *)
(*             -> (Cleanup) -> Return                                      *)
(*                                                                         *)
(* A revision is one ciphertext: save draws a fresh nonce, so no two calls *)
(* produce the same bytes and comparing bytes is comparing revisions.      *)
(* Revisions are numbered in the order they are encrypted; 0 is no file.   *)
(* The plaintext is abstracted to the updates it contains, its settings    *)
(* and the settings audit.  Each call to save carries one update of its    *)
(* own, named by the revision it tries to write, on top of what the        *)
(* process loaded and of what its failed saves left in memory.             *)
(***************************************************************************)
EXTENDS Integers, FiniteSets

CONSTANTS
    Procs,               \* solx processes that share the vault file
    MaxRev,              \* bound on the number of calls to save that encrypt
    Settings,            \* the configurations a vault can hold
    DefaultSettings,     \* Config::default
    NoSettings,          \* None of Vault::saved_config: never loaded or saved
    MaxEdits,            \* the largest settings-edit counter (u64::MAX)
    MaxTime,             \* the largest edit time accepted (9999-12-31)
    FsyncCoversParent    \* whether fsync of a directory that was just created
                         \* also makes its entry in the parent durable

ASSUME MaxRevAssumption == MaxRev \in Nat \ {0}
ASSUME SettingsAssumption ==
    DefaultSettings \in Settings /\ NoSettings \notin Settings
ASSUME AuditAssumption == MaxEdits \in Nat /\ MaxTime \in Nat
ASSUME FsyncAssumption == FsyncCoversParent \in BOOLEAN

VARIABLES
    vault,    \* the Vault each process holds in memory
    pc,       \* how far its call to save has come
    target,   \* the revision that call encrypted, 0 outside a call
    outcome,  \* what that call is going to return, once it is known
    lock,     \* the holder of the advisory lock on the .lock file
    blob,     \* what each revision decrypts to
    data,     \* how far each revision's inode has been written
    temps,    \* the revisions that stand under a temporary name
    file,     \* the revision that stands under the vault's name
    window,   \* the revisions a power loss may leave under that name
    dir,      \* the vault directory: absent, volatile or durable
    nextRev,  \* the number of revisions encrypted so far, plus one
    acked     \* the updates whose save returned Ok

procVars == <<vault, pc, target, outcome>>
diskVars == <<data, temps, file, window, dir>>
vars == <<vault, pc, target, outcome, lock, blob, data, temps, file, window,
          dir, nextRev, acked>>

Revs == 1..MaxRev
NoFile == 0
NoProc == {}   \* lock is the set of its holders

Audit == [edits : 0..MaxEdits, last : 0..MaxTime]
NoAudit == [edits |-> 0, last |-> 0]

\* ConfigAudit::validate: what encode and decode ask of a settings audit.
Validated(audit) == (audit.edits = 0 <=> audit.last = 0) /\ audit.last <= MaxTime

Contents == [updates : SUBSET Revs, settings : Settings, audit : Audit]
Blank == [updates |-> {}, settings |-> DefaultSettings, audit |-> NoAudit]

Vaults == [loaded : BOOLEAN, source : 0..MaxRev, updates : SUBSET Revs,
           settings : Settings, saved : Settings \cup {NoSettings},
           audit : Audit]
NoVault == [loaded |-> FALSE, source |-> NoFile, updates |-> {},
            settings |-> DefaultSettings, saved |-> NoSettings,
            audit |-> NoAudit]
NewVault == [NoVault EXCEPT !.loaded = TRUE]

\* decrypt_bytes and decode: the bytes read are the revision to replace, the
\* settings read are the baseline of the audit.
DecodedVault(r, content) ==
    [loaded |-> TRUE, source |-> r, updates |-> content.updates,
     settings |-> content.settings, saved |-> content.settings,
     audit |-> content.audit]

\* The vault after an edit of its settings, of anything else, and after the
\* rename that commits revision r of it.
WithSettings(v, s) == [v EXCEPT !.settings = s]
WithUpdate(v, r) == [v EXCEPT !.updates = @ \cup {r}]
CommittedVault(v, r, content) ==
    [v EXCEPT !.source = r, !.saved = content.settings,
              !.audit = content.audit]

Steps == {"idle", "encoded", "opened", "locked", "checked", "created",
          "written", "synced", "renamed", "cleanup", "done"}
Outcomes == {"none", "ok", "busy", "stale", "failed", "uncertain"}

\* The steps at which a call to save holds the lock, and those of them at
\* which it relies on the revision check.
Holding == {"locked", "checked", "created", "written", "synced", "renamed",
            "cleanup"}
Replacing == {"checked", "created", "written", "synced"}

\* The plaintext behind a revision number; no file holds no update.
ContentOf(r) == IF r = NoFile THEN Blank ELSE blob[r]

TypeOK ==
    /\ vault \in [Procs -> Vaults]
    /\ pc \in [Procs -> Steps]
    /\ target \in [Procs -> 0..MaxRev]
    /\ \A p \in Procs : pc[p] = "idle" <=> target[p] = 0
    /\ outcome \in [Procs -> Outcomes]
    /\ lock \in SUBSET Procs
    /\ blob \in [Revs -> Contents]
    /\ data \in [Revs -> {"none", "empty", "written", "synced"}]
    /\ temps \in SUBSET Revs
    /\ file \in 0..MaxRev
    /\ window \in SUBSET (0..MaxRev)
    /\ dir \in {"absent", "volatile", "durable"}
    /\ nextRev \in 1..(MaxRev + 1)
    /\ acked \in SUBSET Revs

Init ==
    /\ vault = [p \in Procs |-> NoVault]
    /\ pc = [p \in Procs |-> "idle"]
    /\ target = [p \in Procs |-> 0]
    /\ outcome = [p \in Procs |-> "none"]
    /\ lock = NoProc
    /\ blob = [r \in Revs |-> Blank]
    /\ data = [r \in Revs |-> "none"]
    /\ temps = {}
    /\ file = NoFile
    /\ window = {NoFile}
    /\ dir \in {"absent", "durable"}
    /\ nextRev = 1
    /\ acked = {}

-----------------------------------------------------------------------------
(* What the owner of a Vault does between saves.                           *)

\* Session::load (and open): the file is read through one descriptor, so a
\* concurrent rename changes which inode is read, never half of it.
Load(p) ==
    /\ pc[p] = "idle"
    /\ file # NoFile
    /\ Validated(blob[file].audit)
    /\ vault' = [vault EXCEPT ![p] = DecodedVault(file, blob[file])]
    /\ UNCHANGED <<pc, target, outcome, lock, blob, diskVars, nextRev, acked>>

\* Session::create, up to its call of save: the vault must not exist, which
\* is only looked at here and looked at again under the lock.
Create(p) ==
    /\ pc[p] = "idle"
    /\ file = NoFile
    /\ vault' = [vault EXCEPT ![p] = NewVault]
    /\ UNCHANGED <<pc, target, outcome, lock, blob, diskVars, nextRev, acked>>

\* The settings editor changes the draft; the next save carries it.
ChangeSettings(p) ==
    /\ pc[p] = "idle"
    /\ vault[p].loaded
    /\ \E s \in Settings \ {vault[p].settings} :
          vault' = [vault EXCEPT ![p] = WithSettings(@, s)]
    /\ UNCHANGED <<pc, target, outcome, lock, blob, diskVars, nextRev, acked>>

-----------------------------------------------------------------------------
(* Session::save, call by call.                                            *)

\* ConfigAudit::record_edit: the audit after one more edit at time now, and
\* the conditions under which it is refused.
RecordEdit(audit, now) == [edits |-> audit.edits + 1, last |-> now]
EditAccepted(audit, now) ==
    /\ now # 0
    /\ now >= audit.last
    /\ audit.edits < MaxEdits
    /\ Validated(RecordEdit(audit, now))

\* Whether save must count a settings change: only against a baseline.
SettingsEdited(p) ==
    /\ vault[p].saved # NoSettings
    /\ vault[p].settings # vault[p].saved

\* The audit that save is going to encrypt, if the clock says now.
NewAudit(p, now) ==
    IF SettingsEdited(p) THEN RecordEdit(vault[p].audit, now)
    ELSE vault[p].audit

\* Mutation of AuditAccepted: a clock that says zero is taken for a time,
\* and only the upper bound of the time is validated.
AuditAcceptedAnyClock(p, now) ==
    SettingsEdited(p) => /\ now >= vault[p].audit.last
                         /\ vault[p].audit.edits < MaxEdits
                         /\ now <= MaxTime

\* save refuses to record the edit, or encode_with_audit to write the audit.
AuditAccepted(p, now) ==
    /\ SettingsEdited(p) => EditAccepted(vault[p].audit, now)
    /\ Validated(NewAudit(p, now))

\* The new audit is computed from memory but not stored there: it becomes
\* the vault's own only when the rename has happened.
Encode(p) ==
    /\ pc[p] = "idle"
    /\ vault[p].loaded
    /\ nextRev \in Revs
    /\ \E now \in 0..(MaxTime + 1) :
          /\ AuditAccepted(p, now)
          /\ blob' = [blob EXCEPT ![nextRev] =
                [updates |-> vault[p].updates \cup {nextRev},
                 settings |-> vault[p].settings,
                 audit |-> NewAudit(p, now)]]
    /\ vault' = [vault EXCEPT ![p] = WithUpdate(@, nextRev)]
    /\ target' = [target EXCEPT ![p] = nextRev]
    /\ pc' = [pc EXCEPT ![p] = "encoded"]
    /\ nextRev' = nextRev + 1
    /\ UNCHANGED <<outcome, lock, diskVars, acked>>

\* Directory::open(parent, create): an absent directory is made.
OpenDirectory(p) ==
    /\ pc[p] = "encoded"
    /\ dir' = IF dir = "absent" THEN "volatile" ELSE dir
    /\ pc' = [pc EXCEPT ![p] = "opened"]
    /\ UNCHANGED <<vault, target, outcome, lock, blob, data, temps, file,
                   window, nextRev, acked>>

\* acquire_lock: never waits.
TryLock(p) ==
    /\ pc[p] = "opened"
    /\ \/ /\ lock = NoProc
          /\ lock' = {p}
          /\ pc' = [pc EXCEPT ![p] = "locked"]
          /\ UNCHANGED outcome
       \/ /\ lock # NoProc
          /\ pc' = [pc EXCEPT ![p] = "done"]
          /\ outcome' = [outcome EXCEPT ![p] = "busy"]
          /\ UNCHANGED lock
    /\ UNCHANGED <<vault, target, blob, diskVars, nextRev, acked>>

\* Mutation of CheckRevision: the lock alone is trusted to order writers.
CheckRevisionOmitted(p) ==
    /\ pc[p] = "locked"
    /\ pc' = [pc EXCEPT ![p] = "checked"]
    /\ UNCHANGED <<vault, target, outcome, lock, blob, diskVars, nextRev, acked>>

\* The file must still be what this vault was decoded from; a new vault
\* must find no file.
CheckRevision(p) ==
    /\ pc[p] = "locked"
    /\ \/ /\ file = vault[p].source
          /\ pc' = [pc EXCEPT ![p] = "checked"]
          /\ UNCHANGED outcome
       \/ /\ file # vault[p].source
          /\ pc' = [pc EXCEPT ![p] = "done"]
          /\ outcome' = [outcome EXCEPT ![p] = "stale"]
    /\ UNCHANGED <<vault, target, lock, blob, diskVars, nextRev, acked>>

\* O_CREAT | O_EXCL under a random name, taken to be a name of its own.
CreateTemp(p) ==
    /\ pc[p] = "checked"
    /\ temps' = temps \cup {target[p]}
    /\ data' = [data EXCEPT ![target[p]] = "empty"]
    /\ pc' = [pc EXCEPT ![p] = "created"]
    /\ UNCHANGED <<vault, target, outcome, lock, blob, file, window, dir,
                   nextRev, acked>>

WriteTemp(p) ==
    /\ pc[p] = "created"
    /\ data' = [data EXCEPT ![target[p]] = "written"]
    /\ pc' = [pc EXCEPT ![p] = "written"]
    /\ UNCHANGED <<vault, target, outcome, lock, blob, temps, file, window,
                   dir, nextRev, acked>>

\* Mutation of SyncTemp: the temporary file is renamed without sync_all.
SyncTempOmitted(p) ==
    /\ pc[p] = "written"
    /\ pc' = [pc EXCEPT ![p] = "synced"]
    /\ UNCHANGED <<vault, target, outcome, lock, blob, diskVars, nextRev, acked>>

SyncTemp(p) ==
    /\ pc[p] = "written"
    /\ data' = [data EXCEPT ![target[p]] = "synced"]
    /\ pc' = [pc EXCEPT ![p] = "synced"]
    /\ UNCHANGED <<vault, target, outcome, lock, blob, temps, file, window,
                   dir, nextRev, acked>>

\* Mutation of Rename: the revision in memory is not moved forward.
RenameKeepsSource(p) ==
    /\ pc[p] = "synced"
    /\ file' = target[p]
    /\ window' = window \cup {target[p]}
    /\ temps' = temps \ {target[p]}
    /\ vault' = [vault EXCEPT ![p] =
           [@ EXCEPT !.saved = blob[target[p]].settings,
                     !.audit = blob[target[p]].audit]]
    /\ pc' = [pc EXCEPT ![p] = "renamed"]
    /\ UNCHANGED <<target, outcome, lock, blob, data, dir, nextRev, acked>>

\* Mutation of Rename: the settings baseline in memory is not moved forward.
RenameKeepsBaseline(p) ==
    /\ pc[p] = "synced"
    /\ file' = target[p]
    /\ window' = window \cup {target[p]}
    /\ temps' = temps \ {target[p]}
    /\ vault' = [vault EXCEPT ![p] =
           [@ EXCEPT !.source = target[p],
                     !.audit = blob[target[p]].audit]]
    /\ pc' = [pc EXCEPT ![p] = "renamed"]
    /\ UNCHANGED <<target, outcome, lock, blob, data, dir, nextRev, acked>>

\* The commit.  The vault in memory takes the new revision, audit and
\* settings baseline at once, before the directory is synced.
Rename(p) ==
    /\ pc[p] = "synced"
    /\ file' = target[p]
    /\ window' = window \cup {target[p]}
    /\ temps' = temps \ {target[p]}
    /\ vault' = [vault EXCEPT ![p] =
           CommittedVault(@, target[p], blob[target[p]])]
    /\ pc' = [pc EXCEPT ![p] = "renamed"]
    /\ UNCHANGED <<target, outcome, lock, blob, data, dir, nextRev, acked>>

\* Mutation of SyncDirectory: its result is dropped and success reported.
SyncDirectoryIgnored(p) ==
    /\ pc[p] = "renamed"
    /\ pc' = [pc EXCEPT ![p] = "done"]
    /\ outcome' = [outcome EXCEPT ![p] = "ok"]
    /\ UNCHANGED <<vault, target, lock, blob, diskVars, nextRev, acked>>

\* fsync of the vault directory.
SyncDirectory(p) ==
    /\ pc[p] = "renamed"
    /\ window' = {file}
    /\ dir' = IF FsyncCoversParent THEN "durable" ELSE dir
    /\ pc' = [pc EXCEPT ![p] = "done"]
    /\ outcome' = [outcome EXCEPT ![p] = "ok"]
    /\ UNCHANGED <<vault, target, lock, blob, data, temps, file, nextRev,
                   acked>>

\* A call fails with an error from the system.  Before the temporary file
\* there is nothing to clean up; from there on every error goes through
\* the removal of the temporary name, also the one after the rename.
FailEarly(p) ==
    /\ pc[p] \in {"encoded", "opened", "locked"}
    /\ pc' = [pc EXCEPT ![p] = "done"]
    /\ outcome' = [outcome EXCEPT ![p] = "failed"]
    /\ UNCHANGED <<vault, target, lock, blob, diskVars, nextRev, acked>>

FailLate(p) ==
    /\ pc[p] \in Replacing \cup {"renamed"}
    /\ pc' = [pc EXCEPT ![p] = "cleanup"]
    /\ outcome' = [outcome EXCEPT ![p] =
           IF pc[p] = "renamed" THEN "uncertain" ELSE "failed"]
    /\ UNCHANGED <<vault, target, lock, blob, diskVars, nextRev, acked>>

\* The removal is an attempt: its own failure is ignored.
Cleanup(p) ==
    /\ pc[p] = "cleanup"
    /\ temps' = temps \ {target[p]} \/ temps' = temps
    /\ pc' = [pc EXCEPT ![p] = "done"]
    /\ UNCHANGED <<vault, target, outcome, lock, blob, data, file, window,
                   dir, nextRev, acked>>

\* Mutation of Return: the early return on a stale revision keeps the lock.
ReturnLeaksLock(p) ==
    /\ pc[p] = "done"
    /\ acked' = IF outcome[p] = "ok" THEN acked \cup {target[p]} ELSE acked
    /\ lock' = IF outcome[p] = "stale" THEN lock ELSE lock \ {p}
    /\ pc' = [pc EXCEPT ![p] = "idle"]
    /\ target' = [target EXCEPT ![p] = 0]
    /\ outcome' = [outcome EXCEPT ![p] = "none"]
    /\ UNCHANGED <<vault, blob, diskVars, nextRev>>

\* The end of save: the result is handed out, and leaving the function
\* closes the lock file, whatever the path.
Return(p) ==
    /\ pc[p] = "done"
    /\ acked' = IF outcome[p] = "ok" THEN acked \cup {target[p]} ELSE acked
    /\ lock' = lock \ {p}
    /\ pc' = [pc EXCEPT ![p] = "idle"]
    /\ target' = [target EXCEPT ![p] = 0]
    /\ outcome' = [outcome EXCEPT ![p] = "none"]
    /\ UNCHANGED <<vault, blob, diskVars, nextRev>>

-----------------------------------------------------------------------------
(* The environment.                                                        *)

\* The process ends: by its own exit between saves, or killed anywhere.
\* The kernel closes its descriptors, so the lock goes with it; its
\* temporary file stays.
Exit(p) ==
    /\ vault[p].loaded
    /\ vault' = [vault EXCEPT ![p] = NoVault]
    /\ pc' = [pc EXCEPT ![p] = "idle"]
    /\ target' = [target EXCEPT ![p] = 0]
    /\ outcome' = [outcome EXCEPT ![p] = "none"]
    /\ lock' = lock \ {p}
    /\ UNCHANGED <<blob, diskVars, nextRev, acked>>

\* Every process ends.  Of the renames since the directory was last synced
\* any prefix survives, and a directory whose entry is still volatile may
\* be lost with all it holds.  Temporary files are not followed further:
\* no later call looks at them.
PowerLoss ==
    /\ \/ /\ file' \in window
          /\ dir' = IF dir = "volatile" THEN "durable" ELSE dir
       \/ /\ dir = "volatile"
          /\ file' = NoFile
          /\ dir' = "absent"
    /\ window' = {file'}
    /\ vault' = [p \in Procs |-> NoVault]
    /\ pc' = [p \in Procs |-> "idle"]
    /\ target' = [p \in Procs |-> 0]
    /\ outcome' = [p \in Procs |-> "none"]
    /\ lock' = NoProc
    /\ temps' = {}
    /\ UNCHANGED <<blob, data, nextRev, acked>>

\* The operating system writes directories back when it likes.
WriteBack ==
    /\ window' = {file}
    /\ dir' = IF dir = "volatile" THEN "durable" ELSE dir
    /\ UNCHANGED <<procVars, lock, blob, data, temps, file, nextRev, acked>>

-----------------------------------------------------------------------------
Use(p) == Load(p) \/ Create(p) \/ ChangeSettings(p) \/ Encode(p)

\* What the function save does by itself once it has been entered.
Save(p) ==
    \/ OpenDirectory(p) \/ TryLock(p) \/ CheckRevision(p)
    \/ CreateTemp(p) \/ WriteTemp(p) \/ SyncTemp(p) \/ Rename(p)
    \/ SyncDirectory(p) \/ FailEarly(p) \/ FailLate(p)
    \/ Cleanup(p) \/ Return(p)

Next ==
    \/ \E p \in Procs : Use(p) \/ Save(p) \/ Exit(p)
    \/ PowerLoss
    \/ WriteBack

Spec == Init /\ [][Next]_vars

\* save never waits for another process: once entered it runs to its end
\* unless its process is stopped.
FairSpec == Spec /\ \A p \in Procs : WF_vars(Save(p))

-----------------------------------------------------------------------------
(* What could go wrong.                                                    *)

\* The revisions that a power loss may leave under the vault's name.
Survivors == window \cup (IF dir = "volatile" THEN {NoFile} ELSE {})

\* No lost update, durably: an update whose save returned Ok is in the
\* vault now and in every vault that a power loss may put back, whatever
\* other processes saved, failed to save or were killed doing since.
AckedSurvive ==
    \A r \in Survivors \cup {file} : acked \subseteq ContentOf(r).updates

\* Whatever stands, or may come back, under the vault's name was written in
\* full and synced before it got there: load never meets a torn file.
FileComplete ==
    \A r \in (Survivors \cup {file}) \ {NoFile} : data[r] = "synced"

\* When save ends, what it reports, the revision the vault in memory claims
\* to hold and the file agree on whether the commit happened; the settings
\* editor reads the revision to tell (src/src/settings.rs, commit).  Only a
\* save that failed before the commit may leave a temporary file.
OutcomeMatchesDisk ==
    \A p \in Procs : pc[p] = "done" =>
        LET committed == outcome[p] \in {"ok", "uncertain"} IN
        /\ (file = target[p]) = committed
        /\ (vault[p].source = target[p]) = committed
        /\ outcome[p] # "failed" => target[p] \notin temps

\* The settings audit in the file counts exactly the commits that changed
\* the settings: none is counted twice after a failed save, none is missed,
\* none is counted for a save that restores what was on disk; and the time
\* of the last edit never goes back.
EditsCountCommits ==
    [][LET commit == file' \notin Survivors
           old == ContentOf(file)
           new == blob'[file']
           edited == file # NoFile /\ new.settings # old.settings
       IN commit => /\ new.audit.edits =
                           old.audit.edits + (IF edited THEN 1 ELSE 0)
                    /\ new.audit.last >= old.audit.last]_vars

\* Nobody is locked out by a clock: at zero, set back or beyond the last
\* year, and whatever calls of save fail in between, the vault that stands,
\* or may come back after a power loss, has an audit that decode accepts,
\* and every vault in memory has one that encode accepts, so that it can be
\* saved as long as its settings stay.
AuditReadable ==
    /\ \A r \in (Survivors \cup {file}) \ {NoFile} : Validated(blob[r].audit)
    /\ \A p \in Procs : vault[p].loaded => Validated(vault[p].audit)

\* Every call of save comes back, and then its process no longer holds the
\* lock: nobody waits for anybody.
SaveReturns ==
    \A p \in Procs :
        pc[p] # "idle" ~> (pc[p] = "idle" /\ p \notin lock)

\* The protocol implements the atomic vault: the vault is the content of the
\* file, a process's view is the content of the revision its vault claims to
\* hold, and only the rename, by a view that is still the file, changes it.
Current == ContentOf(file).updates
Window == {ContentOf(r).updates : r \in Survivors}
View == [p \in Procs |-> IF vault[p].loaded
                         THEN {ContentOf(vault[p].source).updates}
                         ELSE {}]
Atomic == INSTANCE AtomicVault WITH
    Updates <- Revs, current <- Current, window <- Window, view <- View
AtomicSpec == Atomic!Spec

-----------------------------------------------------------------------------
(* Why it works: the invariant behind the safety properties, inductive.    *)

\* A call to save that has not replaced the file, and one that has.
Uncommitted(p) ==
    \/ pc[p] \in {"encoded", "opened", "locked"} \cup Replacing
    \/ pc[p] = "cleanup" /\ outcome[p] = "failed"
    \/ pc[p] = "done" /\ outcome[p] \in {"busy", "stale", "failed"}
Committed(p) ==
    \/ pc[p] = "renamed"
    \/ pc[p] = "cleanup" /\ outcome[p] = "uncertain"
    \/ pc[p] = "done" /\ outcome[p] \in {"ok", "uncertain"}

\* The lock has one holder, which is in a call to save that got it.
LockInv ==
    /\ \A p \in Procs : pc[p] \in Holding \/ Committed(p) => lock = {p}
    /\ \A p \in lock : lock = {p} /\ pc[p] \in Holding \cup {"done"}

\* A call to save works on a vault in memory, holds exactly its updates in
\* the revision it encrypted, and has that revision for itself.
CallInv ==
    /\ \A p \in Procs : pc[p] # "idle" =>
          /\ vault[p].loaded
          /\ target[p] < nextRev
          /\ blob[target[p]].updates = vault[p].updates
          /\ Uncommitted(p) \/ Committed(p)
    /\ \A p, q \in Procs :
          pc[p] # "idle" /\ pc[q] # "idle" /\ target[p] = target[q] => p = q

\* Before the rename nobody can see the new revision; after it, and until
\* the lock is released, it is the file.  The revision check still holds
\* when the rename comes.
CommitInv ==
    \A p \in Procs :
        /\ Uncommitted(p) => target[p] \notin window \cup {file, vault[p].source}
        /\ Committed(p) => file = target[p] /\ vault[p].source = target[p]
        /\ pc[p] \in Replacing => vault[p].source = file

\* Every revision in use has been encrypted, contains its own update, and a
\* vault in memory contains what it was loaded from.
ContentInv ==
    /\ file \in window
    /\ \A r \in window \cup temps : r < nextRev
    /\ \A r \in Revs : r < nextRev => r \in blob[r].updates
    /\ \A p \in Procs :
          /\ vault[p].source < nextRev
          /\ ContentOf(vault[p].source).updates \subseteq vault[p].updates

\* A temporary name does not exist before its creation and after the rename,
\* what is about to be renamed is synced, and an absent directory holds
\* nothing and has no writer.
DiskInv ==
    /\ \A p \in Procs :
          \/ pc[p] \in {"encoded", "opened", "locked", "checked"}
          \/ pc[p] = "done" /\ outcome[p] # "failed"
          \/ Committed(p)
          => target[p] \notin temps
    /\ dir = "absent" => window = {NoFile}
    /\ \A p \in Procs : pc[p] \notin {"idle", "encoded", "done"} => dir # "absent"
    /\ \A p \in Procs : pc[p] = "synced" => data[target[p]] = "synced"

\* The update of a call that has not replaced the file is in no vault but
\* its own process's; the next revision is in none.
FreshInv ==
    /\ \A p \in Procs : Uncommitted(p) =>
          /\ \A r \in window : target[p] \notin ContentOf(r).updates
          /\ \A q \in Procs : target[p] \in vault[q].updates => q = p
    /\ \A r \in Revs : r < nextRev => \A u \in blob[r].updates : u < nextRev
    /\ \A p \in Procs : \A u \in vault[p].updates : u < nextRev

\* A call that is about to return Ok has made its update survive.
OkInv ==
    \A p \in Procs : pc[p] = "done" /\ outcome[p] = "ok" =>
        \A r \in Survivors : target[p] \in ContentOf(r).updates

\* A vault in memory knows the settings and the audit of the revision it
\* claims to hold, so that save compares with what it is going to replace;
\* a new vault has no baseline.
BaselineInv ==
    \A p \in Procs : vault[p].loaded =>
        LET base == ContentOf(vault[p].source) IN
        /\ vault[p].audit = base.audit
        /\ vault[p].saved = IF vault[p].source = NoFile THEN NoSettings
                            ELSE base.settings

\* A call that has not replaced the file has encrypted the settings in memory,
\* with one edit more if they differ from the baseline.
CountedInv ==
    \A p \in Procs : Uncommitted(p) =>
        LET new == blob[target[p]] IN
        /\ new.settings = vault[p].settings
        /\ new.audit.edits =
              vault[p].audit.edits + (IF SettingsEdited(p) THEN 1 ELSE 0)
        /\ new.audit.last >= vault[p].audit.last

\* The inductive invariant of VaultStore.
StoreInv ==
    /\ TypeOK
    /\ LockInv
    /\ CallInv
    /\ CommitInv
    /\ ContentInv
    /\ DiskInv
    /\ FileComplete
=============================================================================
