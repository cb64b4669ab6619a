-------------------------- MODULE VaultStoreProofs --------------------------
(***************************************************************************)
(* What is proved of VaultStore for every number of processes, every bound *)
(* on the calls to save and every set of settings: StoreInv is inductive,  *)
(* no acknowledged update is ever lost, no torn file is ever loaded, save  *)
(* reports what happened, and the protocol implements AtomicVault.         *)
(***************************************************************************)
EXTENDS VaultStore, TLAPS

USE MaxRevAssumption, SettingsAssumption, AuditAssumption

-----------------------------------------------------------------------------
(* The vault records that the actions build.                               *)

\* decode yields a vault, whatever revision it read.
LEMMA DecodedVaultType ==
    ASSUME NEW r \in 0..MaxRev, NEW content \in Contents
    PROVE  /\ DecodedVault(r, content) \in Vaults
           /\ DecodedVault(r, content).loaded = TRUE
           /\ DecodedVault(r, content).source = r
           /\ DecodedVault(r, content).updates = content.updates
  BY DEF DecodedVault, Vaults, Contents

\* The empty vaults are vaults without a revision.
LEMMA NoVaultType ==
    /\ NoVault \in Vaults
    /\ NoVault.loaded = FALSE
    /\ NoVault.source = NoFile
    /\ NoVault.updates = {}
    /\ NewVault \in Vaults
    /\ NewVault.loaded = TRUE
    /\ NewVault.source = NoFile
    /\ NewVault.updates = {}
<1>1. /\ NoVault \in Vaults
      /\ NoVault.loaded = FALSE
      /\ NoVault.source = NoFile
      /\ NoVault.updates = {}
  <2>1. NoAudit \in Audit
    BY DEF NoAudit, Audit
  <2>. QED
    BY <2>1 DEF NoVault, Vaults, NoFile
<1>2. /\ NewVault \in Vaults
      /\ NewVault.loaded = TRUE
      /\ NewVault.source = NoVault.source
      /\ NewVault.updates = NoVault.updates
  BY <1>1 DEF NewVault, Vaults
<1>. QED
  BY <1>1, <1>2

\* An edit keeps the revision the vault came from.
LEMMA WithSettingsType ==
    ASSUME NEW v \in Vaults, NEW s \in Settings
    PROVE  /\ WithSettings(v, s) \in Vaults
           /\ WithSettings(v, s).loaded = v.loaded
           /\ WithSettings(v, s).source = v.source
           /\ WithSettings(v, s).updates = v.updates
  BY DEF WithSettings, Vaults

\* An update leaves the revision alone, too.
LEMMA WithUpdateType ==
    ASSUME NEW v \in Vaults, NEW r \in Revs
    PROVE  /\ WithUpdate(v, r) \in Vaults
           /\ WithUpdate(v, r).loaded = v.loaded
           /\ WithUpdate(v, r).source = v.source
           /\ WithUpdate(v, r).updates = v.updates \cup {r}
  BY DEF WithUpdate, Vaults

\* The commit moves the revision and nothing of the content.
LEMMA CommittedVaultType ==
    ASSUME NEW v \in Vaults, NEW r \in 0..MaxRev, NEW content \in Contents
    PROVE  /\ CommittedVault(v, r, content) \in Vaults
           /\ CommittedVault(v, r, content).loaded = v.loaded
           /\ CommittedVault(v, r, content).source = r
           /\ CommittedVault(v, r, content).updates = v.updates
  BY DEF CommittedVault, Vaults, Contents


\* Every action keeps every variable in its type.
LEMMA TypeStep ==
    ASSUME TypeOK, [Next]_vars
    PROVE  TypeOK'
<1> USE TypeOK DEF TypeOK, Revs, Steps, Outcomes, NoFile, NoProc
<1>1. ASSUME NEW p \in Procs, Load(p) PROVE TypeOK'
  <2>1. file \in Revs /\ blob[file] \in Contents
    BY <1>1 DEF Load
  <2>2. vault' \in [Procs -> Vaults]
    BY <1>1, <2>1, DecodedVaultType DEF Load
  <2>. QED
    BY <1>1, <2>2 DEF Load, diskVars
<1>2. ASSUME NEW p \in Procs, Create(p) PROVE TypeOK'
  <2>1. vault' \in [Procs -> Vaults]
    BY <1>2, NoVaultType DEF Create
  <2>. QED
    BY <1>2, <2>1 DEF Create, diskVars
<1>3. ASSUME NEW p \in Procs, ChangeSettings(p) PROVE TypeOK'
  <2>1. vault' \in [Procs -> Vaults]
    BY <1>3, WithSettingsType DEF ChangeSettings
  <2>. QED
    BY <1>3, <2>1 DEF ChangeSettings, diskVars
<1>4. ASSUME NEW p \in Procs, Encode(p) PROVE TypeOK'
  <2>1. vault' \in [Procs -> Vaults]
    BY <1>4, WithUpdateType DEF Encode
  <2>2. blob' \in [Revs -> Contents]
    <3>1. PICK now \in 0..(MaxTime + 1) :
             /\ AuditAccepted(p, now)
             /\ blob' = [blob EXCEPT ![nextRev] =
                   [updates |-> vault[p].updates \cup {nextRev},
                    settings |-> vault[p].settings,
                    audit |-> NewAudit(p, now)]]
      BY <1>4 DEF Encode
    <3>2. nextRev \in Revs /\ vault[p] \in Vaults
      BY <1>4 DEF Encode
    <3>3. /\ vault[p].updates \cup {nextRev} \in SUBSET Revs
          /\ vault[p].settings \in Settings
          /\ vault[p].audit \in Audit
      BY <3>2 DEF Vaults
    <3>4. NewAudit(p, now) \in Audit
      BY <3>1, <3>3
         DEF AuditAccepted, NewAudit, EditAccepted, RecordEdit, Validated, Audit
    <3>. QED
      BY <3>1, <3>2, <3>3, <3>4 DEF Contents
  <2>. QED
    BY <1>4, <2>1, <2>2 DEF Encode, diskVars
<1>5. ASSUME NEW p \in Procs, OpenDirectory(p) PROVE TypeOK'
  BY <1>5 DEF OpenDirectory, procVars, diskVars
<1>6. ASSUME NEW p \in Procs, TryLock(p) PROVE TypeOK'
  BY <1>6 DEF TryLock, procVars, diskVars
<1>7. ASSUME NEW p \in Procs, CheckRevision(p) PROVE TypeOK'
  BY <1>7 DEF CheckRevision, procVars, diskVars
<1>8. ASSUME NEW p \in Procs, CreateTemp(p) PROVE TypeOK'
  <2>1. target[p] \in Revs
    BY <1>8 DEF CreateTemp
  <2>. QED
    BY <1>8, <2>1 DEF CreateTemp
<1>9. ASSUME NEW p \in Procs, WriteTemp(p) PROVE TypeOK'
  BY <1>9 DEF WriteTemp, procVars, diskVars
<1>10. ASSUME NEW p \in Procs, SyncTemp(p) PROVE TypeOK'
  BY <1>10 DEF SyncTemp, procVars, diskVars
<1>11. ASSUME NEW p \in Procs, Rename(p) PROVE TypeOK'
  <2>1. vault' \in [Procs -> Vaults]
    <3>1. /\ vault[p] \in Vaults /\ blob[target[p]] \in Contents
          /\ target[p] \in 0..MaxRev
      BY <1>11 DEF Rename
    <3>2. CommittedVault(vault[p], target[p], blob[target[p]]) \in Vaults
      BY <3>1, CommittedVaultType
    <3>. QED
      BY <1>11, <3>2 DEF Rename
  <2>2. target[p] \in Revs
    BY <1>11 DEF Rename
  <2>3. window' \in SUBSET (0..MaxRev)
    <3>1. target[p] \in 0..MaxRev /\ window' = window \cup {target[p]}
      BY <1>11 DEF Rename
    <3>. QED
      BY <3>1
  <2>4. temps' \in SUBSET Revs
    BY <1>11 DEF Rename
  <2>. QED
    BY <1>11, <2>1, <2>2, <2>3, <2>4 DEF Rename
<1>12. ASSUME NEW p \in Procs, SyncDirectory(p) PROVE TypeOK'
  BY <1>12 DEF SyncDirectory, procVars, diskVars
<1>13. ASSUME NEW p \in Procs, FailEarly(p) PROVE TypeOK'
  BY <1>13 DEF FailEarly, procVars, diskVars
<1>14. ASSUME NEW p \in Procs, FailLate(p) PROVE TypeOK'
  BY <1>14 DEF FailLate, Replacing, diskVars
<1>15. ASSUME NEW p \in Procs, Cleanup(p) PROVE TypeOK'
  BY <1>15 DEF Cleanup, procVars, diskVars
<1>16. ASSUME NEW p \in Procs, Return(p) PROVE TypeOK'
  <2>1. target[p] \in Revs
    BY <1>16 DEF Return
  <2>2. acked' \in SUBSET Revs
    BY <1>16, <2>1 DEF Return
  <2>. QED
    BY <1>16, <2>2 DEF Return, diskVars
<1>17. ASSUME NEW p \in Procs, Exit(p) PROVE TypeOK'
  <2>1. vault' \in [Procs -> Vaults]
    BY <1>17, NoVaultType DEF Exit
  <2>. QED
    BY <1>17, <2>1 DEF Exit, diskVars
<1>18. CASE PowerLoss
  <2>1. vault' \in [Procs -> Vaults]
    BY <1>18, NoVaultType DEF PowerLoss
  <2>2. file' \in 0..MaxRev
    <3>1. file' \in window \/ file' = NoFile
      BY <1>18 DEF PowerLoss
    <3>2. window \subseteq 0..MaxRev /\ NoFile \in 0..MaxRev
      OBVIOUS
    <3>. QED
      BY <3>1, <3>2
  <2>3. dir' \in {"absent", "volatile", "durable"}
    BY <1>18 DEF PowerLoss
  <2>. QED
    BY <1>18, <2>1, <2>2, <2>3 DEF PowerLoss
<1>19. CASE WriteBack
  BY <1>19 DEF WriteBack, procVars
<1>20. CASE UNCHANGED vars
  BY <1>20 DEF vars
<1>. QED
  BY <1>1, <1>2, <1>3, <1>4, <1>5, <1>6, <1>7, <1>8, <1>9, <1>10, <1>11,
     <1>12, <1>13, <1>14, <1>15, <1>16, <1>17, <1>18, <1>19, <1>20
     DEF Next, Use, Save

-----------------------------------------------------------------------------
(* What each action does to the vaults in memory.                          *)

\* Load makes the vault in memory a copy of the file.
LEMMA LoadEffect ==
    ASSUME TypeOK, NEW p \in Procs, Load(p)
    PROVE  /\ file \in Revs
           /\ vault'[p].loaded
           /\ vault'[p].source = file
           /\ vault'[p].updates = blob[file].updates
           /\ \A q \in Procs \ {p} : vault'[q] = vault[q]
<1>1. file \in Revs /\ file \in 0..MaxRev /\ blob[file] \in Contents
  BY DEF Load, TypeOK, Revs, NoFile
<1>2. vault' = [vault EXCEPT ![p] = DecodedVault(file, blob[file])]
  BY DEF Load
<1>3. /\ DecodedVault(file, blob[file]).loaded
      /\ DecodedVault(file, blob[file]).source = file
      /\ DecodedVault(file, blob[file]).updates = blob[file].updates
  BY <1>1, DecodedVaultType
<1>. QED
  BY <1>1, <1>2, <1>3 DEF TypeOK

\* Create makes a vault with no update and no revision.
LEMMA CreateEffect ==
    ASSUME TypeOK, NEW p \in Procs, Create(p)
    PROVE  /\ vault'[p].loaded
           /\ vault'[p].source = NoFile
           /\ vault'[p].updates = {}
           /\ \A q \in Procs \ {p} : vault'[q] = vault[q]
  BY NoVaultType DEF Create, TypeOK

\* An edit of the settings touches neither revision nor updates.
LEMMA ChangeSettingsEffect ==
    ASSUME TypeOK, NEW p \in Procs, ChangeSettings(p)
    PROVE  \A q \in Procs : /\ vault'[q].loaded = vault[q].loaded
                            /\ vault'[q].source = vault[q].source
                            /\ vault'[q].updates = vault[q].updates
  BY WithSettingsType DEF ChangeSettings, TypeOK

\* Encode adds one update to the vault and writes the same to one revision.
LEMMA EncodeEffect ==
    ASSUME TypeOK, NEW p \in Procs, Encode(p)
    PROVE  /\ nextRev \in Revs
           /\ vault'[p].loaded
           /\ vault'[p].source = vault[p].source
           /\ vault'[p].updates = vault[p].updates \cup {nextRev}
           /\ \A q \in Procs \ {p} : vault'[q] = vault[q]
           /\ blob'[nextRev].updates = vault'[p].updates
           /\ \A r \in Revs \ {nextRev} : blob'[r] = blob[r]
<1>1. nextRev \in Revs /\ vault[p] \in Vaults /\ vault[p].loaded
  BY DEF Encode, TypeOK
<1>2. vault' = [vault EXCEPT ![p] = WithUpdate(vault[p], nextRev)]
  BY DEF Encode
<1>3. \E a : blob' = [blob EXCEPT ![nextRev] =
          [updates |-> vault[p].updates \cup {nextRev},
           settings |-> vault[p].settings, audit |-> a]]
  BY DEF Encode
<1>4. /\ vault'[p].loaded
      /\ vault'[p].source = vault[p].source
      /\ vault'[p].updates = vault[p].updates \cup {nextRev}
      /\ \A q \in Procs \ {p} : vault'[q] = vault[q]
  BY <1>1, <1>2, WithUpdateType DEF TypeOK
<1>5. /\ blob'[nextRev].updates = vault[p].updates \cup {nextRev}
      /\ \A r \in Revs \ {nextRev} : blob'[r] = blob[r]
  BY <1>1, <1>3 DEF TypeOK
<1>. QED
  BY <1>1, <1>4, <1>5

\* Rename moves the revision of one vault and keeps its updates.
LEMMA RenameEffect ==
    ASSUME TypeOK, NEW p \in Procs, Rename(p)
    PROVE  /\ target[p] \in Revs
           /\ vault'[p].loaded = vault[p].loaded
           /\ vault'[p].source = target[p]
           /\ vault'[p].updates = vault[p].updates
           /\ \A q \in Procs \ {p} : vault'[q] = vault[q]
<1>1. /\ target[p] \in Revs
      /\ target[p] \in 0..MaxRev
      /\ vault[p] \in Vaults
  BY DEF Rename, TypeOK, Revs
<1>2. blob[target[p]] \in Contents
  BY <1>1 DEF TypeOK
<1>. QED
  BY <1>1, <1>2, CommittedVaultType DEF Rename, TypeOK

\* A process that ends holds no vault.
LEMMA ExitEffect ==
    ASSUME TypeOK, NEW p \in Procs, Exit(p)
    PROVE  /\ vault'[p].loaded = FALSE
           /\ vault'[p].source = NoFile
           /\ vault'[p].updates = {}
           /\ \A q \in Procs \ {p} : vault'[q] = vault[q]
  BY NoVaultType DEF Exit, TypeOK

\* After a power loss no process holds a vault.
LEMMA PowerLossEffect ==
    ASSUME PowerLoss
    PROVE  \A q \in Procs : /\ vault'[q].loaded = FALSE
                            /\ vault'[q].source = NoFile
                            /\ vault'[q].updates = {}
  BY NoVaultType DEF PowerLoss

\* What ContentOf returns, in a state and in the next one.
LEMMA ContentOfRev ==
    /\ ContentOf(NoFile).updates = {}
    /\ ContentOf(NoFile)'.updates = {}
    /\ \A r \in Revs : ContentOf(r) = blob[r] /\ ContentOf(r)' = blob'[r]
<1>1. Blank.updates = {}
  BY DEF Blank
<1>. QED
  BY <1>1 DEF ContentOf, NoFile, Revs

-----------------------------------------------------------------------------
(* StoreInv, part by part.                                                 *)

\* No step gives the lock to two calls or leaves it to a call that ended.
LEMMA LockStep ==
    ASSUME TypeOK, LockInv, [Next]_vars
    PROVE  LockInv'
<1> USE TypeOK, LockInv DEF TypeOK, LockInv, Holding, Replacing, Committed,
    NoProc
<1>1. ASSUME NEW p \in Procs, Load(p) PROVE LockInv'
  BY <1>1 DEF Load, procVars, diskVars
<1>2. ASSUME NEW p \in Procs, Create(p) PROVE LockInv'
  BY <1>2 DEF Create, procVars, diskVars
<1>3. ASSUME NEW p \in Procs, ChangeSettings(p) PROVE LockInv'
  BY <1>3 DEF ChangeSettings, procVars, diskVars
<1>4. ASSUME NEW p \in Procs, Encode(p) PROVE LockInv'
  BY <1>4 DEF Encode, procVars, diskVars
<1>5. ASSUME NEW p \in Procs, OpenDirectory(p) PROVE LockInv'
  BY <1>5 DEF OpenDirectory, procVars, diskVars
<1>6. ASSUME NEW p \in Procs, TryLock(p) PROVE LockInv'
  BY <1>6 DEF TryLock, procVars, diskVars
<1>7. ASSUME NEW p \in Procs, CheckRevision(p) PROVE LockInv'
  BY <1>7 DEF CheckRevision, procVars, diskVars
<1>8. ASSUME NEW p \in Procs, CreateTemp(p) PROVE LockInv'
  BY <1>8 DEF CreateTemp, procVars, diskVars
<1>9. ASSUME NEW p \in Procs, WriteTemp(p) PROVE LockInv'
  BY <1>9 DEF WriteTemp, procVars, diskVars
<1>10. ASSUME NEW p \in Procs, SyncTemp(p) PROVE LockInv'
  BY <1>10 DEF SyncTemp, procVars, diskVars
<1>11. ASSUME NEW p \in Procs, Rename(p) PROVE LockInv'
  BY <1>11 DEF Rename, procVars, diskVars
<1>12. ASSUME NEW p \in Procs, SyncDirectory(p) PROVE LockInv'
  BY <1>12 DEF SyncDirectory, procVars, diskVars
<1>13. ASSUME NEW p \in Procs, FailEarly(p) PROVE LockInv'
  BY <1>13 DEF FailEarly, procVars, diskVars
<1>14. ASSUME NEW p \in Procs, FailLate(p) PROVE LockInv'
  BY <1>14 DEF FailLate, procVars, diskVars
<1>15. ASSUME NEW p \in Procs, Cleanup(p) PROVE LockInv'
  BY <1>15 DEF Cleanup, procVars, diskVars
<1>16. ASSUME NEW p \in Procs, Return(p) PROVE LockInv'
  BY <1>16 DEF Return, procVars, diskVars
<1>17. ASSUME NEW p \in Procs, Exit(p) PROVE LockInv'
  BY <1>17 DEF Exit, procVars, diskVars
<1>18. CASE PowerLoss
  BY <1>18 DEF PowerLoss, procVars
<1>19. CASE WriteBack
  BY <1>19 DEF WriteBack, procVars
<1>20. CASE UNCHANGED vars
  BY <1>20 DEF vars
<1>. QED
  BY <1>1, <1>2, <1>3, <1>4, <1>5, <1>6, <1>7, <1>8, <1>9, <1>10, <1>11,
     <1>12, <1>13, <1>14, <1>15, <1>16, <1>17, <1>18, <1>19, <1>20
     DEF Next, Use, Save

\* No step makes two calls share a revision, or lets the revision that a
\* call encrypted differ from the vault it has in memory.
LEMMA CallStep ==
    ASSUME TypeOK, CallInv, [Next]_vars
    PROVE  CallInv'
<1> USE TypeOK, CallInv DEF TypeOK, CallInv, Revs, Replacing, Uncommitted,
    Committed
<1>1. ASSUME NEW p \in Procs, Load(p) PROVE CallInv'
  BY <1>1, LoadEffect DEF Load, procVars, diskVars
<1>2. ASSUME NEW p \in Procs, Create(p) PROVE CallInv'
  BY <1>2, CreateEffect DEF Create, procVars, diskVars
<1>3. ASSUME NEW p \in Procs, ChangeSettings(p) PROVE CallInv'
  BY <1>3, ChangeSettingsEffect DEF ChangeSettings, procVars, diskVars
<1>4. ASSUME NEW p \in Procs, Encode(p) PROVE CallInv'
  <2>1. /\ pc[p] = "idle"
        /\ pc' = [pc EXCEPT ![p] = "encoded"]
        /\ target' = [target EXCEPT ![p] = nextRev]
        /\ outcome' = outcome
        /\ nextRev' = nextRev + 1
    BY <1>4 DEF Encode
  <2>2. ASSUME NEW q \in Procs, pc'[q] # "idle"
        PROVE  /\ vault'[q].loaded
               /\ target'[q] < nextRev'
               /\ blob'[target'[q]].updates = vault'[q].updates
               /\ (Uncommitted(q) \/ Committed(q))'
    <3>1. CASE q = p
      BY <1>4, <2>1, <3>1, EncodeEffect
    <3>2. CASE q # p
      <4>1. pc[q] # "idle" /\ target'[q] = target[q]
        BY <2>1, <2>2, <3>2
      <4>2. target[q] \in Revs \ {nextRev}
        BY <4>1
      <4>3. blob'[target[q]] = blob[target[q]] /\ vault'[q] = vault[q]
        BY <1>4, <3>2, <4>2, EncodeEffect
      <4>. QED
        BY <2>1, <3>2, <4>1, <4>3
    <3>. QED
      BY <3>1, <3>2
  <2>3. ASSUME NEW q \in Procs, NEW r \in Procs,
               pc'[q] # "idle", pc'[r] # "idle", target'[q] = target'[r]
        PROVE  q = r
    BY <2>1, <2>3
  <2>. QED
    BY <2>2, <2>3
<1>5. ASSUME NEW p \in Procs, OpenDirectory(p) PROVE CallInv'
  BY <1>5 DEF OpenDirectory, procVars, diskVars
<1>6. ASSUME NEW p \in Procs, TryLock(p) PROVE CallInv'
  BY <1>6 DEF TryLock, procVars, diskVars
<1>7. ASSUME NEW p \in Procs, CheckRevision(p) PROVE CallInv'
  BY <1>7 DEF CheckRevision, procVars, diskVars
<1>8. ASSUME NEW p \in Procs, CreateTemp(p) PROVE CallInv'
  BY <1>8 DEF CreateTemp, procVars, diskVars
<1>9. ASSUME NEW p \in Procs, WriteTemp(p) PROVE CallInv'
  BY <1>9 DEF WriteTemp, procVars, diskVars
<1>10. ASSUME NEW p \in Procs, SyncTemp(p) PROVE CallInv'
  BY <1>10 DEF SyncTemp, procVars, diskVars
<1>11. ASSUME NEW p \in Procs, Rename(p) PROVE CallInv'
  <2>1. /\ pc[p] = "synced"
        /\ pc' = [pc EXCEPT ![p] = "renamed"]
        /\ UNCHANGED <<target, outcome, blob, nextRev>>
    BY <1>11 DEF Rename
  <2>2. \A q \in Procs : /\ vault'[q].loaded = vault[q].loaded
                         /\ vault'[q].updates = vault[q].updates
    <3>1. /\ vault'[p].loaded = vault[p].loaded
          /\ vault'[p].updates = vault[p].updates
          /\ \A q \in Procs \ {p} : vault'[q] = vault[q]
      BY <1>11, RenameEffect
    <3>. QED
      BY <3>1
  <2>3. ASSUME NEW q \in Procs, pc'[q] # "idle"
        PROVE  /\ vault'[q].loaded
               /\ target'[q] < nextRev'
               /\ blob'[target'[q]].updates = vault'[q].updates
               /\ (Uncommitted(q) \/ Committed(q))'
    BY <2>1, <2>2, <2>3
  <2>. QED
    BY <2>1, <2>3
<1>12. ASSUME NEW p \in Procs, SyncDirectory(p) PROVE CallInv'
  BY <1>12 DEF SyncDirectory, procVars, diskVars
<1>13. ASSUME NEW p \in Procs, FailEarly(p) PROVE CallInv'
  BY <1>13 DEF FailEarly, procVars, diskVars
<1>14. ASSUME NEW p \in Procs, FailLate(p) PROVE CallInv'
  BY <1>14 DEF FailLate, procVars, diskVars
<1>15. ASSUME NEW p \in Procs, Cleanup(p) PROVE CallInv'
  BY <1>15 DEF Cleanup, procVars, diskVars
<1>16. ASSUME NEW p \in Procs, Return(p) PROVE CallInv'
  BY <1>16 DEF Return, procVars, diskVars
<1>17. ASSUME NEW p \in Procs, Exit(p) PROVE CallInv'
  BY <1>17, ExitEffect DEF Exit, procVars, diskVars
<1>18. CASE PowerLoss
  BY <1>18, PowerLossEffect DEF PowerLoss, procVars, diskVars
<1>19. CASE WriteBack
  BY <1>19 DEF WriteBack, procVars
<1>20. CASE UNCHANGED vars
  BY <1>20 DEF vars
<1>. QED
  BY <1>1, <1>2, <1>3, <1>4, <1>5, <1>6, <1>7, <1>8, <1>9, <1>10, <1>11,
     <1>12, <1>13, <1>14, <1>15, <1>16, <1>17, <1>18, <1>19, <1>20
     DEF Next, Use, Save

\* No step invalidates the revision check between it and the rename, and
\* none replaces the file under a call that committed and holds the lock.
LEMMA CommitStep ==
    ASSUME TypeOK, LockInv, CallInv, CommitInv, ContentInv, [Next]_vars
    PROVE  CommitInv'
<1> USE TypeOK, LockInv, CallInv, CommitInv, ContentInv DEF TypeOK, LockInv,
    CallInv, CommitInv, ContentInv, Revs, Holding, Replacing, Uncommitted,
    Committed, NoFile
<1>1. ASSUME NEW p \in Procs, Load(p) PROVE CommitInv'
  BY <1>1, LoadEffect DEF Load, procVars, diskVars
<1>2. ASSUME NEW p \in Procs, Create(p) PROVE CommitInv'
  BY <1>2, CreateEffect DEF Create, procVars, diskVars
<1>3. ASSUME NEW p \in Procs, ChangeSettings(p) PROVE CommitInv'
  BY <1>3, ChangeSettingsEffect DEF ChangeSettings, procVars, diskVars
<1>4. ASSUME NEW p \in Procs, Encode(p) PROVE CommitInv'
  <2>1. /\ pc[p] = "idle"
        /\ pc' = [pc EXCEPT ![p] = "encoded"]
        /\ target' = [target EXCEPT ![p] = nextRev]
        /\ UNCHANGED <<outcome, file, window>>
    BY <1>4 DEF Encode, diskVars
  <2>2. \A q \in Procs : vault'[q].source = vault[q].source
    <3>1. /\ vault'[p].source = vault[p].source
          /\ \A q \in Procs \ {p} : vault'[q] = vault[q]
      BY <1>4, EncodeEffect
    <3>. QED
      BY <3>1
  <2>3. nextRev \notin window \cup {file, vault[p].source}
    BY DEF TypeOK
  <2>4. ASSUME NEW q \in Procs
        PROVE  /\ Uncommitted(q)' => target'[q] \notin window \cup {file, vault[q].source}
               /\ Committed(q)' => file = target'[q] /\ vault[q].source = target'[q]
               /\ pc'[q] \in Replacing => vault[q].source = file
    <3>1. CASE q = p
      BY <2>1, <2>3, <3>1
    <3>2. CASE q # p
      BY <2>1, <3>2
    <3>. QED
      BY <3>1, <3>2
  <2>. QED
    BY <2>1, <2>2, <2>4
<1>5. ASSUME NEW p \in Procs, OpenDirectory(p) PROVE CommitInv'
  BY <1>5 DEF OpenDirectory, procVars, diskVars
<1>6. ASSUME NEW p \in Procs, TryLock(p) PROVE CommitInv'
  BY <1>6 DEF TryLock, procVars, diskVars
<1>7. ASSUME NEW p \in Procs, CheckRevision(p) PROVE CommitInv'
  BY <1>7 DEF CheckRevision, procVars, diskVars
<1>8. ASSUME NEW p \in Procs, CreateTemp(p) PROVE CommitInv'
  BY <1>8 DEF CreateTemp, procVars, diskVars
<1>9. ASSUME NEW p \in Procs, WriteTemp(p) PROVE CommitInv'
  BY <1>9 DEF WriteTemp, procVars, diskVars
<1>10. ASSUME NEW p \in Procs, SyncTemp(p) PROVE CommitInv'
  BY <1>10 DEF SyncTemp, procVars, diskVars
<1>11. ASSUME NEW p \in Procs, Rename(p) PROVE CommitInv'
  <2>1. /\ pc[p] = "synced"
        /\ pc' = [pc EXCEPT ![p] = "renamed"]
        /\ file' = target[p]
        /\ window' = window \cup {target[p]}
        /\ UNCHANGED <<target, outcome>>
    BY <1>11 DEF Rename
  <2>2. lock = {p}
    BY <2>1
  <2>3. ASSUME NEW q \in Procs
        PROVE  /\ Uncommitted(q)' => target'[q] \notin window' \cup {file', vault'[q].source}
               /\ Committed(q)' => file' = target'[q] /\ vault'[q].source = target'[q]
               /\ pc'[q] \in Replacing => vault'[q].source = file'
    <3>1. CASE q = p
      BY <1>11, <2>1, <3>1, RenameEffect
    <3>2. CASE q # p
      <4>1. vault'[q] = vault[q] /\ pc'[q] = pc[q]
        BY <1>11, <2>1, <3>2, RenameEffect
      <4>2. q \notin lock
        BY <2>2, <3>2
      <4>3. ~Committed(q) /\ pc[q] \notin Replacing
        BY <4>2
      <4>4. Uncommitted(q) => target[q] # target[p]
        BY <2>1, <3>2
      <4>. QED
        BY <2>1, <4>1, <4>3, <4>4
    <3>. QED
      BY <3>1, <3>2
  <2>. QED
    BY <2>3
<1>12. ASSUME NEW p \in Procs, SyncDirectory(p) PROVE CommitInv'
  BY <1>12 DEF SyncDirectory, procVars, diskVars
<1>13. ASSUME NEW p \in Procs, FailEarly(p) PROVE CommitInv'
  BY <1>13 DEF FailEarly, procVars, diskVars
<1>14. ASSUME NEW p \in Procs, FailLate(p) PROVE CommitInv'
  BY <1>14 DEF FailLate, procVars, diskVars
<1>15. ASSUME NEW p \in Procs, Cleanup(p) PROVE CommitInv'
  BY <1>15 DEF Cleanup, procVars, diskVars
<1>16. ASSUME NEW p \in Procs, Return(p) PROVE CommitInv'
  BY <1>16 DEF Return, procVars, diskVars
<1>17. ASSUME NEW p \in Procs, Exit(p) PROVE CommitInv'
  BY <1>17, ExitEffect DEF Exit, procVars, diskVars
<1>18. CASE PowerLoss
  BY <1>18, PowerLossEffect DEF PowerLoss, procVars, diskVars
<1>19. CASE WriteBack
  BY <1>19 DEF WriteBack, procVars
<1>20. CASE UNCHANGED vars
  BY <1>20 DEF vars
<1>. QED
  BY <1>1, <1>2, <1>3, <1>4, <1>5, <1>6, <1>7, <1>8, <1>9, <1>10, <1>11,
     <1>12, <1>13, <1>14, <1>15, <1>16, <1>17, <1>18, <1>19, <1>20
     DEF Next, Use, Save

\* No step makes a vault lose an update of the revision it came from, or
\* puts a revision in use that nobody encrypted.
LEMMA ContentStep ==
    ASSUME TypeOK, CallInv, CommitInv, ContentInv, [Next]_vars
    PROVE  ContentInv'
<1> USE TypeOK, CallInv, CommitInv, ContentInv DEF TypeOK, CallInv, CommitInv,
    ContentInv, Revs, NoFile
<1>1. ASSUME NEW p \in Procs, Load(p) PROVE ContentInv'
  <2>1. UNCHANGED <<blob, temps, file, window, nextRev>>
    BY <1>1 DEF Load, diskVars
  <2>2. ASSUME NEW q \in Procs
        PROVE  (/\ vault[q].source < nextRev
                /\ ContentOf(vault[q].source).updates \subseteq vault[q].updates)'
    <3>1. CASE q = p
      BY <1>1, <2>1, <3>1, LoadEffect, ContentOfRev
    <3>2. CASE q # p
      BY <1>1, <2>1, <3>2, LoadEffect DEF ContentOf
    <3>. QED
      BY <3>1, <3>2
  <2>. QED
    BY <2>1, <2>2
<1>2. ASSUME NEW p \in Procs, Create(p) PROVE ContentInv'
  <2>1. UNCHANGED <<blob, temps, file, window, nextRev>>
    BY <1>2 DEF Create, diskVars
  <2>2. ASSUME NEW q \in Procs
        PROVE  (/\ vault[q].source < nextRev
                /\ ContentOf(vault[q].source).updates \subseteq vault[q].updates)'
    <3>1. CASE q = p
      BY <1>2, <2>1, <3>1, CreateEffect, ContentOfRev
    <3>2. CASE q # p
      BY <1>2, <2>1, <3>2, CreateEffect DEF ContentOf
    <3>. QED
      BY <3>1, <3>2
  <2>. QED
    BY <2>1, <2>2
<1>3. ASSUME NEW p \in Procs, ChangeSettings(p) PROVE ContentInv'
  BY <1>3, ChangeSettingsEffect DEF ChangeSettings, ContentOf, procVars, diskVars
<1>4. ASSUME NEW p \in Procs, Encode(p) PROVE ContentInv'
  <2>1. nextRev' = nextRev + 1 /\ UNCHANGED <<temps, file, window>>
    BY <1>4 DEF Encode, diskVars
  <2>2. \A r \in window \cup temps : r < nextRev'
    BY <2>1
  <2>3. ASSUME NEW r \in Revs, r < nextRev'
        PROVE  r \in blob'[r].updates
    <3>1. nextRev \in blob'[nextRev].updates
      <4>1. nextRev \in vault'[p].updates
        BY <1>4, EncodeEffect
      <4>. QED
        BY <1>4, <4>1, EncodeEffect
    <3>2. CASE r # nextRev
      BY <1>4, <2>1, <2>3, <3>2, EncodeEffect
    <3>. QED
      BY <3>1, <3>2
  <2>4. ASSUME NEW q \in Procs
        PROVE  (/\ vault[q].source < nextRev
                /\ ContentOf(vault[q].source).updates \subseteq vault[q].updates)'
    <3>1. vault[q].source \in 0..MaxRev /\ vault[q].source # nextRev
      BY DEF Vaults
    <3>2. vault'[q].source = vault[q].source
      BY <1>4, EncodeEffect
    <3>3. vault[q].updates \subseteq vault'[q].updates
      <4>1. CASE q = p
        BY <1>4, <4>1, EncodeEffect
      <4>2. CASE q # p
        BY <1>4, <4>2, EncodeEffect
      <4>. QED
        BY <4>1, <4>2
    <3>4. ContentOf(vault[q].source)'.updates = ContentOf(vault[q].source).updates
      <4>1. CASE vault[q].source = NoFile
        BY <3>2, <4>1, ContentOfRev
      <4>2. CASE vault[q].source # NoFile
        <5>1. vault[q].source \in Revs \ {nextRev}
          BY <3>1, <4>2
        <5>2. blob'[vault[q].source] = blob[vault[q].source]
          BY <1>4, <5>1, EncodeEffect
        <5>. HIDE DEF ContentInv, TypeOK, CallInv, CommitInv
        <5>. QED
          BY <3>2, <5>1, <5>2, ContentOfRev
      <4>. QED
        BY <4>1, <4>2
    <3>5. vault[q].source < nextRev /\ nextRev' = nextRev + 1 /\ nextRev \in Nat
      BY <2>1
    <3>6. ContentOf(vault[q].source).updates \subseteq vault[q].updates
      OBVIOUS
    <3>. HIDE DEF ContentInv, TypeOK, CallInv, CommitInv
    <3>7. vault'[q].source < nextRev'
      BY <3>1, <3>2, <3>5
    <3>8. (ContentOf(vault[q].source).updates)' = ContentOf(vault[q].source)'.updates
      OBVIOUS
    <3>9. (ContentOf(vault[q].source).updates)' \subseteq vault'[q].updates
      BY <3>3, <3>4, <3>6, <3>8
    <3>. QED
      BY <3>7, <3>9
  <2>. QED
    BY <2>1, <2>2, <2>3, <2>4
<1>5. ASSUME NEW p \in Procs, OpenDirectory(p) PROVE ContentInv'
  BY <1>5 DEF OpenDirectory, ContentOf, procVars, diskVars
<1>6. ASSUME NEW p \in Procs, TryLock(p) PROVE ContentInv'
  BY <1>6 DEF TryLock, ContentOf, procVars, diskVars
<1>7. ASSUME NEW p \in Procs, CheckRevision(p) PROVE ContentInv'
  BY <1>7 DEF CheckRevision, ContentOf, procVars, diskVars
<1>8. ASSUME NEW p \in Procs, CreateTemp(p) PROVE ContentInv'
  BY <1>8 DEF CreateTemp, ContentOf, procVars, diskVars
<1>9. ASSUME NEW p \in Procs, WriteTemp(p) PROVE ContentInv'
  BY <1>9 DEF WriteTemp, ContentOf, procVars, diskVars
<1>10. ASSUME NEW p \in Procs, SyncTemp(p) PROVE ContentInv'
  BY <1>10 DEF SyncTemp, ContentOf, procVars, diskVars
<1>11. ASSUME NEW p \in Procs, Rename(p) PROVE ContentInv'
  <2>1. /\ pc[p] = "synced"
        /\ file' = target[p]
        /\ window' = window \cup {target[p]}
        /\ temps' = temps \ {target[p]}
        /\ UNCHANGED <<blob, nextRev>>
    BY <1>11 DEF Rename
  <2>2. target[p] \in Revs /\ target[p] < nextRev
    BY <2>1
  <2>3. ASSUME NEW q \in Procs
        PROVE  (/\ vault[q].source < nextRev
                /\ ContentOf(vault[q].source).updates \subseteq vault[q].updates)'
    <3>1. CASE q = p
      BY <1>11, <2>1, <2>2, <3>1, RenameEffect, ContentOfRev
    <3>2. CASE q # p
      BY <1>11, <2>1, <3>2, RenameEffect DEF ContentOf
    <3>. QED
      BY <3>1, <3>2
  <2>. QED
    BY <2>1, <2>2, <2>3
<1>12. ASSUME NEW p \in Procs, SyncDirectory(p) PROVE ContentInv'
  BY <1>12 DEF SyncDirectory, ContentOf, procVars, diskVars
<1>13. ASSUME NEW p \in Procs, FailEarly(p) PROVE ContentInv'
  BY <1>13 DEF FailEarly, ContentOf, procVars, diskVars
<1>14. ASSUME NEW p \in Procs, FailLate(p) PROVE ContentInv'
  BY <1>14 DEF FailLate, ContentOf, procVars, diskVars
<1>15. ASSUME NEW p \in Procs, Cleanup(p) PROVE ContentInv'
  BY <1>15 DEF Cleanup, ContentOf, procVars, diskVars
<1>16. ASSUME NEW p \in Procs, Return(p) PROVE ContentInv'
  BY <1>16 DEF Return, ContentOf, procVars, diskVars
<1>17. ASSUME NEW p \in Procs, Exit(p) PROVE ContentInv'
  <2>1. UNCHANGED <<blob, temps, file, window, nextRev>>
    BY <1>17 DEF Exit, diskVars
  <2>2. ASSUME NEW q \in Procs
        PROVE  (/\ vault[q].source < nextRev
                /\ ContentOf(vault[q].source).updates \subseteq vault[q].updates)'
    <3>1. CASE q = p
      <4>1. vault'[q].source = NoFile /\ vault'[q].updates = {}
        BY <1>17, <3>1, ExitEffect
      <4>. QED
        BY <2>1, <4>1 DEF ContentOf, Blank
    <3>2. CASE q # p
      <4>1. vault'[q] = vault[q]
        BY <1>17, <3>2 DEF Exit
      <4>. QED
        BY <2>1, <4>1 DEF ContentOf
    <3>. QED
      BY <3>1, <3>2
  <2>. QED
    BY <2>1, <2>2
<1>18. CASE PowerLoss
  <2>1. /\ window' = {file'}
        /\ temps' = {}
        /\ UNCHANGED <<blob, nextRev>>
    BY <1>18 DEF PowerLoss
  <2>2. file' < nextRev'
    <3>1. file' \in window \/ file' = NoFile
      BY <1>18 DEF PowerLoss
    <3>2. NoFile < nextRev
      OBVIOUS
    <3>. QED
      BY <2>1, <3>1, <3>2
  <2>3. ASSUME NEW q \in Procs
        PROVE  (/\ vault[q].source < nextRev
                /\ ContentOf(vault[q].source).updates \subseteq vault[q].updates)'
    <3>1. vault'[q].source = NoFile /\ vault'[q].updates = {}
      BY <1>18, PowerLossEffect
    <3>. QED
      BY <2>1, <3>1 DEF ContentOf, Blank
  <2>. QED
    BY <2>1, <2>2, <2>3
<1>19. CASE WriteBack
  BY <1>19 DEF WriteBack, ContentOf, procVars
<1>20. CASE UNCHANGED vars
  BY <1>20 DEF vars, ContentOf
<1>. QED
  BY <1>1, <1>2, <1>3, <1>4, <1>5, <1>6, <1>7, <1>8, <1>9, <1>10, <1>11,
     <1>12, <1>13, <1>14, <1>15, <1>16, <1>17, <1>18, <1>19, <1>20
     DEF Next, Use, Save

\* No step leaves a temporary name behind a finished call, or puts a file
\* in an absent directory.
LEMMA DiskStep ==
    ASSUME TypeOK, LockInv, CallInv, CommitInv, ContentInv, DiskInv, [Next]_vars
    PROVE  DiskInv'
<1> USE TypeOK, LockInv, CallInv, CommitInv, ContentInv, DiskInv DEF TypeOK,
    LockInv, CallInv, CommitInv, ContentInv, DiskInv, Revs, Holding, Replacing,
    Uncommitted, Committed, NoFile
<1>1. ASSUME NEW p \in Procs, Load(p) PROVE DiskInv'
  BY <1>1 DEF Load, procVars, diskVars
<1>2. ASSUME NEW p \in Procs, Create(p) PROVE DiskInv'
  BY <1>2 DEF Create, procVars, diskVars
<1>3. ASSUME NEW p \in Procs, ChangeSettings(p) PROVE DiskInv'
  BY <1>3 DEF ChangeSettings, procVars, diskVars
<1>4. ASSUME NEW p \in Procs, Encode(p) PROVE DiskInv'
  BY <1>4 DEF Encode, procVars, diskVars
<1>5. ASSUME NEW p \in Procs, OpenDirectory(p) PROVE DiskInv'
  BY <1>5 DEF OpenDirectory, procVars, diskVars
<1>6. ASSUME NEW p \in Procs, TryLock(p) PROVE DiskInv'
  BY <1>6 DEF TryLock, procVars, diskVars
<1>7. ASSUME NEW p \in Procs, CheckRevision(p) PROVE DiskInv'
  <2>1. pc[p] = "locked" /\ UNCHANGED <<target, data, temps, window, dir>>
    BY <1>7 DEF CheckRevision, diskVars
  <2>2. CASE pc' = [pc EXCEPT ![p] = "checked"] /\ UNCHANGED outcome
    BY <2>1, <2>2
  <2>3. CASE /\ pc' = [pc EXCEPT ![p] = "done"]
             /\ outcome' = [outcome EXCEPT ![p] = "stale"]
    BY <2>1, <2>3
  <2>. QED
    BY <1>7, <2>2, <2>3 DEF CheckRevision
<1>8. ASSUME NEW p \in Procs, CreateTemp(p) PROVE DiskInv'
  BY <1>8 DEF CreateTemp, procVars, diskVars
<1>9. ASSUME NEW p \in Procs, WriteTemp(p) PROVE DiskInv'
  BY <1>9 DEF WriteTemp, procVars, diskVars
<1>10. ASSUME NEW p \in Procs, SyncTemp(p) PROVE DiskInv'
  BY <1>10 DEF SyncTemp, procVars, diskVars
<1>11. ASSUME NEW p \in Procs, Rename(p) PROVE DiskInv'
  <2>1. /\ pc[p] = "synced"
        /\ pc' = [pc EXCEPT ![p] = "renamed"]
        /\ temps' = temps \ {target[p]}
        /\ window' = window \cup {target[p]}
        /\ UNCHANGED <<target, outcome, data, dir>>
    BY <1>11 DEF Rename
  <2>2. dir # "absent"
    BY <2>1
  <2>. QED
    BY <2>1, <2>2
<1>12. ASSUME NEW p \in Procs, SyncDirectory(p) PROVE DiskInv'
  BY <1>12 DEF SyncDirectory, procVars, diskVars
<1>13. ASSUME NEW p \in Procs, FailEarly(p) PROVE DiskInv'
  BY <1>13 DEF FailEarly, procVars, diskVars
<1>14. ASSUME NEW p \in Procs, FailLate(p) PROVE DiskInv'
  BY <1>14 DEF FailLate, procVars, diskVars
<1>15. ASSUME NEW p \in Procs, Cleanup(p) PROVE DiskInv'
  BY <1>15 DEF Cleanup, procVars, diskVars
<1>16. ASSUME NEW p \in Procs, Return(p) PROVE DiskInv'
  BY <1>16 DEF Return, procVars, diskVars
<1>17. ASSUME NEW p \in Procs, Exit(p) PROVE DiskInv'
  BY <1>17 DEF Exit, procVars, diskVars
<1>18. CASE PowerLoss
  BY <1>18 DEF PowerLoss, procVars
<1>19. CASE WriteBack
  BY <1>19 DEF WriteBack, procVars
<1>20. CASE UNCHANGED vars
  BY <1>20 DEF vars
<1>. QED
  BY <1>1, <1>2, <1>3, <1>4, <1>5, <1>6, <1>7, <1>8, <1>9, <1>10, <1>11,
     <1>12, <1>13, <1>14, <1>15, <1>16, <1>17, <1>18, <1>19, <1>20
     DEF Next, Use, Save

\* No step puts a file that is not synced under the vault's name, now or
\* after a power loss.
LEMMA CompleteStep ==
ASSUME TypeOK, CallInv, CommitInv, ContentInv, DiskInv, FileComplete,
        [Next]_vars
    PROVE  FileComplete'
<1> USE TypeOK, CallInv, CommitInv, DiskInv, FileComplete DEF TypeOK, CallInv,
    CommitInv, ContentInv, DiskInv, FileComplete, Survivors, Revs, Replacing,
    Uncommitted, NoFile
<1>1. ASSUME NEW p \in Procs, Load(p) PROVE FileComplete'
  BY <1>1 DEF Load, procVars, diskVars
<1>2. ASSUME NEW p \in Procs, Create(p) PROVE FileComplete'
  BY <1>2 DEF Create, procVars, diskVars
<1>3. ASSUME NEW p \in Procs, ChangeSettings(p) PROVE FileComplete'
  BY <1>3 DEF ChangeSettings, procVars, diskVars
<1>4. ASSUME NEW p \in Procs, Encode(p) PROVE FileComplete'
  BY <1>4 DEF Encode, procVars, diskVars
<1>5. ASSUME NEW p \in Procs, OpenDirectory(p) PROVE FileComplete'
  BY <1>5 DEF OpenDirectory, procVars, diskVars
<1>6. ASSUME NEW p \in Procs, TryLock(p) PROVE FileComplete'
  BY <1>6 DEF TryLock, procVars, diskVars
<1>7. ASSUME NEW p \in Procs, CheckRevision(p) PROVE FileComplete'
  BY <1>7 DEF CheckRevision, procVars, diskVars
<1>8. ASSUME NEW p \in Procs, CreateTemp(p) PROVE FileComplete'
  BY <1>8 DEF CreateTemp, procVars, diskVars
<1>9. ASSUME NEW p \in Procs, WriteTemp(p) PROVE FileComplete'
  BY <1>9 DEF WriteTemp, procVars, diskVars
<1>10. ASSUME NEW p \in Procs, SyncTemp(p) PROVE FileComplete'
  BY <1>10 DEF SyncTemp, procVars, diskVars
<1>11. ASSUME NEW p \in Procs, Rename(p) PROVE FileComplete'
  BY <1>11 DEF Rename, procVars, diskVars
<1>12. ASSUME NEW p \in Procs, SyncDirectory(p) PROVE FileComplete'
  BY <1>12 DEF SyncDirectory, procVars, diskVars
<1>13. ASSUME NEW p \in Procs, FailEarly(p) PROVE FileComplete'
  BY <1>13 DEF FailEarly, procVars, diskVars
<1>14. ASSUME NEW p \in Procs, FailLate(p) PROVE FileComplete'
  BY <1>14 DEF FailLate, procVars, diskVars
<1>15. ASSUME NEW p \in Procs, Cleanup(p) PROVE FileComplete'
  BY <1>15 DEF Cleanup, procVars, diskVars
<1>16. ASSUME NEW p \in Procs, Return(p) PROVE FileComplete'
  BY <1>16 DEF Return, procVars, diskVars
<1>17. ASSUME NEW p \in Procs, Exit(p) PROVE FileComplete'
  BY <1>17 DEF Exit, procVars, diskVars
<1>18. CASE PowerLoss
  <2>1. window' = {file'} /\ data' = data
    BY <1>18 DEF PowerLoss
  <2>2. file' # NoFile => file' \in window
    BY <1>18 DEF PowerLoss
  <2>3. file' # NoFile => data[file'] = "synced"
    BY <2>2
  <2>4. \A r \in (Survivors \cup {file})' : r = file' \/ r = NoFile
    BY <2>1
  <2>. QED
    BY <2>1, <2>3, <2>4
<1>19. CASE WriteBack
  BY <1>19 DEF WriteBack, procVars
<1>20. CASE UNCHANGED vars
  BY <1>20 DEF vars
<1>. QED
  BY <1>1, <1>2, <1>3, <1>4, <1>5, <1>6, <1>7, <1>8, <1>9, <1>10, <1>11,
     <1>12, <1>13, <1>14, <1>15, <1>16, <1>17, <1>18, <1>19, <1>20
     DEF Next, Use, Save

-----------------------------------------------------------------------------
(* The theorems.                                                           *)

\* The initial states satisfy every part of the invariant.
LEMMA StoreInit == Init => StoreInv
<1> SUFFICES ASSUME Init PROVE StoreInv
  OBVIOUS
<1>1. NoVault \in Vaults /\ Blank \in Contents
  <2>1. NoAudit \in Audit
    BY DEF NoAudit, Audit
  <2>. QED
    BY <2>1, NoVaultType DEF Blank, Contents
<1>2. TypeOK
  BY <1>1 DEF Init, TypeOK, Revs, Steps, Outcomes, NoProc, NoFile
<1>3. LockInv
  BY DEF Init, LockInv, Holding, Committed, NoProc
<1>4. CallInv
  BY DEF Init, CallInv
<1>5. CommitInv
  BY DEF Init, CommitInv, Uncommitted, Committed, Replacing
<1>6. ContentInv
  BY NoVaultType DEF Init, ContentInv, ContentOf, Blank, Revs, NoFile
<1>7. DiskInv
  BY DEF Init, DiskInv, NoFile
<1>8. FileComplete
  BY DEF Init, FileComplete, Survivors, NoFile
<1>. QED
  BY <1>2, <1>3, <1>4, <1>5, <1>6, <1>7, <1>8 DEF StoreInv

\* Every step of the protocol preserves the whole invariant.
LEMMA StoreStep == StoreInv /\ [Next]_vars => StoreInv'
<1> SUFFICES ASSUME StoreInv, [Next]_vars PROVE StoreInv'
  OBVIOUS
<1>. USE DEF StoreInv
<1>1. TypeOK'
  BY TypeStep
<1>2. LockInv'
  BY LockStep
<1>3. CallInv'
  BY CallStep
<1>4. CommitInv'
  BY CommitStep
<1>5. ContentInv'
  BY ContentStep
<1>6. DiskInv'
  BY DiskStep
<1>7. FileComplete'
  BY CompleteStep
<1>. QED
  BY <1>1, <1>2, <1>3, <1>4, <1>5, <1>6, <1>7

\* StoreInv holds in every reachable state: the inductive invariant from
\* which the other safety theorems follow.
THEOREM StoreInvariant == Spec => []StoreInv
<1>. QED
  BY StoreInit, StoreStep, PTL DEF Spec

\* Every variable stays in its type: in particular no settings audit counts
\* more edits than its counter holds.
THEOREM TypeCorrect == Spec => []TypeOK
<1>1. StoreInv => TypeOK
  BY DEF StoreInv
<1>. QED
  BY <1>1, StoreInvariant, PTL

\* No torn file: whatever stands under the vault's name, or may after a
\* power loss, was written in full and synced before it got there.
THEOREM FileAlwaysComplete == Spec => []FileComplete
<1>1. StoreInv => FileComplete
  BY DEF StoreInv
<1>. QED
  BY <1>1, StoreInvariant, PTL

\* When save ends, its result, the revision in memory and the file agree on
\* whether the commit happened, and no temporary name is left.
THEOREM OutcomeAlwaysMatches == Spec => []OutcomeMatchesDisk
<1>1. StoreInv => OutcomeMatchesDisk
  <2> SUFFICES ASSUME StoreInv, NEW p \in Procs, pc[p] = "done"
               PROVE  LET committed == outcome[p] \in {"ok", "uncertain"} IN
                      /\ (file = target[p]) = committed
                      /\ (vault[p].source = target[p]) = committed
                      /\ outcome[p] # "failed" => target[p] \notin temps
    BY DEF OutcomeMatchesDisk
  <2>. USE DEF StoreInv
  <2>1. outcome[p] # "failed" => target[p] \notin temps
    BY DEF DiskInv
  <2>2. Uncommitted(p) \/ Committed(p)
    BY DEF CallInv
  <2>3. CASE Uncommitted(p)
    BY <2>1, <2>3 DEF CommitInv, Uncommitted, Replacing
  <2>4. CASE Committed(p)
    BY <2>1, <2>4 DEF CommitInv, Committed
  <2>. QED
    BY <2>2, <2>3, <2>4
<1>. QED
  BY <1>1, StoreInvariant, PTL

-----------------------------------------------------------------------------
(* The settings audit, on top of StoreInv.                                 *)

\* What the two parts of the invariant say of one process.
Based(p) == vault[p].loaded =>
    /\ vault[p].audit = ContentOf(vault[p].source).audit
    /\ vault[p].saved = IF vault[p].source = NoFile THEN NoSettings
                        ELSE ContentOf(vault[p].source).settings
Counted(p) == Uncommitted(p) =>
    /\ blob[target[p]].settings = vault[p].settings
    /\ blob[target[p]].audit.edits =
          vault[p].audit.edits + (IF SettingsEdited(p) THEN 1 ELSE 0)
    /\ blob[target[p]].audit.last >= vault[p].audit.last
AuditInv == \A p \in Procs : Based(p) /\ Counted(p)

\* AuditInv is the two of them.
LEMMA AuditParts == AuditInv <=> BaselineInv /\ CountedInv
  BY DEF AuditInv, Based, Counted, BaselineInv, CountedInv

\* A step that changes nothing of a vault keeps both parts true of it.
LEMMA AuditKept ==
    ASSUME NEW q \in Procs, Based(q), Counted(q), blob' = blob,
           vault'[q] = vault[q], target'[q] = target[q],
           Uncommitted(q)' => Uncommitted(q)
    PROVE  Based(q)' /\ Counted(q)'
  BY DEF Based, Counted, ContentOf, SettingsEdited

\* A process without a vault has nothing to compare with or to count.
LEMMA AuditNone ==
    ASSUME NEW q \in Procs, ~vault'[q].loaded, pc'[q] = "idle"
    PROVE  Based(q)' /\ Counted(q)'
  BY DEF Based, Counted, Uncommitted, Replacing

\* Load takes both parts over from the file, Create starts without a baseline.
LEMMA FreshVaultAudit ==
    ASSUME StoreInv, NEW p \in Procs, Load(p) \/ Create(p)
    PROVE  Based(p)' /\ Counted(p)'
<1>1. ~Uncommitted(p)' /\ blob' = blob
  BY DEF Load, Create, Uncommitted, Replacing
<1>2. CASE Load(p)
  <2>1. /\ file # NoFile
        /\ vault'[p] = DecodedVault(file, blob[file])
    BY <1>2 DEF Load, StoreInv, TypeOK
  <2>2. /\ vault'[p].source = file
        /\ vault'[p].saved = blob[file].settings
        /\ vault'[p].audit = blob[file].audit
    BY <2>1 DEF DecodedVault
  <2>. QED
    BY <1>1, <2>1, <2>2 DEF Based, Counted, ContentOf
<1>3. CASE Create(p)
  <2>1. vault'[p] = NewVault
    BY <1>3 DEF Create, StoreInv, TypeOK
  <2>2. /\ NewVault.source = NoFile /\ NewVault.saved = NoSettings
        /\ NewVault.audit = NoAudit
    BY DEF NewVault, NoVault
  <2>. QED
    BY <1>1, <2>1, <2>2 DEF Based, Counted, ContentOf, Blank
<1>. QED
  BY <1>2, <1>3

\* The settings in memory move; what they are compared with does not.
LEMMA EditedAudit ==
    ASSUME StoreInv, NEW p \in Procs, ChangeSettings(p), Based(p)
    PROVE  Based(p)' /\ Counted(p)'
<1>1. ~Uncommitted(p)' /\ blob' = blob
  BY DEF ChangeSettings, Uncommitted, Replacing
<1>2. vault[p] \in Vaults /\ vault[p].loaded
  BY DEF ChangeSettings, StoreInv, TypeOK
<1>3. PICK s \in Settings : vault'[p] = WithSettings(vault[p], s)
  BY DEF ChangeSettings, StoreInv, TypeOK
<1>4. /\ vault'[p].source = vault[p].source
      /\ vault'[p].saved = vault[p].saved
      /\ vault'[p].audit = vault[p].audit
  BY <1>2, <1>3 DEF WithSettings, Vaults
<1>. QED
  BY <1>1, <1>2, <1>4 DEF Based, Counted, ContentOf

\* save encrypts the settings in memory, with the edit counted or not.
LEMMA EncodedAudit ==
    ASSUME StoreInv, NEW p \in Procs, Encode(p), Based(p)
    PROVE  Based(p)' /\ Counted(p)'
<1>1. /\ nextRev \in Revs /\ vault[p] \in Vaults /\ vault[p].loaded
      /\ vault[p].audit \in Audit
  BY DEF Encode, StoreInv, TypeOK, Vaults
<1>2. target'[p] = nextRev /\ vault'[p] = WithUpdate(vault[p], nextRev)
  BY DEF Encode, StoreInv, TypeOK
<1>3. /\ vault'[p].source = vault[p].source
      /\ vault'[p].settings = vault[p].settings
      /\ vault'[p].saved = vault[p].saved
      /\ vault'[p].audit = vault[p].audit
  BY <1>1, <1>2 DEF WithUpdate, Vaults
<1>4. SettingsEdited(p)' <=> SettingsEdited(p)
  BY <1>3 DEF SettingsEdited
<1>5. Based(p)'
  <2>1. vault[p].source \in 0..MaxRev /\ vault[p].source < nextRev
    BY <1>1 DEF StoreInv, ContentInv, Vaults
  <2>2. vault[p].source = NoFile \/ vault[p].source \in Revs \ {nextRev}
    BY <1>1, <2>1 DEF Revs, NoFile
  <2>3. \A r \in Revs \ {nextRev} : blob'[r] = blob[r]
    BY EncodeEffect DEF StoreInv
  <2>. QED
    BY <1>1, <1>3, <2>2, <2>3 DEF Based, ContentOf
<1>6. PICK now \in 0..(MaxTime + 1) :
        /\ AuditAccepted(p, now)
        /\ blob'[nextRev] =
             [updates |-> vault[p].updates \cup {nextRev},
              settings |-> vault[p].settings,
              audit |-> NewAudit(p, now)]
  BY <1>1 DEF Encode, StoreInv, TypeOK
<1>7. vault[p].audit.edits \in Nat /\ vault[p].audit.last \in Nat
  BY <1>1 DEF Audit
<1>8. /\ blob'[nextRev].settings = vault[p].settings
      /\ blob'[nextRev].audit.edits =
            vault[p].audit.edits + (IF SettingsEdited(p) THEN 1 ELSE 0)
      /\ blob'[nextRev].audit.last >= vault[p].audit.last
  <2>1. CASE SettingsEdited(p)
    <3>1. blob'[nextRev].audit = [edits |-> vault[p].audit.edits + 1,
                                  last |-> now]
      BY <1>6, <2>1 DEF NewAudit, RecordEdit
    <3>2. now >= vault[p].audit.last
      BY <1>6, <2>1 DEF AuditAccepted, EditAccepted
    <3>. QED
      BY <1>6, <2>1, <3>1, <3>2
  <2>2. CASE ~SettingsEdited(p)
    <3>1. blob'[nextRev].audit = vault[p].audit
      BY <1>6, <2>2 DEF NewAudit
    <3>. QED
      BY <1>6, <1>7, <2>2, <3>1
  <2>. QED
    BY <2>1, <2>2
<1>9. Counted(p)'
  BY <1>2, <1>3, <1>4, <1>8 DEF Counted
<1>. QED
  BY <1>5, <1>9

\* The rename moves revision, baseline and audit together.
LEMMA RenamedAudit ==
    ASSUME StoreInv, NEW p \in Procs, Rename(p)
    PROVE  Based(p)' /\ Counted(p)'
<1>1. ~Uncommitted(p)' /\ blob' = blob
  BY DEF Rename, Uncommitted, Replacing, StoreInv, TypeOK
<1>2. target[p] \in Revs /\ target[p] # NoFile /\ vault[p] \in Vaults
  BY DEF Rename, StoreInv, TypeOK, Revs, NoFile
<1>3. vault'[p] = CommittedVault(vault[p], target[p], blob[target[p]])
  BY DEF Rename, StoreInv, TypeOK
<1>4. /\ vault'[p].source = target[p]
      /\ vault'[p].saved = blob[target[p]].settings
      /\ vault'[p].audit = blob[target[p]].audit
  BY <1>2, <1>3 DEF CommittedVault, Vaults
<1>. QED
  BY <1>1, <1>2, <1>4 DEF Based, Counted, ContentOf

\* The other steps of save leave the vaults and what they are compared with
\* alone, and no call that has replaced the file becomes one that has not.
LEMMA SaveKeepsAudit ==
    ASSUME StoreInv, NEW p \in Procs, Save(p), ~Rename(p), NEW q \in Procs,
           Based(q), Counted(q)
    PROVE  Based(q)' /\ Counted(q)'
<1>. USE DEF StoreInv, TypeOK, Uncommitted, Replacing, Steps
<1>1. CASE Return(p) /\ q = p
  <2>1. /\ blob' = blob /\ vault' = vault
        /\ pc'[q] = "idle"
    BY <1>1 DEF Return
  <2>2. ~Uncommitted(q)'
    BY <2>1
  <2>. QED
    BY <2>1, <2>2 DEF Based, Counted, ContentOf
<1>2. CASE OpenDirectory(p)
  <2>1. /\ blob' = blob /\ vault'[q] = vault[q] /\ target'[q] = target[q]
        /\ Uncommitted(q)' => Uncommitted(q)
    BY <1>2 DEF OpenDirectory
  <2>. QED
    BY <2>1, AuditKept
<1>3. CASE TryLock(p)
  <2>1. /\ blob' = blob /\ vault'[q] = vault[q] /\ target'[q] = target[q]
        /\ Uncommitted(q)' => Uncommitted(q)
    BY <1>3 DEF TryLock
  <2>. QED
    BY <2>1, AuditKept
<1>4. CASE CheckRevision(p)
  <2>1. /\ blob' = blob /\ vault'[q] = vault[q] /\ target'[q] = target[q]
        /\ Uncommitted(q)' => Uncommitted(q)
    BY <1>4 DEF CheckRevision
  <2>. QED
    BY <2>1, AuditKept
<1>5. CASE CreateTemp(p)
  <2>1. /\ blob' = blob /\ vault'[q] = vault[q] /\ target'[q] = target[q]
        /\ Uncommitted(q)' => Uncommitted(q)
    BY <1>5 DEF CreateTemp
  <2>. QED
    BY <2>1, AuditKept
<1>6. CASE WriteTemp(p)
  <2>1. /\ blob' = blob /\ vault'[q] = vault[q] /\ target'[q] = target[q]
        /\ Uncommitted(q)' => Uncommitted(q)
    BY <1>6 DEF WriteTemp
  <2>. QED
    BY <2>1, AuditKept
<1>7. CASE SyncTemp(p)
  <2>1. /\ blob' = blob /\ vault'[q] = vault[q] /\ target'[q] = target[q]
        /\ Uncommitted(q)' => Uncommitted(q)
    BY <1>7 DEF SyncTemp
  <2>. QED
    BY <2>1, AuditKept
<1>8. CASE SyncDirectory(p)
  <2>1. /\ blob' = blob /\ vault'[q] = vault[q] /\ target'[q] = target[q]
        /\ Uncommitted(q)' => Uncommitted(q)
    BY <1>8 DEF SyncDirectory
  <2>. QED
    BY <2>1, AuditKept
<1>9. CASE FailEarly(p)
  <2>1. /\ blob' = blob /\ vault'[q] = vault[q] /\ target'[q] = target[q]
        /\ Uncommitted(q)' => Uncommitted(q)
    BY <1>9 DEF FailEarly
  <2>. QED
    BY <2>1, AuditKept
<1>10. CASE FailLate(p)
  <2>1. /\ blob' = blob /\ vault'[q] = vault[q] /\ target'[q] = target[q]
        /\ Uncommitted(q)' => Uncommitted(q)
    BY <1>10 DEF FailLate
  <2>. QED
    BY <2>1, AuditKept
<1>11. CASE Cleanup(p)
  <2>1. /\ blob' = blob /\ vault'[q] = vault[q] /\ target'[q] = target[q]
        /\ Uncommitted(q)' => Uncommitted(q)
    BY <1>11 DEF Cleanup, CallInv, Committed
  <2>. QED
    BY <2>1, AuditKept
<1>12. CASE Return(p) /\ q # p
  <2>1. /\ blob' = blob /\ vault'[q] = vault[q] /\ target'[q] = target[q]
        /\ Uncommitted(q)' => Uncommitted(q)
    BY <1>12 DEF Return
  <2>. QED
    BY <2>1, AuditKept
<1>. QED
  BY <1>1, <1>2, <1>3, <1>4, <1>5, <1>6, <1>7, <1>8, <1>9, <1>10, <1>11, <1>12 DEF Save

\* Load, Create, ChangeSettings, Encode, Rename and Exit touch one vault only,
\* and Encode no revision in use.
LEMMA OthersAudit ==
    ASSUME StoreInv, NEW p \in Procs,
           Use(p) \/ Rename(p) \/ Exit(p),
           NEW q \in Procs, q # p, Based(q), Counted(q)
    PROVE  Based(q)' /\ Counted(q)'
<1>1. /\ vault'[q] = vault[q] /\ target'[q] = target[q] /\ pc'[q] = pc[q]
      /\ outcome'[q] = outcome[q]
  BY DEF Use, Load, Create, ChangeSettings, Encode, Rename, Exit, StoreInv,
         TypeOK
<1>2. Uncommitted(q)' <=> Uncommitted(q)
  BY <1>1 DEF Uncommitted, Replacing
<1>3. CASE ~Encode(p)
  <2>1. blob' = blob
    BY <1>3 DEF Use, Load, Create, ChangeSettings, Rename, Exit
  <2>. QED
    BY <1>1, <1>2, <2>1, AuditKept
<1>4. CASE Encode(p)
  <2>1. /\ nextRev \in Revs /\ vault[q] \in Vaults
        /\ \A r \in Revs \ {nextRev} : blob'[r] = blob[r]
    BY <1>4, EncodeEffect DEF StoreInv, TypeOK
  <2>2. vault[q].source \in 0..MaxRev /\ vault[q].source < nextRev
    BY <2>1 DEF StoreInv, ContentInv, Vaults
  <2>3. vault[q].source = NoFile \/ vault[q].source \in Revs \ {nextRev}
    BY <2>1, <2>2 DEF Revs, NoFile
  <2>4. Based(q)'
    BY <1>1, <2>1, <2>3 DEF Based, ContentOf
  <2>5. Uncommitted(q) => target[q] \in Revs \ {nextRev}
    <3>1. SUFFICES ASSUME Uncommitted(q) PROVE target[q] \in Revs \ {nextRev}
      OBVIOUS
    <3>2. pc[q] # "idle"
      BY <3>1 DEF Uncommitted, Replacing
    <3>3. target[q] \in 0..MaxRev /\ target[q] # 0 /\ target[q] < nextRev
      BY <3>2 DEF StoreInv, TypeOK, CallInv
    <3>. QED
      BY <2>1, <3>3 DEF Revs
  <2>6. SettingsEdited(q)' <=> SettingsEdited(q)
    BY <1>1 DEF SettingsEdited
  <2>7. Counted(q)'
    BY <1>1, <1>2, <2>1, <2>5, <2>6 DEF Counted
  <2>. QED
    BY <2>4, <2>7
<1>. QED
  BY <1>3, <1>4

\* Every step keeps memory and revisions in agreement.
LEMMA AuditStep ==
    ASSUME StoreInv, AuditInv, [Next]_vars
    PROVE  AuditInv'
<1>1. SUFFICES ASSUME NEW q \in Procs PROVE Based(q)' /\ Counted(q)'
  BY DEF AuditInv
<1>2. Based(q) /\ Counted(q)
  BY DEF AuditInv
<1>3. ASSUME NEW p \in Procs, Use(p) PROVE Based(q)' /\ Counted(q)'
  BY <1>2, <1>3, FreshVaultAudit, EditedAudit, EncodedAudit, OthersAudit
     DEF Use
<1>4. ASSUME NEW p \in Procs, Save(p) PROVE Based(q)' /\ Counted(q)'
  BY <1>2, <1>4, RenamedAudit, SaveKeepsAudit, OthersAudit
<1>5. ASSUME NEW p \in Procs, Exit(p) PROVE Based(q)' /\ Counted(q)'
  <2>1. CASE q = p
    <3>1. ~vault'[q].loaded /\ pc'[q] = "idle"
      BY <1>5, <2>1, ExitEffect DEF Exit, StoreInv, TypeOK
    <3>. QED
      BY <3>1, AuditNone
  <2>2. CASE q # p
    BY <1>2, <1>5, <2>2, OthersAudit
  <2>. QED
    BY <2>1, <2>2
<1>6. CASE PowerLoss
  <2>1. ~vault'[q].loaded /\ pc'[q] = "idle"
    BY <1>6, PowerLossEffect DEF PowerLoss
  <2>. QED
    BY <2>1, AuditNone
<1>7. CASE WriteBack \/ UNCHANGED vars
  <2>1. /\ blob' = blob /\ vault' = vault /\ target' = target /\ pc' = pc
        /\ outcome' = outcome
    BY <1>7 DEF WriteBack, procVars, vars
  <2>2. Uncommitted(q)' <=> Uncommitted(q)
    BY <2>1 DEF Uncommitted
  <2>. QED
    BY <1>2, <2>1, <2>2, AuditKept
<1>. QED
  BY <1>3, <1>4, <1>5, <1>6, <1>7 DEF Next

\* Before the first command nothing is loaded.
LEMMA AuditInit == Init => AuditInv
<1>1. SUFFICES ASSUME Init, NEW p \in Procs PROVE Based(p) /\ Counted(p)
  BY DEF AuditInv
<1>2. ~vault[p].loaded /\ pc[p] = "idle"
  BY <1>1, NoVaultType DEF Init
<1>. QED
  BY <1>2 DEF Based, Counted, Uncommitted, Replacing

\* What save compares with is the revision it replaces, in memory and on disk.
THEOREM AuditInvariant == Spec => [](BaselineInv /\ CountedInv)
<1>1. AuditInv => BaselineInv /\ CountedInv
  BY AuditParts
<1>. QED
  BY <1>1, AuditInit, StoreInvariant, AuditStep, PTL DEF Spec

\* No revision, written or still to be written, has an audit that decode
\* would refuse; a vault in memory has the audit of a revision.
RevisionsReadable == \A r \in Revs : Validated(blob[r].audit)

\* The audit of a vault without a settings edit is one that decode accepts.
LEMMA NoAuditValidated == Validated(NoAudit) /\ Blank.audit = NoAudit
  BY AuditAssumption DEF Validated, NoAudit, Blank

\* Only save makes an audit, and encode_with_audit has a look at it.
LEMMA ReadableStep ==
    ASSUME TypeOK, RevisionsReadable, [Next]_vars
    PROVE  RevisionsReadable'
<1>1. ASSUME NEW p \in Procs, Encode(p) PROVE RevisionsReadable'
  <2>1. PICK now \in 0..(MaxTime + 1) :
          /\ AuditAccepted(p, now)
          /\ blob' = [blob EXCEPT ![nextRev] =
                [updates |-> vault[p].updates \cup {nextRev},
                 settings |-> vault[p].settings,
                 audit |-> NewAudit(p, now)]]
    BY <1>1 DEF Encode
  <2>2. /\ nextRev \in Revs
        /\ blob'[nextRev].audit = NewAudit(p, now)
        /\ \A r \in Revs \ {nextRev} : blob'[r] = blob[r]
    BY <1>1, <2>1 DEF Encode, TypeOK
  <2>3. Validated(blob'[nextRev].audit)
    BY <2>1, <2>2 DEF AuditAccepted
  <2>. QED
    BY <2>2, <2>3 DEF RevisionsReadable, Validated
<1>2. ASSUME ~\E p \in Procs : Encode(p) PROVE blob' = blob
  BY <1>2 DEF Next, Use, Save, Load, Create, ChangeSettings, OpenDirectory,
     TryLock, CheckRevision, CreateTemp, WriteTemp, SyncTemp, Rename,
     SyncDirectory, FailEarly, FailLate, Cleanup, Return, Exit, PowerLoss,
     WriteBack, vars
<1>3. ASSUME blob' = blob PROVE RevisionsReadable'
  BY <1>3 DEF RevisionsReadable, Validated
<1>. QED
  BY <1>1, <1>2, <1>3

\* Nobody is locked out by a clock: every vault that stands or may come back
\* has an audit that decode accepts, and every vault in memory can be saved
\* again without another edit, for any bounds of the counter and the time.
THEOREM AuditAlwaysReadable == Spec => []AuditReadable
<1>1. Init => RevisionsReadable
  BY NoAuditValidated DEF Init, RevisionsReadable
<1>2. StoreInv /\ RevisionsReadable /\ [Next]_vars => RevisionsReadable'
  BY ReadableStep DEF StoreInv
<1>3. StoreInv /\ BaselineInv /\ RevisionsReadable => AuditReadable
  <2>. SUFFICES ASSUME StoreInv, BaselineInv, RevisionsReadable
                PROVE  AuditReadable
    OBVIOUS
  <2>1. ASSUME NEW r \in (Survivors \cup {file}) \ {NoFile}
        PROVE  Validated(blob[r].audit)
    <3>1. r \in 0..MaxRev /\ r # NoFile
      BY <2>1 DEF StoreInv, TypeOK, Survivors
    <3>2. r \in Revs
      BY <3>1, MaxRevAssumption DEF Revs, NoFile
    <3>. QED
      BY <3>2 DEF RevisionsReadable
  <2>2. ASSUME NEW p \in Procs, vault[p].loaded
        PROVE  Validated(vault[p].audit)
    <3>1. vault[p].audit = ContentOf(vault[p].source).audit
      BY <2>2 DEF BaselineInv
    <3>2. vault[p].source = NoFile \/ vault[p].source \in Revs
      BY MaxRevAssumption DEF StoreInv, TypeOK, Vaults, Revs, NoFile
    <3>3. CASE vault[p].source = NoFile
      BY <3>1, <3>3, NoAuditValidated DEF ContentOf
    <3>4. CASE vault[p].source \in Revs
      <4>1. vault[p].source # NoFile
        BY <3>4 DEF Revs, NoFile
      <4>. QED
        BY <3>1, <3>4, <4>1 DEF ContentOf, RevisionsReadable
    <3>. QED
      BY <3>2, <3>3, <3>4
  <2>. QED
    BY <2>1, <2>2 DEF AuditReadable
<1>. QED
  BY <1>1, <1>2, <1>3, StoreInvariant, AuditInvariant, PTL DEF Spec

\* A commit counts one edit if it changes the settings of the file it
\* replaces, and none otherwise; its time is not before the last one.
LEMMA CommitCounts ==
    ASSUME StoreInv, AuditInv, [Next]_vars, file' \notin Survivors
    PROVE  LET old == ContentOf(file)
               new == blob'[file']
               edited == file # NoFile /\ new.settings # old.settings
           IN /\ new.audit.edits =
                     old.audit.edits + (IF edited THEN 1 ELSE 0)
              /\ new.audit.last >= old.audit.last
<1>1. file \in Survivors
  BY DEF StoreInv, ContentInv, Survivors
<1>2. file' # file
  BY <1>1
<1>3. ~PowerLoss
  BY DEF PowerLoss, Survivors
<1>4. PICK p \in Procs : Rename(p)
  BY <1>2, <1>3 DEF Next, Use, Save, Load, Create, ChangeSettings, Encode,
     OpenDirectory, TryLock, CheckRevision, CreateTemp, WriteTemp, SyncTemp,
     SyncDirectory, FailEarly, FailLate, Cleanup, Return, Exit, WriteBack,
     vars, diskVars
<1>5. /\ file' = target[p] /\ blob' = blob /\ pc[p] = "synced"
  BY <1>4 DEF Rename
<1>6. Uncommitted(p) /\ vault[p].source = file /\ vault[p].loaded
  BY <1>5 DEF Uncommitted, Replacing, StoreInv, CommitInv, CallInv
<1>7. Based(p) /\ Counted(p) /\ vault[p] \in Vaults /\ file \in 0..MaxRev
  BY DEF AuditInv, StoreInv, TypeOK
<1>8. /\ vault[p].audit = ContentOf(file).audit
      /\ vault[p].saved = IF file = NoFile THEN NoSettings
                          ELSE ContentOf(file).settings
  BY <1>6, <1>7 DEF Based
<1>9. /\ blob[target[p]].settings = vault[p].settings
      /\ blob[target[p]].audit.edits =
            vault[p].audit.edits + (IF SettingsEdited(p) THEN 1 ELSE 0)
      /\ blob[target[p]].audit.last >= vault[p].audit.last
  BY <1>6, <1>7 DEF Counted
<1>10. SettingsEdited(p) <=>
         file # NoFile /\ blob[target[p]].settings # ContentOf(file).settings
  <2>1. CASE file = NoFile
    BY <1>8, <2>1 DEF SettingsEdited
  <2>2. CASE file # NoFile
    <3>1. ContentOf(file).settings \in Settings
      BY <1>7, <2>2 DEF ContentOf, StoreInv, TypeOK, Revs, NoFile, Contents
    <3>2. vault[p].saved # NoSettings
      BY <1>8, <2>2, <3>1
    <3>. QED
      BY <1>8, <1>9, <2>2, <3>2 DEF SettingsEdited
  <2>. QED
    BY <2>1, <2>2
<1>. QED
  BY <1>5, <1>8, <1>9, <1>10

\* The audit counts exactly the commits that changed the settings, whatever
\* failed, was retried or was lost between them, and its time never goes
\* back.
THEOREM AuditCountsCommits == Spec => EditsCountCommits
<1>1. StoreInv /\ AuditInv /\ [Next]_vars =>
        [LET commit == file' \notin Survivors
             old == ContentOf(file)
             new == blob'[file']
             edited == file # NoFile /\ new.settings # old.settings
         IN commit => /\ new.audit.edits =
                             old.audit.edits + (IF edited THEN 1 ELSE 0)
                      /\ new.audit.last >= old.audit.last]_vars
  BY CommitCounts
<1>. QED
  BY <1>1, AuditInit, StoreInvariant, AuditStep, PTL
     DEF Spec, EditsCountCommits

-----------------------------------------------------------------------------
(* The condition: if the sync of a new directory also makes its entry      *)
(* durable, then no acknowledged update is ever lost and the save protocol *)
(* implements AtomicVault.                                                 *)


\* Encoding a new revision leaves every revision in use as it was.
LEMMA EncodeKeepsContent ==
    ASSUME TypeOK, ContentInv, NEW p \in Procs, Encode(p)
    PROVE  /\ \A r \in window : (ContentOf(r).updates)' = ContentOf(r).updates
           /\ \A q \in Procs : (ContentOf(vault[q].source).updates)'
                                  = ContentOf(vault[q].source).updates
<1>1. ASSUME NEW r \in 0..MaxRev, r < nextRev
      PROVE  (ContentOf(r).updates)' = ContentOf(r).updates
  <2>1. CASE r = NoFile
    BY <2>1 DEF ContentOf
  <2>2. CASE r # NoFile
    <3>1. r \in Revs \ {nextRev}
      BY <1>1, <2>2 DEF Revs, NoFile
    <3>2. blob'[r] = blob[r]
      BY <3>1, EncodeEffect
    <3>. QED
      BY <3>2 DEF ContentOf
  <2>. QED
    BY <2>1, <2>2
<1>2. \A r \in window : r \in 0..MaxRev /\ r < nextRev
  BY DEF TypeOK, ContentInv
<1>3. \A q \in Procs : /\ vault[q].source \in 0..MaxRev
                       /\ vault[q].source < nextRev
                       /\ vault'[q].source = vault[q].source
  BY EncodeEffect DEF TypeOK, ContentInv, Vaults
<1>4. \A r \in window : (ContentOf(r).updates)' = ContentOf(r).updates
  BY <1>1, <1>2
<1>5. ASSUME NEW q \in Procs
      PROVE  (ContentOf(vault[q].source).updates)'
                = ContentOf(vault[q].source).updates
  <2>. DEFINE s == vault[q].source
  <2>1. s \in 0..MaxRev /\ s < nextRev /\ vault'[q].source = s
    BY <1>3
  <2>2. CASE s = NoFile
    BY <2>1, <2>2 DEF ContentOf
  <2>3. CASE s # NoFile
    <3>1. s \in Revs \ {nextRev}
      BY <2>1, <2>3 DEF Revs, NoFile
    <3>2. blob'[s] = blob[s]
      BY <3>1, EncodeEffect
    <3>. QED
      BY <2>1, <3>2 DEF ContentOf
  <2>. QED
    BY <2>2, <2>3
<1>. QED
  BY <1>4, <1>5

\* Once the sync of a new directory makes its entry durable, no step lets an
\* acknowledged update be lost, or reports success for one that may be.
LEMMA AckedStep ==
    ASSUME FsyncCoversParent, StoreInv, AckedSurvive, OkInv, [Next]_vars
    PROVE  (AckedSurvive /\ OkInv)'
<1>. USE DEF Survivors
<1>a. /\ file \in window
      /\ \A r \in Survivors : acked \subseteq ContentOf(r).updates
  BY DEF StoreInv, ContentInv, AckedSurvive
<1>b. \A p, q \in Procs :
         pc[p] \in Holding /\ pc[q] = "done" /\ outcome[q] = "ok" => FALSE
  <2>. SUFFICES ASSUME NEW p \in Procs, NEW q \in Procs, pc[p] \in Holding,
                       pc[q] = "done", outcome[q] = "ok"
                PROVE  FALSE
    OBVIOUS
  <2>1. lock = {p} /\ lock = {q}
    BY DEF StoreInv, LockInv, Committed
  <2>2. p \in lock /\ q \in lock /\ p = q
    BY <2>1
  <2>. QED
    BY <2>2 DEF Holding
<1>0. ASSUME UNCHANGED <<blob, file, window, dir, acked>>,
             \A q \in Procs : pc'[q] = "done" /\ outcome'[q] = "ok" =>
                 pc[q] = "done" /\ outcome[q] = "ok" /\ target'[q] = target[q]
      PROVE  (AckedSurvive /\ OkInv)'
  BY <1>0 DEF AckedSurvive, OkInv, ContentOf
<1>1. ASSUME NEW p \in Procs, Load(p) PROVE (AckedSurvive /\ OkInv)'
  BY <1>1, <1>0 DEF Load, procVars, diskVars, StoreInv, TypeOK
<1>2. ASSUME NEW p \in Procs, Create(p) PROVE (AckedSurvive /\ OkInv)'
  BY <1>2, <1>0 DEF Create, procVars, diskVars, StoreInv, TypeOK
<1>3. ASSUME NEW p \in Procs, ChangeSettings(p) PROVE (AckedSurvive /\ OkInv)'
  BY <1>3, <1>0 DEF ChangeSettings, procVars, diskVars, StoreInv, TypeOK
<1>4. ASSUME NEW p \in Procs, Encode(p) PROVE (AckedSurvive /\ OkInv)'
  <2>1. UNCHANGED <<outcome, file, window, dir, acked>>
    BY <1>4 DEF Encode, diskVars
  <2>2. \A r \in Survivors : (ContentOf(r).updates)' = ContentOf(r).updates
    <3>1. \A r \in window : (ContentOf(r).updates)' = ContentOf(r).updates
      BY <1>4, EncodeKeepsContent DEF StoreInv
    <3>2. (ContentOf(NoFile).updates)' = ContentOf(NoFile).updates
      BY DEF ContentOf
    <3>. QED
      BY <3>1, <3>2
  <2>3. AckedSurvive'
    BY <1>a, <2>1, <2>2 DEF AckedSurvive
  <2>4. \A q \in Procs : pc'[q] = "done" => pc[q] = "done" /\ target'[q] = target[q]
    BY <1>4 DEF Encode, StoreInv, TypeOK
  <2>5. OkInv'
    BY <2>1, <2>2, <2>4 DEF OkInv
  <2>. QED
    BY <2>3, <2>5
<1>5. ASSUME NEW p \in Procs, OpenDirectory(p) PROVE (AckedSurvive /\ OkInv)'
  <2>1. UNCHANGED <<outcome, target, blob, file, window, acked>>
    BY <1>5 DEF OpenDirectory
  <2>2. Survivors' = Survivors
    BY <1>5 DEF OpenDirectory, StoreInv, DiskInv
  <2>3. AckedSurvive'
    BY <1>a, <2>1, <2>2 DEF AckedSurvive, ContentOf
  <2>4. \A q \in Procs : pc'[q] = "done" => pc[q] = "done"
    BY <1>5 DEF OpenDirectory, StoreInv, TypeOK
  <2>5. OkInv'
    BY <2>1, <2>2, <2>4 DEF OkInv, ContentOf
  <2>. QED
    BY <2>3, <2>5
<1>6. ASSUME NEW p \in Procs, TryLock(p) PROVE (AckedSurvive /\ OkInv)'
  BY <1>6, <1>0 DEF TryLock, procVars, diskVars, StoreInv, TypeOK
<1>7. ASSUME NEW p \in Procs, CheckRevision(p) PROVE (AckedSurvive /\ OkInv)'
  BY <1>7, <1>0 DEF CheckRevision, procVars, diskVars, StoreInv, TypeOK
<1>8. ASSUME NEW p \in Procs, CreateTemp(p) PROVE (AckedSurvive /\ OkInv)'
  BY <1>8, <1>0 DEF CreateTemp, procVars, diskVars, StoreInv, TypeOK
<1>9. ASSUME NEW p \in Procs, WriteTemp(p) PROVE (AckedSurvive /\ OkInv)'
  BY <1>9, <1>0 DEF WriteTemp, procVars, diskVars, StoreInv, TypeOK
<1>10. ASSUME NEW p \in Procs, SyncTemp(p) PROVE (AckedSurvive /\ OkInv)'
  BY <1>10, <1>0 DEF SyncTemp, procVars, diskVars, StoreInv, TypeOK
<1>11. ASSUME NEW p \in Procs, Rename(p) PROVE (AckedSurvive /\ OkInv)'
  <2>1. /\ pc[p] = "synced"
        /\ pc' = [pc EXCEPT ![p] = "renamed"]
        /\ file' = target[p]
        /\ window' = window \cup {target[p]}
        /\ UNCHANGED <<target, outcome, blob, dir, acked>>
    BY <1>11 DEF Rename
  <2>2. /\ target[p] \in Revs
        /\ (ContentOf(target[p]).updates)' = vault[p].updates
    BY <1>11, <2>1, RenameEffect DEF StoreInv, CallInv, ContentOf, Revs, NoFile
  <2>3. ContentOf(file).updates \subseteq vault[p].updates
    BY <2>1 DEF StoreInv, CommitInv, ContentInv, Replacing
  <2>4. \A r \in Survivors : acked \subseteq (ContentOf(r).updates)'
    BY <1>a, <2>1 DEF ContentOf
  <2>5. acked \subseteq (ContentOf(target[p]).updates)'
    BY <1>a, <2>2, <2>3
  <2>6. \A r \in (Survivors \cup {file})' : r \in Survivors \/ r = target[p]
    BY <2>1
  <2>7. AckedSurvive'
    <3>1. \A r \in (Survivors \cup {file})' : acked' \subseteq (ContentOf(r).updates)'
      BY <2>1, <2>4, <2>5, <2>6
    <3>. QED
      BY <3>1 DEF AckedSurvive
  <2>8. \A q \in Procs : ~(pc'[q] = "done" /\ outcome'[q] = "ok")
    BY <1>b, <2>1 DEF Holding, StoreInv, TypeOK
  <2>. QED
    BY <2>7, <2>8 DEF OkInv
<1>12. ASSUME NEW p \in Procs, SyncDirectory(p) PROVE (AckedSurvive /\ OkInv)'
  <2>1. /\ pc[p] = "renamed"
        /\ pc' = [pc EXCEPT ![p] = "done"]
        /\ UNCHANGED <<target, blob, file, acked>>
        /\ outcome' = [outcome EXCEPT ![p] = "ok"]
        /\ window' = {file}
        /\ dir' = "durable"
    BY <1>12 DEF SyncDirectory
  <2>2. Survivors' = {file}
    BY <2>1
  <2>3. AckedSurvive'
    BY <1>a, <2>1, <2>2 DEF AckedSurvive, ContentOf
  <2>4. file = target[p] /\ target[p] \in Revs
    BY <2>1 DEF StoreInv, TypeOK, CommitInv, Committed, Revs
  <2>5. target[p] \in (ContentOf(file).updates)'
    BY <2>1, <2>4 DEF StoreInv, CallInv, ContentInv, ContentOf, Revs, NoFile
  <2>6. \A q \in Procs : pc'[q] = "done" /\ outcome'[q] = "ok" => q = p
    BY <1>b, <2>1 DEF Holding, StoreInv, TypeOK
  <2>7. OkInv'
    BY <2>1, <2>2, <2>5, <2>6 DEF OkInv
  <2>. QED
    BY <2>3, <2>7
<1>13. ASSUME NEW p \in Procs, FailEarly(p) PROVE (AckedSurvive /\ OkInv)'
  BY <1>13, <1>0 DEF FailEarly, procVars, diskVars, StoreInv, TypeOK
<1>14. ASSUME NEW p \in Procs, FailLate(p) PROVE (AckedSurvive /\ OkInv)'
  BY <1>14, <1>0 DEF FailLate, procVars, diskVars, StoreInv, TypeOK
<1>15. ASSUME NEW p \in Procs, Cleanup(p) PROVE (AckedSurvive /\ OkInv)'
  <2>1. outcome[p] # "ok"
    BY <1>15 DEF Cleanup, StoreInv, CallInv, Uncommitted, Committed, Replacing
  <2>. QED
    BY <1>15, <1>0, <2>1 DEF Cleanup, StoreInv, TypeOK
<1>16. ASSUME NEW p \in Procs, Return(p) PROVE (AckedSurvive /\ OkInv)'
  <2>1. /\ pc[p] = "done"
        /\ pc' = [pc EXCEPT ![p] = "idle"]
        /\ target' = [target EXCEPT ![p] = 0]
        /\ outcome' = [outcome EXCEPT ![p] = "none"]
        /\ acked' = IF outcome[p] = "ok" THEN acked \cup {target[p]} ELSE acked
        /\ UNCHANGED <<blob, file, window, dir>>
    BY <1>16 DEF Return, diskVars
  <2>2. \A u \in acked' : \A r \in Survivors : u \in ContentOf(r).updates
    BY <1>a, <2>1 DEF OkInv
  <2>3. AckedSurvive'
    BY <1>a, <2>1, <2>2 DEF AckedSurvive, ContentOf
  <2>4. \A q \in Procs : pc'[q] = "done" =>
            pc[q] = "done" /\ target'[q] = target[q] /\ outcome'[q] = outcome[q]
    BY <2>1 DEF StoreInv, TypeOK
  <2>5. OkInv'
    BY <2>1, <2>4 DEF OkInv, ContentOf
  <2>. QED
    BY <2>3, <2>5
<1>17. ASSUME NEW p \in Procs, Exit(p) PROVE (AckedSurvive /\ OkInv)'
  BY <1>17, <1>0 DEF Exit, procVars, diskVars, StoreInv, TypeOK
<1>18. CASE PowerLoss
  <2>1. /\ file' \in Survivors
        /\ window' = {file'}
        /\ dir' # "volatile"
        /\ UNCHANGED <<blob, acked>>
    BY <1>18 DEF PowerLoss
  <2>2. \A r \in (Survivors \cup {file})' : r \in Survivors
    BY <2>1
  <2>3. AckedSurvive'
    BY <1>a, <2>1, <2>2 DEF AckedSurvive, ContentOf
  <2>4. \A q \in Procs : pc'[q] = "idle"
    BY <1>18 DEF PowerLoss
  <2>. QED
    BY <2>3, <2>4 DEF OkInv
<1>19. CASE WriteBack
  <2>1. /\ window' = {file}
        /\ dir' # "volatile"
        /\ UNCHANGED <<pc, target, outcome, file, blob, acked>>
    BY <1>19 DEF WriteBack, procVars
  <2>2. \A r \in (Survivors \cup {file})' : r \in Survivors
    BY <1>a, <2>1
  <2>3. AckedSurvive'
    BY <1>a, <2>1, <2>2 DEF AckedSurvive, ContentOf
  <2>4. OkInv'
    BY <2>1, <2>2 DEF OkInv, ContentOf
  <2>. QED
    BY <2>3, <2>4
<1>20. CASE UNCHANGED vars
  BY <1>20, <1>0 DEF vars
<1>. QED
  BY <1>1, <1>2, <1>3, <1>4, <1>5, <1>6, <1>7, <1>8, <1>9, <1>10, <1>11,
     <1>12, <1>13, <1>14, <1>15, <1>16, <1>17, <1>18, <1>19, <1>20
     DEF Next, Use, Save


\* No step lets the update of a call that has not replaced the file into the
\* vault of another process or into a vault that may come back.
LEMMA FreshStep ==
    ASSUME StoreInv, FreshInv, [Next]_vars
    PROVE  FreshInv'
<1>. USE DEF Uncommitted, Replacing
<1>a. /\ \A p \in Procs : /\ vault[p] \in Vaults
                          /\ \A u \in vault[p].updates : u < nextRev
      /\ nextRev \in Nat
      /\ TypeOK
  BY DEF StoreInv, TypeOK, FreshInv
<1>0. ASSUME UNCHANGED <<blob, nextRev>>, window' \subseteq window \cup {NoFile},
             \A q \in Procs : /\ vault'[q].updates \in {vault[q].updates, {}}
                              /\ Uncommitted(q)' => /\ Uncommitted(q)
                                                    /\ target'[q] = target[q]
      PROVE  FreshInv'
  <2>1. ASSUME NEW q \in Procs, Uncommitted(q)'
        PROVE  /\ \A r \in window' : target'[q] \notin ContentOf(r)'.updates
               /\ \A o \in Procs : target'[q] \in vault'[o].updates => o = q
    <3>1. Uncommitted(q) /\ target'[q] = target[q]
      BY <1>0, <2>1
    <3>2. \A r \in window' : target[q] \notin (ContentOf(r).updates)'
      BY <1>0, <3>1 DEF FreshInv, ContentOf, Blank, NoFile
    <3>3. \A o \in Procs : target[q] \in vault'[o].updates => o = q
      BY <1>0, <3>1 DEF FreshInv
    <3>. QED
      BY <3>1, <3>2, <3>3
  <2>2. \A q \in Procs : \A u \in vault'[q].updates : u < nextRev
    BY <1>0, <1>a
  <2>. QED
    BY <1>0, <2>1, <2>2 DEF FreshInv
<1>1. ASSUME NEW p \in Procs, Load(p) PROVE FreshInv'
  <2>1. UNCHANGED <<pc, outcome, target, blob, window, nextRev>>
    BY <1>1 DEF Load, diskVars
  <2>2. file \in window /\ vault'[p].updates = blob[file].updates /\ file \in Revs
    BY <1>1, LoadEffect, <1>a DEF StoreInv, ContentInv
  <2>3. \A q \in Procs \ {p} : vault'[q] = vault[q]
    BY <1>1, LoadEffect, <1>a
  <2>4. ContentOf(file).updates = vault'[p].updates /\ file < nextRev
    BY <2>2 DEF ContentOf, Revs, NoFile, StoreInv, ContentInv
  <2>5. ASSUME NEW q \in Procs, Uncommitted(q)
        PROVE  target[q] \notin vault'[p].updates
    BY <2>2, <2>4, <2>5 DEF FreshInv
  <2>6. ASSUME NEW q \in Procs
        PROVE  \A u \in vault'[q].updates : u < nextRev
    BY <2>2, <2>3, <2>4 DEF FreshInv
  <2>. QED
    BY <2>1, <2>3, <2>5, <2>6 DEF FreshInv, ContentOf
<1>2. ASSUME NEW p \in Procs, Create(p) PROVE FreshInv'
  <2>1. \A q \in Procs : vault'[q].updates \in {vault[q].updates, {}}
    BY <1>2, CreateEffect, <1>a
  <2>. QED
    BY <1>2, <1>0, <2>1 DEF Create, diskVars
<1>3. ASSUME NEW p \in Procs, ChangeSettings(p) PROVE FreshInv'
  <2>1. \A q \in Procs : vault'[q].updates \in {vault[q].updates, {}}
    BY <1>3, ChangeSettingsEffect, <1>a
  <2>. QED
    BY <1>3, <1>0, <2>1 DEF ChangeSettings, diskVars
<1>4. ASSUME NEW p \in Procs, Encode(p) PROVE FreshInv'
  <2>1. /\ pc[p] = "idle"
        /\ pc' = [pc EXCEPT ![p] = "encoded"]
        /\ target' = [target EXCEPT ![p] = nextRev]
        /\ nextRev' = nextRev + 1
        /\ UNCHANGED <<outcome, window>>
    BY <1>4 DEF Encode, diskVars
  <2>2. \A r \in window : (ContentOf(r).updates)' = ContentOf(r).updates
    BY <1>4, EncodeKeepsContent DEF StoreInv
  <2>3. /\ nextRev \in Revs
        /\ vault'[p].updates = vault[p].updates \cup {nextRev}
        /\ \A q \in Procs \ {p} : vault'[q] = vault[q]
        /\ blob'[nextRev].updates = vault'[p].updates
        /\ \A r \in Revs \ {nextRev} : blob'[r] = blob[r]
    BY <1>4, EncodeEffect, <1>a
  <2>4. ASSUME NEW q \in Procs
        PROVE  \A u \in vault'[q].updates : u < nextRev'
    <3>1. \A u \in vault[q].updates : u \in Nat /\ u < nextRev
      BY <1>a DEF Vaults, Revs
    <3>2. \A u \in vault'[q].updates : u \in vault[q].updates \/ u = nextRev
      BY <2>3
    <3>. QED
      BY <1>a, <2>1, <3>1, <3>2
  <2>5. ASSUME NEW r \in Revs, r < nextRev', NEW u \in blob'[r].updates
        PROVE  u < nextRev'
    <3>1. CASE r = nextRev
      BY <2>3, <2>4, <2>5, <3>1
    <3>2. CASE r # nextRev
      <4>1. r < nextRev /\ blob'[r] = blob[r] /\ blob[r].updates \subseteq Revs
        BY <1>a, <2>1, <2>3, <2>5, <3>2 DEF Revs, TypeOK, Contents
      <4>2. u < nextRev /\ u \in Nat
        BY <2>5, <4>1 DEF FreshInv, Revs
      <4>. QED
        BY <1>a, <2>1, <4>2
    <3>. QED
      BY <3>1, <3>2
  <2>6. ASSUME NEW q \in Procs, Uncommitted(q)'
        PROVE  /\ \A r \in window : target'[q] \notin (ContentOf(r).updates)'
               /\ \A o \in Procs : target'[q] \in vault'[o].updates => o = q
    <3>1. CASE q = p
      <4>1. target'[q] = nextRev
        BY <1>a, <2>1, <3>1 DEF TypeOK
      <4>2. \A r \in window : nextRev \notin ContentOf(r).updates
        <5>. SUFFICES ASSUME NEW r \in window
                      PROVE  \A u \in ContentOf(r).updates : u \in Nat /\ u < nextRev
          BY <1>a
        <5>1. CASE r = NoFile
          BY <5>1 DEF ContentOf, Blank
        <5>2. CASE r # NoFile
          <6>1. r \in Revs /\ r < nextRev /\ blob[r].updates \subseteq Revs
            <7>1. r \in 0..MaxRev /\ r < nextRev
              BY <1>a DEF TypeOK, StoreInv, ContentInv
            <7>2. r \in Revs
              BY <5>2, <7>1 DEF Revs, NoFile
            <7>3. blob[r] \in Contents
              BY <1>a, <7>2 DEF TypeOK
            <7>. QED
              BY <7>1, <7>2, <7>3 DEF Contents
          <6>. QED
            BY <5>2, <6>1 DEF FreshInv, ContentOf, Revs
        <5>. QED
          BY <5>1, <5>2
      <4>3. \A o \in Procs \ {p} : nextRev \notin vault'[o].updates
        BY <1>a, <2>3
      <4>. QED
        BY <2>2, <3>1, <4>1, <4>2, <4>3
    <3>2. CASE q # p
      <4>1. Uncommitted(q) /\ target'[q] = target[q] /\ vault'[q] = vault[q]
        BY <1>a, <2>1, <2>3, <2>6, <3>2 DEF TypeOK
      <4>2. target[q] # nextRev
        <5>1. target[q] < nextRev
          BY <4>1 DEF StoreInv, CallInv
        <5>. QED
          BY <1>a, <5>1
      <4>. QED
        BY <2>2, <2>3, <3>2, <4>1, <4>2 DEF FreshInv
    <3>. QED
      BY <3>1, <3>2
  <2>. QED
    BY <2>1, <2>4, <2>5, <2>6 DEF FreshInv
<1>5. ASSUME NEW p \in Procs, OpenDirectory(p) PROVE FreshInv'
  BY <1>5, <1>0, <1>a DEF OpenDirectory, procVars, diskVars, TypeOK
<1>6. ASSUME NEW p \in Procs, TryLock(p) PROVE FreshInv'
  BY <1>6, <1>0, <1>a DEF TryLock, procVars, diskVars, TypeOK
<1>7. ASSUME NEW p \in Procs, CheckRevision(p) PROVE FreshInv'
  BY <1>7, <1>0, <1>a DEF CheckRevision, procVars, diskVars, TypeOK
<1>8. ASSUME NEW p \in Procs, CreateTemp(p) PROVE FreshInv'
  BY <1>8, <1>0, <1>a DEF CreateTemp, procVars, diskVars, TypeOK
<1>9. ASSUME NEW p \in Procs, WriteTemp(p) PROVE FreshInv'
  BY <1>9, <1>0, <1>a DEF WriteTemp, procVars, diskVars, TypeOK
<1>10. ASSUME NEW p \in Procs, SyncTemp(p) PROVE FreshInv'
  BY <1>10, <1>0, <1>a DEF SyncTemp, procVars, diskVars, TypeOK
<1>11. ASSUME NEW p \in Procs, Rename(p) PROVE FreshInv'
  <2>1. /\ pc[p] = "synced"
        /\ pc' = [pc EXCEPT ![p] = "renamed"]
        /\ window' = window \cup {target[p]}
        /\ UNCHANGED <<target, outcome, blob, nextRev>>
    BY <1>11 DEF Rename
  <2>2. \A q \in Procs : vault'[q].updates = vault[q].updates
    BY <1>11, RenameEffect, <1>a
  <2>3. (ContentOf(target[p]).updates)' = vault[p].updates
    BY <1>11, <2>1, RenameEffect, <1>a DEF StoreInv, CallInv, ContentOf, Revs, NoFile
  <2>4. ASSUME NEW q \in Procs, Uncommitted(q)'
        PROVE  /\ \A r \in window' : target[q] \notin (ContentOf(r).updates)'
               /\ \A o \in Procs : target[q] \in vault'[o].updates => o = q
    <3>1. q # p /\ Uncommitted(q)
      BY <1>a, <2>1, <2>4 DEF TypeOK
    <3>2. target[q] \notin vault[p].updates
      BY <3>1 DEF FreshInv
    <3>3. \A r \in window : target[q] \notin (ContentOf(r).updates)'
      BY <2>1, <3>1 DEF FreshInv, ContentOf
    <3>. QED
      BY <2>1, <2>2, <2>3, <3>1, <3>2, <3>3 DEF FreshInv
  <2>. QED
    BY <2>1, <2>2, <2>4 DEF FreshInv
<1>12. ASSUME NEW p \in Procs, SyncDirectory(p) PROVE FreshInv'
  <2>1. window' \subseteq window
    BY <1>12 DEF SyncDirectory, StoreInv, ContentInv
  <2>. QED
    BY <1>12, <1>0, <1>a, <2>1 DEF SyncDirectory, TypeOK
<1>13. ASSUME NEW p \in Procs, FailEarly(p) PROVE FreshInv'
  BY <1>13, <1>0, <1>a DEF FailEarly, procVars, diskVars, TypeOK
<1>14. ASSUME NEW p \in Procs, FailLate(p) PROVE FreshInv'
  BY <1>14, <1>0, <1>a DEF FailLate, procVars, diskVars, TypeOK
<1>15. ASSUME NEW p \in Procs, Cleanup(p) PROVE FreshInv'
  <2>1. outcome[p] \in {"failed", "uncertain"}
    BY <1>15 DEF Cleanup, StoreInv, CallInv, Committed
  <2>2. \A q \in Procs : Uncommitted(q)' => Uncommitted(q)
    BY <1>15, <1>a, <2>1 DEF Cleanup, TypeOK
  <2>. QED
    BY <1>15, <1>0, <2>2 DEF Cleanup
<1>16. ASSUME NEW p \in Procs, Return(p) PROVE FreshInv'
  BY <1>16, <1>0, <1>a DEF Return, procVars, diskVars, TypeOK
<1>17. ASSUME NEW p \in Procs, Exit(p) PROVE FreshInv'
  <2>1. \A q \in Procs : vault'[q].updates \in {vault[q].updates, {}}
    BY <1>17, ExitEffect, <1>a
  <2>2. \A q \in Procs : Uncommitted(q)' => Uncommitted(q) /\ target'[q] = target[q]
    BY <1>17, <1>a DEF Exit, TypeOK
  <2>. QED
    BY <1>17, <1>0, <2>1, <2>2 DEF Exit, diskVars
<1>18. CASE PowerLoss
  <2>1. window' \subseteq window \cup {NoFile} /\ UNCHANGED <<blob, nextRev>>
    BY <1>18 DEF PowerLoss
  <2>2. \A q \in Procs : vault'[q].updates \in {vault[q].updates, {}}
    BY <1>18, PowerLossEffect
  <2>3. \A q \in Procs : ~Uncommitted(q)'
    BY <1>18 DEF PowerLoss
  <2>. QED
    BY <1>0, <2>1, <2>2, <2>3
<1>19. CASE WriteBack
  <2>1. window' \subseteq window
    BY <1>19 DEF WriteBack, StoreInv, ContentInv
  <2>. QED
    BY <1>19, <1>0, <2>1 DEF WriteBack, procVars
<1>20. CASE UNCHANGED vars
  BY <1>20, <1>0 DEF vars
<1>. QED
  BY <1>1, <1>2, <1>3, <1>4, <1>5, <1>6, <1>7, <1>8, <1>9, <1>10, <1>11,
     <1>12, <1>13, <1>14, <1>15, <1>16, <1>17, <1>18, <1>19, <1>20
     DEF Next, Use, Save


-----------------------------------------------------------------------------
(* The refinement.                                                         *)

\* Every step of the protocol is a step of the atomic vault, or changes
\* nothing that the atomic vault can see.
LEMMA AtomicStep ==
    ASSUME FsyncCoversParent, StoreInv, OkInv, FreshInv, [Next]_vars
    PROVE  [Atomic!Next]_(Atomic!vars)
<1>a. TypeOK /\ ContentInv
  BY DEF StoreInv
<1>0. ASSUME UNCHANGED <<blob, file, window, dir, acked>>,
             \A q \in Procs : /\ vault'[q].loaded = vault[q].loaded
                              /\ vault'[q].source = vault[q].source
      PROVE  UNCHANGED Atomic!vars
  BY <1>0 DEF Current, Window, View, Survivors, ContentOf, Atomic!vars
<1>1. ASSUME NEW p \in Procs, Load(p) PROVE [Atomic!Next]_(Atomic!vars)
  <2>1. UNCHANGED <<blob, file, window, dir, acked>>
    BY <1>1 DEF Load, diskVars
  <2>2. Current' = Current /\ Window' = Window
    BY <2>1 DEF Current, Window, Survivors, ContentOf
  <2>3. /\ vault'[p].loaded
        /\ vault'[p].source = file
        /\ \A q \in Procs \ {p} : vault'[q] = vault[q]
    BY <1>1, <1>a, LoadEffect DEF Load
  <2>4. View' = [View EXCEPT ![p] = {Current}]
    BY <2>1, <2>3 DEF View, Current, ContentOf
  <2>5. Atomic!Open(p)
    BY <2>1, <2>2, <2>4 DEF Atomic!Open
  <2>. QED
    BY <2>5 DEF Atomic!Next
<1>2. ASSUME NEW p \in Procs, Create(p) PROVE [Atomic!Next]_(Atomic!vars)
  <2>1. UNCHANGED <<blob, file, window, dir, acked>>
    BY <1>2 DEF Create, diskVars
  <2>2. Current' = Current /\ Window' = Window
    BY <2>1 DEF Current, Window, Survivors, ContentOf
  <2>3. /\ vault'[p].loaded
        /\ vault'[p].source = file
        /\ \A q \in Procs \ {p} : vault'[q] = vault[q]
    BY <1>2, <1>a, CreateEffect DEF Create
  <2>4. View' = [View EXCEPT ![p] = {Current}]
    BY <2>1, <2>3 DEF View, Current, ContentOf
  <2>5. Atomic!Open(p)
    BY <2>1, <2>2, <2>4 DEF Atomic!Open
  <2>. QED
    BY <2>5 DEF Atomic!Next
<1>3. ASSUME NEW p \in Procs, ChangeSettings(p) PROVE [Atomic!Next]_(Atomic!vars)
  BY <1>3, <1>0, <1>a, ChangeSettingsEffect DEF ChangeSettings, diskVars
<1>4. ASSUME NEW p \in Procs, Encode(p) PROVE [Atomic!Next]_(Atomic!vars)
  <2>1. UNCHANGED <<file, window, dir, acked>>
    BY <1>4 DEF Encode, diskVars
  <2>2. /\ \A r \in window : (ContentOf(r).updates)' = ContentOf(r).updates
        /\ \A q \in Procs : (ContentOf(vault[q].source).updates)'
                               = ContentOf(vault[q].source).updates
    BY <1>4, <1>a, EncodeKeepsContent
  <2>3. \A q \in Procs : vault'[q].loaded = vault[q].loaded
    <3>1. \A q \in Procs : vault[q].loaded \in BOOLEAN
      BY <1>a DEF TypeOK, Vaults
    <3>2. vault[p].loaded /\ vault'[p].loaded
      BY <1>4, <1>a, EncodeEffect DEF Encode
    <3>3. \A q \in Procs \ {p} : vault'[q] = vault[q]
      BY <1>4, <1>a, EncodeEffect
    <3>4. vault'[p].loaded = vault[p].loaded
      <4>1. vault'[p].loaded \in BOOLEAN
        <5>1. TypeOK'
          BY <1>a, TypeStep
        <5>. QED
          BY <5>1 DEF TypeOK, Vaults
      <4>. QED
        BY <3>1, <3>2, <4>1
    <3>. QED
      BY <3>3, <3>4
  <2>4. Current' = Current
    BY <1>a, <2>1, <2>2 DEF Current, ContentInv
  <2>5. Window' = Window
    <3>1. (ContentOf(NoFile).updates)' = ContentOf(NoFile).updates
      BY DEF ContentOf
    <3>2. Survivors' = Survivors
      BY <2>1 DEF Survivors
    <3>3. \A r \in Survivors : (ContentOf(r).updates)' = ContentOf(r).updates
      BY <2>2, <3>1 DEF Survivors
    <3>. QED
      BY <3>2, <3>3 DEF Window
  <2>6. View' = View
    BY <2>2, <2>3 DEF View
  <2>. QED
    BY <2>1, <2>4, <2>5, <2>6 DEF Atomic!vars
<1>5. ASSUME NEW p \in Procs, OpenDirectory(p) PROVE [Atomic!Next]_(Atomic!vars)
  <2>1. UNCHANGED <<vault, blob, file, acked>>
    BY <1>5 DEF OpenDirectory
  <2>2. Survivors' = Survivors
    BY <1>5 DEF OpenDirectory, Survivors, StoreInv, DiskInv
  <2>. QED
    BY <2>1, <2>2 DEF Current, Window, View, ContentOf, Atomic!vars
<1>6. ASSUME NEW p \in Procs, TryLock(p) PROVE [Atomic!Next]_(Atomic!vars)
  BY <1>6, <1>0 DEF TryLock, procVars, diskVars
<1>7. ASSUME NEW p \in Procs, CheckRevision(p) PROVE [Atomic!Next]_(Atomic!vars)
  BY <1>7, <1>0 DEF CheckRevision, procVars, diskVars
<1>8. ASSUME NEW p \in Procs, CreateTemp(p) PROVE [Atomic!Next]_(Atomic!vars)
  BY <1>8, <1>0 DEF CreateTemp, procVars, diskVars
<1>9. ASSUME NEW p \in Procs, WriteTemp(p) PROVE [Atomic!Next]_(Atomic!vars)
  BY <1>9, <1>0 DEF WriteTemp, procVars, diskVars
<1>10. ASSUME NEW p \in Procs, SyncTemp(p) PROVE [Atomic!Next]_(Atomic!vars)
  BY <1>10, <1>0 DEF SyncTemp, procVars, diskVars
<1>11. ASSUME NEW p \in Procs, Rename(p) PROVE [Atomic!Next]_(Atomic!vars)
  <2>1. /\ pc[p] = "synced"
        /\ file' = target[p]
        /\ window' = window \cup {target[p]}
        /\ UNCHANGED <<blob, dir, acked>>
    BY <1>11 DEF Rename
  <2>2. /\ target[p] \in Revs
        /\ vault'[p].loaded = vault[p].loaded
        /\ vault'[p].source = target[p]
        /\ \A q \in Procs \ {p} : vault'[q] = vault[q]
    BY <1>11, <1>a, RenameEffect
  <2>3. /\ vault[p].loaded
        /\ vault[p].source = file
        /\ blob[target[p]].updates = vault[p].updates
        /\ target[p] < nextRev
        /\ Uncommitted(p)
    BY <2>1 DEF StoreInv, CallInv, CommitInv, Replacing, Uncommitted
  <2>. DEFINE new == vault[p].updates
  <2>4. Current' = new
    BY <2>1, <2>2, <2>3 DEF Current, ContentOf, Revs, NoFile
  <2>5. Current \subseteq new
    BY <2>3, <1>a DEF Current, ContentInv
  <2>6. Current # new
    <3>1. target[p] \notin Current
      BY <1>a, <2>3 DEF FreshInv, ContentInv, Current
    <3>2. target[p] \in new
      BY <1>a, <2>2, <2>3 DEF ContentInv
    <3>. QED
      BY <3>1, <3>2
  <2>7. new \in SUBSET Revs
    BY <1>a DEF TypeOK, Vaults
  <2>8. Window' = Window \cup {new}
    <3>1. Survivors' = Survivors \cup {file'}
      BY <2>1 DEF Survivors
    <3>2. Window' = {(ContentOf(r).updates)' : r \in Survivors'}
      BY DEF Window
    <3>3. \A r \in Survivors : (ContentOf(r).updates)' = ContentOf(r).updates
      BY <2>1 DEF ContentOf
    <3>4. (ContentOf(file).updates)' = new
      BY <2>4 DEF Current
    <3>5. \A c : c \in Window' <=> c \in Window \cup {new}
      BY <3>1, <3>2, <3>3, <3>4 DEF Window
    <3>. QED
      BY <3>5
  <2>9. View[p] = {Current}
    BY <2>3 DEF View, Current
  <2>10. View' = [View EXCEPT ![p] = {new}]
    <3>1. View'[p] = {new}
      BY <2>1, <2>2, <2>3, <2>4 DEF View, Current
    <3>2. \A q \in Procs \ {p} : View'[q] = View[q]
      BY <2>1, <2>2 DEF View, ContentOf
    <3>. QED
      BY <3>1, <3>2 DEF View
  <2>11. Atomic!Commit(p)
    BY <2>1, <2>4, <2>5, <2>6, <2>7, <2>8, <2>9, <2>10 DEF Atomic!Commit
  <2>. QED
    BY <2>11 DEF Atomic!Next
<1>12. ASSUME NEW p \in Procs, SyncDirectory(p) PROVE [Atomic!Next]_(Atomic!vars)
  <2>1. UNCHANGED <<vault, blob, file, acked>> /\ Survivors' = {file}
    BY <1>12 DEF SyncDirectory, Survivors
  <2>2. Current' = Current /\ View' = View /\ Window' = {Current}
    BY <2>1 DEF Current, View, Window, ContentOf
  <2>3. Atomic!Harden
    BY <2>1, <2>2 DEF Atomic!Harden
  <2>. QED
    BY <2>3 DEF Atomic!Next
<1>13. ASSUME NEW p \in Procs, FailEarly(p) PROVE [Atomic!Next]_(Atomic!vars)
  BY <1>13, <1>0 DEF FailEarly, procVars, diskVars
<1>14. ASSUME NEW p \in Procs, FailLate(p) PROVE [Atomic!Next]_(Atomic!vars)
  BY <1>14, <1>0 DEF FailLate, procVars, diskVars
<1>15. ASSUME NEW p \in Procs, Cleanup(p) PROVE [Atomic!Next]_(Atomic!vars)
  BY <1>15, <1>0 DEF Cleanup, procVars, diskVars
<1>16. ASSUME NEW p \in Procs, Return(p) PROVE [Atomic!Next]_(Atomic!vars)
  <2>1. UNCHANGED <<vault, blob, file, window, dir>>
    BY <1>16 DEF Return, diskVars
  <2>2. UNCHANGED <<Current, Window, View>>
    BY <2>1 DEF Current, Window, View, Survivors, ContentOf
  <2>3. CASE outcome[p] = "ok"
    <3>1. target[p] \in Revs
      BY <1>16, <1>a DEF Return, TypeOK, Revs
    <3>2. \A state \in Window : target[p] \in state
      BY <1>16, <2>3 DEF Return, OkInv, Window
    <3>3. acked' = acked \cup {target[p]}
      BY <1>16, <2>3 DEF Return
    <3>4. Atomic!Acknowledge(target[p])
      BY <2>2, <3>2, <3>3 DEF Atomic!Acknowledge
    <3>. QED
      BY <3>1, <3>4 DEF Atomic!Next
  <2>4. CASE outcome[p] # "ok"
    BY <1>16, <2>2, <2>4 DEF Return, Atomic!vars
  <2>. QED
    BY <2>3, <2>4
<1>17. ASSUME NEW p \in Procs, Exit(p) PROVE [Atomic!Next]_(Atomic!vars)
  <2>1. UNCHANGED <<blob, file, window, dir, acked>>
    BY <1>17 DEF Exit, diskVars
  <2>2. Current' = Current /\ Window' = Window
    BY <2>1 DEF Current, Window, Survivors, ContentOf
  <2>3. /\ vault'[p].loaded = FALSE
        /\ \A q \in Procs \ {p} : vault'[q] = vault[q]
    BY <1>17, <1>a, ExitEffect
  <2>4. View' = [View EXCEPT ![p] = {}]
    BY <2>1, <2>3 DEF View, ContentOf
  <2>5. Atomic!Forget(p)
    BY <2>1, <2>2, <2>4 DEF Atomic!Forget
  <2>. QED
    BY <2>5 DEF Atomic!Next
<1>18. CASE PowerLoss
  <2>1. /\ file' \in Survivors
        /\ Survivors' = {file'}
        /\ UNCHANGED <<blob, acked>>
    BY <1>18 DEF PowerLoss, Survivors
  <2>2. Current' \in Window
    BY <2>1 DEF Current, Window, ContentOf
  <2>3. Window' = {Current'}
    BY <2>1 DEF Current, Window
  <2>4. View' = Atomic!NoView
    BY <1>18, PowerLossEffect DEF View, Atomic!NoView
  <2>5. Atomic!PowerLoss
    BY <2>1, <2>2, <2>3, <2>4 DEF Atomic!PowerLoss
  <2>. QED
    BY <2>5 DEF Atomic!Next
<1>19. CASE WriteBack
  <2>1. UNCHANGED <<vault, blob, file, acked>> /\ Survivors' = {file}
    BY <1>19 DEF WriteBack, procVars, Survivors
  <2>2. Current' = Current /\ View' = View /\ Window' = {Current}
    BY <2>1 DEF Current, View, Window, ContentOf
  <2>3. Atomic!Harden
    BY <2>1, <2>2 DEF Atomic!Harden
  <2>. QED
    BY <2>3 DEF Atomic!Next
<1>20. CASE UNCHANGED vars
  BY <1>20, <1>0 DEF vars
<1>. QED
  BY <1>1, <1>2, <1>3, <1>4, <1>5, <1>6, <1>7, <1>8, <1>9, <1>10, <1>11,
     <1>12, <1>13, <1>14, <1>15, <1>16, <1>17, <1>18, <1>19, <1>20
     DEF Next, Use, Save


\* The initial states have nothing acknowledged, no call and no vault.
LEMMA RefinementInit ==
    Init => AckedSurvive /\ OkInv /\ FreshInv /\ Atomic!Init
<1> SUFFICES ASSUME Init PROVE AckedSurvive /\ OkInv /\ FreshInv /\ Atomic!Init
  OBVIOUS
<1>1. AckedSurvive
  BY DEF Init, AckedSurvive
<1>2. OkInv
  BY DEF Init, OkInv
<1>3. FreshInv
  BY NoVaultType DEF Init, FreshInv, Uncommitted, Replacing, Revs
<1>4. Survivors = {NoFile} /\ file = NoFile /\ acked = {}
  BY DEF Init, Survivors
<1>5. Current = {} /\ Window = {{}}
  BY <1>4 DEF Current, Window, ContentOf, Blank
<1>6. View = Atomic!NoView
  BY NoVaultType DEF Init, View, Atomic!NoView
<1>7. Atomic!Init
  BY <1>4, <1>5, <1>6 DEF Atomic!Init
<1>. QED
  BY <1>1, <1>2, <1>3, <1>7

\* No update whose save returned Ok is ever lost: not by another process's
\* save, a failure, a kill or a power loss.  It rests on the assumption that
\* syncing a new directory makes the directory itself durable.
THEOREM AckedAlwaysSurvive == FsyncCoversParent => (Spec => []AckedSurvive)
<1>. SUFFICES ASSUME FsyncCoversParent PROVE Spec => []AckedSurvive
  OBVIOUS
<1>1. Init => AckedSurvive /\ OkInv
  BY RefinementInit
<1>2. StoreInv /\ AckedSurvive /\ OkInv /\ [Next]_vars => (AckedSurvive /\ OkInv)'
  BY AckedStep
<1>. QED
  BY <1>1, <1>2, StoreInvariant, PTL DEF Spec

\* Under the same assumption the save protocol implements the atomic vault:
\* each rename is a compare-and-swap on exactly what its process had read.
THEOREM ImplementsAtomicVault == FsyncCoversParent => (Spec => AtomicSpec)
<1>. SUFFICES ASSUME FsyncCoversParent PROVE Spec => AtomicSpec
  OBVIOUS
<1>1. Init => Atomic!Init /\ AckedSurvive /\ OkInv /\ FreshInv
  BY RefinementInit
<1>2. StoreInv /\ AckedSurvive /\ OkInv /\ [Next]_vars => (AckedSurvive /\ OkInv)'
  BY AckedStep
<1>3. StoreInv /\ FreshInv /\ [Next]_vars => FreshInv'
  BY FreshStep
<1>4. StoreInv /\ OkInv /\ FreshInv /\ [Next]_vars => [Atomic!Next]_(Atomic!vars)
  BY AtomicStep
<1>. QED
  BY <1>1, <1>2, <1>3, <1>4, StoreInvariant, PTL DEF Spec, AtomicSpec, Atomic!Spec
=============================================================================
