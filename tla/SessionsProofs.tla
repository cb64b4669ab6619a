---------------------------- MODULE SessionsProofs --------------------------
(***************************************************************************)
(* What is proved of Sessions for any settings, any number of revisions    *)
(* and of changes to a draft: the unlocking key is kept only if the policy *)
(* says so, the policy is the one in the file, the editor replaces what it *)
(* has shown, what is saved can be loaded, refreshes keep their distance.   *)
(***************************************************************************)
EXTENDS Sessions, DataTheorems, TLAPS

USE SettingsAssumption, SessionAssumption

-----------------------------------------------------------------------------
(* The inductive invariant, in parts.                                      *)

Files == {NoFile, file, backup, held, orig}

\* A revision is written once: files that agree on it are the same.
RevInv ==
    /\ revs \in Nat
    /\ \A x \in Files : x.rev \in 0..revs
    /\ \A x, y \in Files : x.rev = y.rev => x = y

\* What every settings are, a draft that is no more than begun included.
Usable(s) == IsConfig(s) /\ Size(s) <= MaxSize

SettingsInUse ==
    {Default, policy, draft, file.settings, backup.settings, held.settings,
     orig.settings}

SettingsInv == \A s \in SettingsInUse : Usable(s)

\* All but a draft has been through decode or Savable.
SettingsSaved ==
    {Default, policy, file.settings, backup.settings, held.settings,
     orig.settings}

SavedInv == \A s \in SettingsSaved : Decodable(s)

\* Which process runs which task, and the key it may have between tasks.
MayKeep == session = NoKey \/ (shell /\ Caches(policy))

KeyInv ==
    /\ step \in {"started", "top", "prompt", "ready"} => task = "none"
    /\ step \in {"started", "top", "prompt"} \/ task \in {"fetch", "refresh"}
          => shell
    /\ step \in {"started", "top", "prompt", "ready"} => MayKeep
    /\ step = "unlock" /\ task # "commit" => MayKeep
    /\ step = "off" => session = NoKey

\* The process has not read the policy yet.
Unread ==
    \/ step = "off" \/ task = "policy"
    \/ ~shell /\ task \in {"config", "show"} /\ step \in {"unlock", "load"}

PolicyInv ==
    ~foreign /\ ~Unread => file # NoFile /\ policy = file.settings

\* What is about to be saved was loaded with the key in memory, and for the
\* editor it is what was reviewed.
SaveInv ==
    /\ step = "save" => session = held.salt /\ held # NoFile
    /\ step = "save" /\ task = "commit" => held = orig
    /\ step \in {"edit", "review"} => task = "config"
    /\ step = "review" \/ task = "commit" => Decodable(draft)

\* No refresh is counted as successful that has not been tried.
TimeInv ==
    /\ age \in 0..MaxAge /\ since \in 0..MaxAge
    /\ age <= since

\* Revisions and salts are numbered, at most up to the last one written.
BoundInv ==
    /\ revs \in 0..MaxRev /\ session \in 0..MaxRev
    /\ \A f \in Files : f.rev \in 0..MaxRev /\ f.salt \in 0..MaxRev

\* What the process is doing.
Activity ==
    task \in Tasks /\ step \in Steps /\ changes \in 0..MaxChanges
PhaseInv == Activity /\ foreign \in BOOLEAN /\ shell \in BOOLEAN

SessionInv ==
    /\ RevInv /\ SettingsInv /\ SavedInv /\ KeyInv /\ PolicyInv
    /\ SaveInv /\ TimeInv /\ BoundInv /\ PhaseInv

-----------------------------------------------------------------------------
\* Nothing changes but which of the files there are is kept where.
LEMMA FilesKept ==
    ASSUME RevInv, revs' = revs, Files' \subseteq Files
    PROVE  RevInv'
  BY DEF RevInv

\* A new file has a revision of its own.
LEMMA FilesGrow ==
    ASSUME RevInv, revs' = revs + 1, NEW f, f.rev = revs + 1,
           Files' \subseteq Files \cup {f}
    PROVE  RevInv'
<1>1. revs' \in Nat
  BY DEF RevInv
<1>2. \A x \in Files' : x.rev \in 0..revs'
  BY DEF RevInv
<1>3. \A x, y \in Files' : x.rev = y.rev => x = y
  <2>. SUFFICES ASSUME NEW x \in Files', NEW y \in Files', x.rev = y.rev
                PROVE  x = y
    OBVIOUS
  <2>1. \A z \in Files : z.rev # f.rev
    BY DEF RevInv
  <2>. QED
    BY <2>1 DEF RevInv
<1>. QED
  BY <1>1, <1>2, <1>3 DEF RevInv

\* What the user types never starts a task that is no command.
LEMMA DispatchedTask ==
    ASSUME SettingsInv, Dispatch
    PROVE  task' \notin {"policy", "fetch", "refresh", "commit"}
<1>1. PICK word \in Words \cup AliasNames : Begin(Expanded(policy, word))
  BY DEF Dispatch
<1>2. Expanded(policy, word) \in Words \cup AliasNames
  BY DEF SettingsInv, SettingsInUse, Usable, IsConfig, Expanded
<1>. QED
  BY <1>1, <1>2 DEF Begin

\* A vault that is in memory has a revision; so has the one that is written.
LEMMA NextRevision ==
    ASSUME RevInv, NEW f, f.rev = revs + 1
    PROVE  f # NoFile /\ \A x \in Files : x.rev # f.rev
<1>1. NoFile.rev = 0 /\ revs \in Nat /\ \A x \in Files : x.rev \in 0..revs
  BY DEF RevInv, NoFile
<1>. QED
  BY <1>1

\* The revision tells that the file is still the one that was loaded.
LEMMA SameRevision ==
    ASSUME RevInv
    PROVE  /\ file.rev = held.rev => file = held
           /\ file.rev = orig.rev => file = orig
  BY DEF RevInv, Files

\* Every new file takes the next revision.
LEMMA RevStep ==
    ASSUME RevInv, [Next]_vars
    PROVE  RevInv'
<1>. USE DEF appVars, taskVars, fileVars
<1>1. ASSUME Start PROVE RevInv'
  <2>1. revs' = revs /\ Files' \subseteq Files
    BY <1>1 DEF Start, Begin, Files
  <2>. QED
    BY <2>1, FilesKept
<1>2. ASSUME StartShell PROVE RevInv'
  <2>1. revs' = revs /\ Files' \subseteq Files
    BY <1>2 DEF StartShell, TryRefresh, Begin, GoTo, KeyAfter, Files
  <2>. QED
    BY <2>1, FilesKept
<1>3. ASSUME Loop PROVE RevInv'
  <2>1. revs' = revs /\ Files' \subseteq Files
    BY <1>3 DEF Loop, TryRefresh, Begin, GoTo, KeyAfter, RefreshDue, Files
  <2>. QED
    BY <2>1, FilesKept
<1>4. ASSUME ReadNothing PROVE RevInv'
  <2>1. revs' = revs /\ Files' \subseteq Files
    BY <1>4 DEF ReadNothing, Files
  <2>. QED
    BY <2>1, FilesKept
<1>5. ASSUME Dispatch PROVE RevInv'
  <2>1. revs' = revs /\ Files' \subseteq Files
    BY <1>5 DEF Dispatch, AtInput, Begin, Files
  <2>. QED
    BY <2>1, FilesKept
<1>6. ASSUME DispatchLocal PROVE RevInv'
  <2>1. revs' = revs /\ Files' \subseteq Files
    BY <1>6 DEF DispatchLocal, AtInput, GoTo, KeyAfter, Files
  <2>. QED
    BY <2>1, FilesKept
<1>7. ASSUME InitVault PROVE RevInv'
  <2>1. Files' \subseteq Files
          \cup {[rev |-> revs', salt |-> revs', settings |-> policy]}
    BY <1>7 DEF InitVault, AtInput, GoTo, KeyAfter, Released, Files
  <2>2. revs' = revs + 1
    BY <1>7 DEF InitVault, AtInput, GoTo, KeyAfter, Released
  <2>. QED
    BY <2>1, <2>2, FilesGrow
<1>8. ASSUME Unlock PROVE RevInv'
  <2>1. revs' = revs /\ Files' \subseteq Files
    BY <1>8 DEF Unlock, Files
  <2>. QED
    BY <2>1, FilesKept
<1>9. ASSUME Fail PROVE RevInv'
  <2>1. revs' = revs /\ Files' \subseteq Files
    BY <1>9 DEF Fail, Releasing, End, GoTo, After, KeyAfter, Released, Files
  <2>. QED
    BY <2>1, FilesKept
<1>10. ASSUME LoadPolicy PROVE RevInv'
  <2>1. revs' = revs /\ Files' \subseteq Files
    BY <1>10 DEF LoadPolicy, Loadable, GoTo, KeyAfter, Released, Files
  <2>. QED
    BY <2>1, FilesKept
<1>11. ASSUME LoadRead PROVE RevInv'
  <2>1. revs' = revs /\ Files' \subseteq Files
    BY <1>11 DEF LoadRead, Loadable, End, GoTo, After, KeyAfter, Released,
                 Files
  <2>. QED
    BY <2>1, FilesKept
<1>12. ASSUME LoadChange PROVE RevInv'
  <2>1. revs' = revs /\ Files' \subseteq Files
    BY <1>12 DEF LoadChange, Loadable, Files
  <2>. QED
    BY <2>1, FilesKept
<1>13. ASSUME LoadReview PROVE RevInv'
  <2>1. revs' = revs /\ Files' \subseteq Files
    BY <1>13 DEF LoadReview, Loadable, Released, Files
  <2>. QED
    BY <2>1, FilesKept
<1>14. ASSUME SaveChange PROVE RevInv'
  <2>1. Files' \subseteq Files
          \cup {[rev |-> revs', salt |-> session, settings |-> held.settings]}
    BY <1>14 DEF SaveChange, Commit, End, GoTo, After, KeyAfter, Released,
                 Files
  <2>2. revs' = revs + 1
    BY <1>14 DEF SaveChange, Commit, End, GoTo, After, KeyAfter, Released
  <2>. QED
    BY <2>1, <2>2, FilesGrow
<1>15. ASSUME LoadSettings PROVE RevInv'
  <2>1. revs' = revs /\ Files' \subseteq Files
    BY <1>15 DEF LoadSettings, Loadable, End, GoTo, After, KeyAfter,
                 Released, Files
  <2>. QED
    BY <2>1, FilesKept
<1>16. ASSUME EditGroup PROVE RevInv'
  <2>1. revs' = revs /\ Files' \subseteq Files
    BY <1>16 DEF EditGroup, Change, Files
  <2>. QED
    BY <2>1, FilesKept
<1>17. ASSUME EditWallets PROVE RevInv'
  <2>1. revs' = revs /\ Files' \subseteq Files
    BY <1>17 DEF EditWallets, Change, Files
  <2>. QED
    BY <2>1, FilesKept
<1>18. ASSUME EditAliases PROVE RevInv'
  <2>1. revs' = revs /\ Files' \subseteq Files
    BY <1>18 DEF EditAliases, Change, Files
  <2>. QED
    BY <2>1, FilesKept
<1>19. ASSUME LeaveEditor PROVE RevInv'
  <2>1. revs' = revs /\ Files' \subseteq Files
    BY <1>19 DEF LeaveEditor, End, GoTo, After, KeyAfter, Released, Files
  <2>. QED
    BY <2>1, FilesKept
<1>20. ASSUME Review PROVE RevInv'
  <2>1. revs' = revs /\ Files' \subseteq Files
    BY <1>20 DEF Review, Savable, Files
  <2>. QED
    BY <2>1, FilesKept
<1>21. ASSUME Answer PROVE RevInv'
  <2>1. revs' = revs /\ Files' \subseteq Files
    BY <1>21 DEF Answer, Files
  <2>. QED
    BY <2>1, FilesKept
<1>22. ASSUME LoadCommit PROVE RevInv'
  <2>1. revs' = revs /\ Files' \subseteq Files
    BY <1>22 DEF LoadCommit, Loadable, Reviewed, Files
  <2>. QED
    BY <2>1, FilesKept
<1>23. ASSUME RefuseCommit PROVE RevInv'
  <2>1. revs' = revs /\ Files' \subseteq Files
    BY <1>23 DEF RefuseCommit, Loadable, End, GoTo, After, KeyAfter,
                 Released, Files
  <2>. QED
    BY <2>1, FilesKept
<1>24. ASSUME SaveDraft PROVE RevInv'
  <2>1. Files' \subseteq Files
          \cup {[rev |-> revs', salt |-> session, settings |-> draft]}
    BY <1>24 DEF SaveDraft, Commit, Adopted, End, GoTo, After, KeyAfter,
                 Released, Files
  <2>2. revs' = revs + 1
    BY <1>24 DEF SaveDraft, Commit, Adopted, End, GoTo, After, KeyAfter,
                 Released
  <2>. QED
    BY <2>1, <2>2, FilesGrow
<1>25. ASSUME OtherCommit PROVE RevInv'
  <2>1. PICK s \in Foreign \cup {file.settings} :
          Files' \subseteq Files
            \cup {[rev |-> revs', salt |-> file.salt, settings |-> s]}
    BY <1>25 DEF OtherCommit, Replace, Files
  <2>2. revs' = revs + 1
    BY <1>25 DEF OtherCommit, Replace
  <2>. QED
    BY <2>1, <2>2, FilesGrow
<1>26. ASSUME RemoveFile PROVE RevInv'
  <2>1. revs' = revs /\ Files' \subseteq Files
    BY <1>26 DEF RemoveFile, Replace, Files
  <2>. QED
    BY <2>1, FilesKept
<1>27. ASSUME OtherInit PROVE RevInv'
  <2>1. Files' \subseteq Files
          \cup {[rev |-> revs', salt |-> revs', settings |-> Default]}
    BY <1>27 DEF OtherInit, Replace, Files
  <2>2. revs' = revs + 1
    BY <1>27 DEF OtherInit, Replace
  <2>. QED
    BY <2>1, <2>2, FilesGrow
<1>28. ASSUME Copy PROVE RevInv'
  <2>1. revs' = revs /\ Files' \subseteq Files
    BY <1>28 DEF Copy, Files
  <2>. QED
    BY <2>1, FilesKept
<1>29. ASSUME Restore PROVE RevInv'
  <2>1. revs' = revs /\ Files' \subseteq Files
    BY <1>29 DEF Restore, Replace, Files
  <2>. QED
    BY <2>1, FilesKept
<1>30. ASSUME Tick PROVE RevInv'
  <2>1. revs' = revs /\ Files' \subseteq Files
    BY <1>30 DEF Tick, Files
  <2>. QED
    BY <2>1, FilesKept
<1>31. ASSUME Kill PROVE RevInv'
  <2>1. revs' = revs /\ Files' \subseteq Files
    BY <1>31 DEF Kill, GoTo, KeyAfter, Files
  <2>. QED
    BY <2>1, FilesKept
<1>32. ASSUME UNCHANGED vars PROVE RevInv'
  <2>1. revs' = revs /\ Files' \subseteq Files
    BY <1>32 DEF vars, Files
  <2>. QED
    BY <2>1, FilesKept
<1>. QED
  BY <1>1, <1>2, <1>3, <1>4, <1>5, <1>6, <1>7, <1>8, <1>9, <1>10, <1>11,
     <1>12, <1>13, <1>14, <1>15, <1>16, <1>17, <1>18, <1>19, <1>20, <1>21,
     <1>22, <1>23, <1>24, <1>25, <1>26, <1>27, <1>28, <1>29, <1>30, <1>31,
     <1>32
     DEF Next, Shell, Commands, Editor, Environment

\* A task that ends, or leaves the user to answer, leaves no key but a
\* cached one.
LEMMA KeyStep ==
    ASSUME SettingsInv, KeyInv, [Next]_vars
    PROVE  KeyInv'
<1>. USE DEF appVars, taskVars, fileVars, KeyInv, MayKeep, Caches
<1>1. ASSUME Start PROVE KeyInv'
  BY <1>1 DEF Start, Begin
<1>2. ASSUME StartShell PROVE KeyInv'
  <2>1. shell' = shell /\ policy' = policy /\ shell
    BY <1>2 DEF StartShell
  <2>2. /\ step' \in {"unlock", "top"}
        /\ step' # "unlock" => task' = "none"
    BY <1>2 DEF StartShell, TryRefresh, Begin, GoTo
  <2>3. session' \in {session, NoKey}
    BY <1>2 DEF StartShell, TryRefresh, GoTo, KeyAfter
  <2>4. session = NoKey \/ (shell /\ Caches(policy))
    BY <1>2 DEF StartShell
  <2>. HIDE DEF Caches
  <2>. QED
    BY <2>1, <2>2, <2>3, <2>4
<1>3. ASSUME Loop PROVE KeyInv'
  <2>1. shell' = shell /\ policy' = policy /\ shell
    BY <1>3 DEF Loop
  <2>2. /\ step' \in {"unlock", "prompt"}
        /\ step' # "unlock" => task' = "none"
    BY <1>3 DEF Loop, TryRefresh, Begin, GoTo
  <2>3. session' \in {session, NoKey}
    BY <1>3 DEF Loop, TryRefresh, GoTo, KeyAfter
  <2>4. session = NoKey \/ (shell /\ Caches(policy))
    BY <1>3 DEF Loop
  <2>. HIDE DEF Caches
  <2>. QED
    BY <2>1, <2>2, <2>3, <2>4
<1>4. ASSUME ReadNothing PROVE KeyInv'
  BY <1>4 DEF ReadNothing
<1>5. ASSUME Dispatch PROVE KeyInv'
  <2>1. shell' = shell /\ policy' = policy /\ session' = session
    BY <1>5 DEF Dispatch
  <2>2. step' = "unlock" /\ task' \notin {"fetch", "refresh"}
    BY <1>5, DispatchedTask DEF Dispatch, Begin
  <2>3. session = NoKey \/ (shell /\ Caches(policy))
    BY <1>5 DEF Dispatch, AtInput
  <2>. HIDE DEF Caches
  <2>. QED
    BY <2>1, <2>2, <2>3
<1>6. ASSUME DispatchLocal PROVE KeyInv'
  BY <1>6 DEF DispatchLocal, AtInput, GoTo, KeyAfter
<1>7. ASSUME InitVault PROVE KeyInv'
  BY <1>7 DEF InitVault, AtInput, GoTo, KeyAfter, Released
<1>8. ASSUME Unlock PROVE KeyInv'
  BY <1>8 DEF Unlock
<1>9. ASSUME Fail PROVE KeyInv'
  BY <1>9 DEF Fail, Releasing, End, GoTo, After, KeyAfter, Released
<1>10. ASSUME LoadPolicy PROVE KeyInv'
  BY <1>10 DEF LoadPolicy, Loadable, GoTo, KeyAfter, Released
<1>11. ASSUME LoadRead PROVE KeyInv'
  BY <1>11 DEF LoadRead, Loadable, End, GoTo, After, KeyAfter, Released
<1>12. ASSUME LoadChange PROVE KeyInv'
  BY <1>12 DEF LoadChange, Loadable
<1>13. ASSUME LoadReview PROVE KeyInv'
  BY <1>13 DEF LoadReview, Loadable, Released
<1>14. ASSUME SaveChange PROVE KeyInv'
  BY <1>14 DEF SaveChange, Commit, End, GoTo, After, KeyAfter, Released
<1>15. ASSUME LoadSettings PROVE KeyInv'
  BY <1>15 DEF LoadSettings, Loadable, End, GoTo, After, KeyAfter, Released
<1>16. ASSUME EditGroup PROVE KeyInv'
  BY <1>16 DEF EditGroup, Change
<1>17. ASSUME EditWallets PROVE KeyInv'
  BY <1>17 DEF EditWallets, Change
<1>18. ASSUME EditAliases PROVE KeyInv'
  BY <1>18 DEF EditAliases, Change
<1>19. ASSUME LeaveEditor PROVE KeyInv'
  BY <1>19 DEF LeaveEditor, End, GoTo, After, KeyAfter, Released
<1>20. ASSUME Review PROVE KeyInv'
  BY <1>20 DEF Review, Savable
<1>21. ASSUME Answer PROVE KeyInv'
  BY <1>21 DEF Answer
<1>22. ASSUME LoadCommit PROVE KeyInv'
  BY <1>22 DEF LoadCommit, Loadable, Reviewed
<1>23. ASSUME RefuseCommit PROVE KeyInv'
  BY <1>23 DEF RefuseCommit, Loadable, End, GoTo, After, KeyAfter, Released
<1>24. ASSUME SaveDraft PROVE KeyInv'
  BY <1>24 DEF SaveDraft, Commit, Adopted, End, GoTo, After, KeyAfter,
               Released
<1>25. ASSUME OtherCommit PROVE KeyInv'
  BY <1>25 DEF OtherCommit, Replace
<1>26. ASSUME RemoveFile PROVE KeyInv'
  BY <1>26 DEF RemoveFile, Replace
<1>27. ASSUME OtherInit PROVE KeyInv'
  BY <1>27 DEF OtherInit, Replace
<1>28. ASSUME Copy PROVE KeyInv'
  BY <1>28 DEF Copy
<1>29. ASSUME Restore PROVE KeyInv'
  BY <1>29 DEF Restore, Replace
<1>30. ASSUME Tick PROVE KeyInv'
  BY <1>30 DEF Tick
<1>31. ASSUME Kill PROVE KeyInv'
  BY <1>31 DEF Kill, GoTo, KeyAfter
<1>32. ASSUME UNCHANGED vars PROVE KeyInv'
  BY <1>32 DEF vars
<1>. QED
  BY <1>1, <1>2, <1>3, <1>4, <1>5, <1>6, <1>7, <1>8, <1>9, <1>10, <1>11,
     <1>12, <1>13, <1>14, <1>15, <1>16, <1>17, <1>18, <1>19, <1>20, <1>21,
     <1>22, <1>23, <1>24, <1>25, <1>26, <1>27, <1>28, <1>29, <1>30, <1>31,
     <1>32
     DEF Next, Shell, Commands, Editor, Environment

\* The policy follows the file in everything this process reads or writes.
LEMMA PolicyStep ==
    ASSUME RevInv, KeyInv, SaveInv, PolicyInv, [Next]_vars
    PROVE  PolicyInv'
<1>. USE DEF appVars, taskVars, fileVars, PolicyInv, Unread, KeyInv, SaveInv
<1>1. ASSUME Start PROVE PolicyInv'
  BY <1>1 DEF Start, Begin
<1>2. ASSUME StartShell PROVE PolicyInv'
  BY <1>2 DEF StartShell, TryRefresh, Begin, GoTo, KeyAfter
<1>3. ASSUME Loop PROVE PolicyInv'
  BY <1>3 DEF Loop, TryRefresh, Begin, GoTo, KeyAfter, RefreshDue
<1>4. ASSUME ReadNothing PROVE PolicyInv'
  BY <1>4 DEF ReadNothing
<1>5. ASSUME Dispatch PROVE PolicyInv'
  BY <1>5 DEF Dispatch, AtInput, Begin
<1>6. ASSUME DispatchLocal PROVE PolicyInv'
  BY <1>6 DEF DispatchLocal, AtInput, GoTo, KeyAfter
<1>7. ASSUME InitVault PROVE PolicyInv'
  <2>1. file'.rev = revs + 1 /\ file'.settings = policy /\ policy' = policy
    BY <1>7 DEF InitVault
  <2>. QED
    BY <2>1, NextRevision
<1>8. ASSUME Unlock PROVE PolicyInv'
  BY <1>8 DEF Unlock
<1>9. ASSUME Fail PROVE PolicyInv'
  BY <1>9 DEF Fail, Releasing, End, GoTo, After, KeyAfter, Released
<1>10. ASSUME LoadPolicy PROVE PolicyInv'
  BY <1>10 DEF LoadPolicy, Loadable, GoTo, KeyAfter, Released
<1>11. ASSUME LoadRead PROVE PolicyInv'
  BY <1>11 DEF LoadRead, Loadable, End, GoTo, After, KeyAfter, Released
<1>12. ASSUME LoadChange PROVE PolicyInv'
  BY <1>12 DEF LoadChange, Loadable
<1>13. ASSUME LoadReview PROVE PolicyInv'
  BY <1>13 DEF LoadReview, Loadable, Released
<1>14. ASSUME SaveChange PROVE PolicyInv'
  <2>1. file = held /\ file'.rev = revs + 1 /\ file'.settings = held.settings
    BY <1>14, SameRevision DEF SaveChange, Commit
  <2>2. file' # NoFile
    BY <2>1, NextRevision
  <2>3. policy' = policy /\ foreign' = foreign
    BY <1>14 DEF SaveChange
  <2>4. Unread => Unread'
    BY <1>14 DEF SaveChange, Commit, End, GoTo, After
  <2>. QED
    BY <2>1, <2>2, <2>3, <2>4
<1>15. ASSUME LoadSettings PROVE PolicyInv'
  BY <1>15 DEF LoadSettings, Loadable, End, GoTo, After, KeyAfter, Released
<1>16. ASSUME EditGroup PROVE PolicyInv'
  BY <1>16 DEF EditGroup, Change
<1>17. ASSUME EditWallets PROVE PolicyInv'
  BY <1>17 DEF EditWallets, Change
<1>18. ASSUME EditAliases PROVE PolicyInv'
  BY <1>18 DEF EditAliases, Change
<1>19. ASSUME LeaveEditor PROVE PolicyInv'
  BY <1>19 DEF LeaveEditor, End, GoTo, After, KeyAfter, Released
<1>20. ASSUME Review PROVE PolicyInv'
  BY <1>20 DEF Review, Savable
<1>21. ASSUME Answer PROVE PolicyInv'
  BY <1>21 DEF Answer
<1>22. ASSUME LoadCommit PROVE PolicyInv'
  BY <1>22 DEF LoadCommit, Loadable, Reviewed
<1>23. ASSUME RefuseCommit PROVE PolicyInv'
  BY <1>23 DEF RefuseCommit, Loadable, End, GoTo, After, KeyAfter, Released
<1>24. ASSUME SaveDraft PROVE PolicyInv'
  <2>1. file'.rev = revs + 1 /\ file'.settings = draft
    BY <1>24 DEF SaveDraft, Commit
  <2>2. file' # NoFile /\ file'.rev # orig.rev
    BY <2>1, NextRevision DEF Files
  <2>3. policy' = draft
    BY <1>24, <2>2 DEF SaveDraft, Adopted
  <2>. QED
    BY <2>1, <2>2, <2>3
<1>25. ASSUME OtherCommit PROVE PolicyInv'
  BY <1>25 DEF OtherCommit, Replace
<1>26. ASSUME RemoveFile PROVE PolicyInv'
  BY <1>26 DEF RemoveFile, Replace
<1>27. ASSUME OtherInit PROVE PolicyInv'
  BY <1>27 DEF OtherInit, Replace
<1>28. ASSUME Copy PROVE PolicyInv'
  BY <1>28 DEF Copy
<1>29. ASSUME Restore PROVE PolicyInv'
  BY <1>29 DEF Restore, Replace
<1>30. ASSUME Tick PROVE PolicyInv'
  BY <1>30 DEF Tick
<1>31. ASSUME Kill PROVE PolicyInv'
  BY <1>31 DEF Kill, GoTo, KeyAfter
<1>32. ASSUME UNCHANGED vars PROVE PolicyInv'
  BY <1>32 DEF vars
<1>. QED
  BY <1>1, <1>2, <1>3, <1>4, <1>5, <1>6, <1>7, <1>8, <1>9, <1>10, <1>11,
     <1>12, <1>13, <1>14, <1>15, <1>16, <1>17, <1>18, <1>19, <1>20, <1>21,
     <1>22, <1>23, <1>24, <1>25, <1>26, <1>27, <1>28, <1>29, <1>30, <1>31,
     <1>32
     DEF Next, Shell, Commands, Editor, Environment

\* Between its load and its save a task keeps what it has loaded.
LEMMA SaveStep ==
    ASSUME RevInv, SettingsInv, SaveInv, [Next]_vars
    PROVE  SaveInv'
<1>. USE DEF appVars, taskVars, fileVars, SaveInv
<1>1. ASSUME Start PROVE SaveInv'
  BY <1>1 DEF Start, Begin
<1>2. ASSUME StartShell PROVE SaveInv'
  BY <1>2 DEF StartShell, TryRefresh, Begin, GoTo, KeyAfter
<1>3. ASSUME Loop PROVE SaveInv'
  BY <1>3 DEF Loop, TryRefresh, Begin, GoTo, KeyAfter, RefreshDue
<1>4. ASSUME ReadNothing PROVE SaveInv'
  BY <1>4 DEF ReadNothing
<1>5. ASSUME Dispatch PROVE SaveInv'
  BY <1>5, DispatchedTask DEF Dispatch, AtInput, Begin
<1>6. ASSUME DispatchLocal PROVE SaveInv'
  BY <1>6 DEF DispatchLocal, AtInput, GoTo, KeyAfter
<1>7. ASSUME InitVault PROVE SaveInv'
  BY <1>7 DEF InitVault, AtInput, GoTo, KeyAfter, Released
<1>8. ASSUME Unlock PROVE SaveInv'
  BY <1>8 DEF Unlock
<1>9. ASSUME Fail PROVE SaveInv'
  BY <1>9 DEF Fail, Releasing, End, GoTo, After, KeyAfter, Released
<1>10. ASSUME LoadPolicy PROVE SaveInv'
  BY <1>10 DEF LoadPolicy, Loadable, GoTo, KeyAfter, Released
<1>11. ASSUME LoadRead PROVE SaveInv'
  BY <1>11 DEF LoadRead, Loadable, End, GoTo, After, KeyAfter, Released
<1>12. ASSUME LoadChange PROVE SaveInv'
  BY <1>12 DEF LoadChange, Loadable
<1>13. ASSUME LoadReview PROVE SaveInv'
  BY <1>13 DEF LoadReview, Loadable, Released
<1>14. ASSUME SaveChange PROVE SaveInv'
  BY <1>14 DEF SaveChange, Commit, End, GoTo, After, KeyAfter, Released
<1>15. ASSUME LoadSettings PROVE SaveInv'
  BY <1>15 DEF LoadSettings, Loadable, End, GoTo, After, KeyAfter, Released
<1>16. ASSUME EditGroup PROVE SaveInv'
  BY <1>16 DEF EditGroup, Change
<1>17. ASSUME EditWallets PROVE SaveInv'
  BY <1>17 DEF EditWallets, Change
<1>18. ASSUME EditAliases PROVE SaveInv'
  BY <1>18 DEF EditAliases, Change
<1>19. ASSUME LeaveEditor PROVE SaveInv'
  BY <1>19 DEF LeaveEditor, End, GoTo, After, KeyAfter, Released
<1>20. ASSUME Review PROVE SaveInv'
  BY <1>20 DEF Review, Savable
<1>21. ASSUME Answer PROVE SaveInv'
  BY <1>21 DEF Answer
<1>22. ASSUME LoadCommit PROVE SaveInv'
  BY <1>22, SameRevision DEF LoadCommit, Loadable, Reviewed
<1>23. ASSUME RefuseCommit PROVE SaveInv'
  BY <1>23 DEF RefuseCommit, Loadable, End, GoTo, After, KeyAfter, Released
<1>24. ASSUME SaveDraft PROVE SaveInv'
  BY <1>24 DEF SaveDraft, Commit, Adopted, End, GoTo, After, KeyAfter,
               Released
<1>25. ASSUME OtherCommit PROVE SaveInv'
  BY <1>25 DEF OtherCommit, Replace
<1>26. ASSUME RemoveFile PROVE SaveInv'
  BY <1>26 DEF RemoveFile, Replace
<1>27. ASSUME OtherInit PROVE SaveInv'
  BY <1>27 DEF OtherInit, Replace
<1>28. ASSUME Copy PROVE SaveInv'
  BY <1>28 DEF Copy
<1>29. ASSUME Restore PROVE SaveInv'
  BY <1>29 DEF Restore, Replace
<1>30. ASSUME Tick PROVE SaveInv'
  BY <1>30 DEF Tick
<1>31. ASSUME Kill PROVE SaveInv'
  BY <1>31 DEF Kill, GoTo, KeyAfter
<1>32. ASSUME UNCHANGED vars PROVE SaveInv'
  BY <1>32 DEF vars
<1>. QED
  BY <1>1, <1>2, <1>3, <1>4, <1>5, <1>6, <1>7, <1>8, <1>9, <1>10, <1>11,
     <1>12, <1>13, <1>14, <1>15, <1>16, <1>17, <1>18, <1>19, <1>20, <1>21,
     <1>22, <1>23, <1>24, <1>25, <1>26, <1>27, <1>28, <1>29, <1>30, <1>31,
     <1>32
     DEF Next, Shell, Commands, Editor, Environment

\* Whatever counts as a refresh counts as a try of one.
LEMMA TimeStep ==
    ASSUME TimeInv, [Next]_vars
    PROVE  TimeInv'
<1>. USE DEF appVars, taskVars, fileVars, TimeInv
<1>1. ASSUME Start PROVE TimeInv'
  BY <1>1 DEF Start, Begin
<1>2. ASSUME StartShell PROVE TimeInv'
  BY <1>2 DEF StartShell, TryRefresh, Begin, GoTo, KeyAfter, StampAt
<1>3. ASSUME Loop PROVE TimeInv'
  BY <1>3 DEF Loop, TryRefresh, Begin, GoTo, KeyAfter, RefreshDue, StampAt
<1>4. ASSUME ReadNothing PROVE TimeInv'
  BY <1>4 DEF ReadNothing
<1>5. ASSUME Dispatch PROVE TimeInv'
  BY <1>5 DEF Dispatch, AtInput, Begin
<1>6. ASSUME DispatchLocal PROVE TimeInv'
  BY <1>6 DEF DispatchLocal, AtInput, GoTo, KeyAfter
<1>7. ASSUME InitVault PROVE TimeInv'
  BY <1>7 DEF InitVault, AtInput, GoTo, KeyAfter, Released
<1>8. ASSUME Unlock PROVE TimeInv'
  BY <1>8 DEF Unlock
<1>9. ASSUME Fail PROVE TimeInv'
  BY <1>9 DEF Fail, Releasing, End, GoTo, After, KeyAfter, Released
<1>10. ASSUME LoadPolicy PROVE TimeInv'
  BY <1>10 DEF LoadPolicy, Loadable, GoTo, KeyAfter, Released
<1>11. ASSUME LoadRead PROVE TimeInv'
  BY <1>11 DEF LoadRead, Loadable, End, GoTo, After, KeyAfter, Released,
               StampAt
<1>12. ASSUME LoadChange PROVE TimeInv'
  BY <1>12 DEF LoadChange, Loadable
<1>13. ASSUME LoadReview PROVE TimeInv'
  BY <1>13 DEF LoadReview, Loadable, Released
<1>14. ASSUME SaveChange PROVE TimeInv'
  BY <1>14 DEF SaveChange, Commit, End, GoTo, After, KeyAfter, Released
<1>15. ASSUME LoadSettings PROVE TimeInv'
  BY <1>15 DEF LoadSettings, Loadable, End, GoTo, After, KeyAfter, Released
<1>16. ASSUME EditGroup PROVE TimeInv'
  BY <1>16 DEF EditGroup, Change
<1>17. ASSUME EditWallets PROVE TimeInv'
  BY <1>17 DEF EditWallets, Change
<1>18. ASSUME EditAliases PROVE TimeInv'
  BY <1>18 DEF EditAliases, Change
<1>19. ASSUME LeaveEditor PROVE TimeInv'
  BY <1>19 DEF LeaveEditor, End, GoTo, After, KeyAfter, Released
<1>20. ASSUME Review PROVE TimeInv'
  BY <1>20 DEF Review, Savable
<1>21. ASSUME Answer PROVE TimeInv'
  BY <1>21 DEF Answer
<1>22. ASSUME LoadCommit PROVE TimeInv'
  BY <1>22 DEF LoadCommit, Loadable, Reviewed
<1>23. ASSUME RefuseCommit PROVE TimeInv'
  BY <1>23 DEF RefuseCommit, Loadable, End, GoTo, After, KeyAfter, Released
<1>24. ASSUME SaveDraft PROVE TimeInv'
  BY <1>24 DEF SaveDraft, Commit, Adopted, End, GoTo, After, KeyAfter,
               Released
<1>25. ASSUME OtherCommit PROVE TimeInv'
  BY <1>25 DEF OtherCommit, Replace
<1>26. ASSUME RemoveFile PROVE TimeInv'
  BY <1>26 DEF RemoveFile, Replace
<1>27. ASSUME OtherInit PROVE TimeInv'
  BY <1>27 DEF OtherInit, Replace
<1>28. ASSUME Copy PROVE TimeInv'
  BY <1>28 DEF Copy
<1>29. ASSUME Restore PROVE TimeInv'
  BY <1>29 DEF Restore, Replace
<1>30. ASSUME Tick PROVE TimeInv'
  BY <1>30 DEF Tick
<1>31. ASSUME Kill PROVE TimeInv'
  BY <1>31 DEF Kill, GoTo, KeyAfter
<1>32. ASSUME UNCHANGED vars PROVE TimeInv'
  BY <1>32 DEF vars
<1>. QED
  BY <1>1, <1>2, <1>3, <1>4, <1>5, <1>6, <1>7, <1>8, <1>9, <1>10, <1>11,
     <1>12, <1>13, <1>14, <1>15, <1>16, <1>17, <1>18, <1>19, <1>20, <1>21,
     <1>22, <1>23, <1>24, <1>25, <1>26, <1>27, <1>28, <1>29, <1>30, <1>31,
     <1>32
     DEF Next, Shell, Commands, Editor, Environment

\* No new file: the numbers stay.
LEMMA BoundsKept ==
    ASSUME BoundInv, revs' = revs, Files' \subseteq Files,
           session' \in {session, NoKey}
    PROVE  BoundInv'
  BY DEF BoundInv, NoKey

\* A new file takes the next number, and the salt of a key or that number.
LEMMA BoundsGrow ==
    ASSUME BoundInv, revs < MaxRev, revs' = revs + 1,
           NEW f, f.rev = revs', f.salt \in {revs', session, file.salt},
           Files' \subseteq Files \cup {f},
           session' \in {session, NoKey, revs'}
    PROVE  BoundInv'
<1>1. revs' \in 0..MaxRev
  BY DEF BoundInv
<1>2. file.salt \in 0..MaxRev /\ session \in 0..MaxRev /\ NoKey \in 0..MaxRev
  BY DEF BoundInv, Files, NoKey
<1>3. f.rev \in 0..MaxRev /\ f.salt \in 0..MaxRev
  BY <1>1, <1>2
<1>. QED
  BY <1>1, <1>2, <1>3 DEF BoundInv

\* No number is greater than MaxRev: whatever writes a file looks at the
\* bound.
LEMMA BoundStep ==
    ASSUME BoundInv, [Next]_vars
    PROVE  BoundInv'
<1>. USE DEF appVars, taskVars, fileVars
<1>1. ASSUME Start PROVE BoundInv'
  <2>1. /\ revs' = revs /\ Files' \subseteq Files
        /\ session' \in {session, NoKey}
    BY <1>1 DEF Start, Begin, Files
  <2>. QED
    BY <2>1, BoundsKept
<1>2. ASSUME StartShell PROVE BoundInv'
  <2>1. /\ revs' = revs /\ Files' \subseteq Files
        /\ session' \in {session, NoKey}
    BY <1>2 DEF StartShell, TryRefresh, Begin, GoTo, KeyAfter, StampAt, Files
  <2>. QED
    BY <2>1, BoundsKept
<1>3. ASSUME Loop PROVE BoundInv'
  <2>1. /\ revs' = revs /\ Files' \subseteq Files
        /\ session' \in {session, NoKey}
    BY <1>3 DEF Loop, TryRefresh, Begin, GoTo, KeyAfter, RefreshDue, StampAt,
                Files
  <2>. QED
    BY <2>1, BoundsKept
<1>4. ASSUME ReadNothing PROVE BoundInv'
  <2>1. /\ revs' = revs /\ Files' \subseteq Files
        /\ session' \in {session, NoKey}
    BY <1>4 DEF ReadNothing, Files
  <2>. QED
    BY <2>1, BoundsKept
<1>5. ASSUME Dispatch PROVE BoundInv'
  <2>1. /\ revs' = revs /\ Files' \subseteq Files
        /\ session' \in {session, NoKey}
    BY <1>5 DEF Dispatch, AtInput, Begin, Files
  <2>. QED
    BY <2>1, BoundsKept
<1>6. ASSUME DispatchLocal PROVE BoundInv'
  <2>1. /\ revs' = revs /\ Files' \subseteq Files
        /\ session' \in {session, NoKey}
    BY <1>6 DEF DispatchLocal, AtInput, GoTo, KeyAfter, Files
  <2>. QED
    BY <2>1, BoundsKept
<1>7. ASSUME InitVault PROVE BoundInv'
  <2>1. Files' \subseteq Files
          \cup {[rev |-> revs', salt |-> revs', settings |-> policy]}
    BY <1>7 DEF InitVault, AtInput, GoTo, KeyAfter, Released, Files
  <2>2. /\ revs < MaxRev /\ revs' = revs + 1
        /\ session' \in {session, NoKey, revs'}
    BY <1>7 DEF InitVault, AtInput, GoTo, KeyAfter, Released
  <2>. QED
    BY <2>1, <2>2, BoundsGrow
<1>8. ASSUME Unlock PROVE BoundInv'
  <2>1. /\ revs' = revs /\ Files' \subseteq Files
        /\ session' \in {session, file.salt}
    BY <1>8 DEF Unlock, Files
  <2>2. file.salt \in 0..MaxRev
    BY DEF BoundInv, Files
  <2>. QED
    BY <2>1, <2>2 DEF BoundInv
<1>9. ASSUME Fail PROVE BoundInv'
  <2>1. /\ revs' = revs /\ Files' \subseteq Files
        /\ session' \in {session, NoKey}
    BY <1>9 DEF Fail, Releasing, End, GoTo, After, KeyAfter, Released, Files
  <2>. QED
    BY <2>1, BoundsKept
<1>10. ASSUME LoadPolicy PROVE BoundInv'
  <2>1. /\ revs' = revs /\ Files' \subseteq Files
        /\ session' \in {session, NoKey}
    BY <1>10 DEF LoadPolicy, Loadable, GoTo, KeyAfter, Released, Files
  <2>. QED
    BY <2>1, BoundsKept
<1>11. ASSUME LoadRead PROVE BoundInv'
  <2>1. /\ revs' = revs /\ Files' \subseteq Files
        /\ session' \in {session, NoKey}
    BY <1>11 DEF LoadRead, Loadable, End, GoTo, After, KeyAfter, Released,
                 StampAt, Files
  <2>. QED
    BY <2>1, BoundsKept
<1>12. ASSUME LoadChange PROVE BoundInv'
  <2>1. /\ revs' = revs /\ Files' \subseteq Files
        /\ session' \in {session, NoKey}
    BY <1>12 DEF LoadChange, Loadable, Files
  <2>. QED
    BY <2>1, BoundsKept
<1>13. ASSUME LoadReview PROVE BoundInv'
  <2>1. /\ revs' = revs /\ Files' \subseteq Files
        /\ session' \in {session, NoKey}
    BY <1>13 DEF LoadReview, Loadable, Released, Files
  <2>. QED
    BY <2>1, BoundsKept
<1>14. ASSUME SaveChange PROVE BoundInv'
  <2>1. Files' \subseteq Files
          \cup {[rev |-> revs', salt |-> session, settings |-> held.settings]}
    BY <1>14 DEF SaveChange, Commit, End, GoTo, After, KeyAfter, Released,
                 Files
  <2>2. /\ revs < MaxRev /\ revs' = revs + 1
        /\ session' \in {session, NoKey, revs'}
    BY <1>14 DEF SaveChange, Commit, End, GoTo, After, KeyAfter, Released
  <2>. QED
    BY <2>1, <2>2, BoundsGrow
<1>15. ASSUME LoadSettings PROVE BoundInv'
  <2>1. /\ revs' = revs /\ Files' \subseteq Files
        /\ session' \in {session, NoKey}
    BY <1>15 DEF LoadSettings, Loadable, End, GoTo, After, KeyAfter,
                 Released, Files
  <2>. QED
    BY <2>1, BoundsKept
<1>16. ASSUME EditGroup PROVE BoundInv'
  <2>1. /\ revs' = revs /\ Files' \subseteq Files
        /\ session' \in {session, NoKey}
    BY <1>16 DEF EditGroup, Change, Files
  <2>. QED
    BY <2>1, BoundsKept
<1>17. ASSUME EditWallets PROVE BoundInv'
  <2>1. /\ revs' = revs /\ Files' \subseteq Files
        /\ session' \in {session, NoKey}
    BY <1>17 DEF EditWallets, Change, Files
  <2>. QED
    BY <2>1, BoundsKept
<1>18. ASSUME EditAliases PROVE BoundInv'
  <2>1. /\ revs' = revs /\ Files' \subseteq Files
        /\ session' \in {session, NoKey}
    BY <1>18 DEF EditAliases, Change, Files
  <2>. QED
    BY <2>1, BoundsKept
<1>19. ASSUME LeaveEditor PROVE BoundInv'
  <2>1. /\ revs' = revs /\ Files' \subseteq Files
        /\ session' \in {session, NoKey}
    BY <1>19 DEF LeaveEditor, End, GoTo, After, KeyAfter, Released, Files
  <2>. QED
    BY <2>1, BoundsKept
<1>20. ASSUME Review PROVE BoundInv'
  <2>1. /\ revs' = revs /\ Files' \subseteq Files
        /\ session' \in {session, NoKey}
    BY <1>20 DEF Review, Savable, Files
  <2>. QED
    BY <2>1, BoundsKept
<1>21. ASSUME Answer PROVE BoundInv'
  <2>1. /\ revs' = revs /\ Files' \subseteq Files
        /\ session' \in {session, NoKey}
    BY <1>21 DEF Answer, Files
  <2>. QED
    BY <2>1, BoundsKept
<1>22. ASSUME LoadCommit PROVE BoundInv'
  <2>1. /\ revs' = revs /\ Files' \subseteq Files
        /\ session' \in {session, NoKey}
    BY <1>22 DEF LoadCommit, Loadable, Reviewed, Files
  <2>. QED
    BY <2>1, BoundsKept
<1>23. ASSUME RefuseCommit PROVE BoundInv'
  <2>1. /\ revs' = revs /\ Files' \subseteq Files
        /\ session' \in {session, NoKey}
    BY <1>23 DEF RefuseCommit, Loadable, End, GoTo, After, KeyAfter,
                 Released, Files
  <2>. QED
    BY <2>1, BoundsKept
<1>24. ASSUME SaveDraft PROVE BoundInv'
  <2>1. Files' \subseteq Files
          \cup {[rev |-> revs', salt |-> session, settings |-> draft]}
    BY <1>24 DEF SaveDraft, Commit, Adopted, End, GoTo, After, KeyAfter,
                 Released, Files
  <2>2. /\ revs < MaxRev /\ revs' = revs + 1
        /\ session' \in {session, NoKey, revs'}
    BY <1>24 DEF SaveDraft, Commit, Adopted, End, GoTo, After, KeyAfter,
                 Released
  <2>. QED
    BY <2>1, <2>2, BoundsGrow
<1>25. ASSUME OtherCommit PROVE BoundInv'
  <2>1. PICK s \in Foreign \cup {file.settings} :
          Files' \subseteq Files
            \cup {[rev |-> revs', salt |-> file.salt, settings |-> s]}
    BY <1>25 DEF OtherCommit, Replace, Files
  <2>2. revs < MaxRev /\ revs' = revs + 1 /\ session' = session
    BY <1>25 DEF OtherCommit, Replace
  <2>. QED
    BY <2>1, <2>2, BoundsGrow
<1>26. ASSUME RemoveFile PROVE BoundInv'
  <2>1. /\ revs' = revs /\ Files' \subseteq Files
        /\ session' \in {session, NoKey}
    BY <1>26 DEF RemoveFile, Replace, Files
  <2>. QED
    BY <2>1, BoundsKept
<1>27. ASSUME OtherInit PROVE BoundInv'
  <2>1. Files' \subseteq Files
          \cup {[rev |-> revs', salt |-> revs', settings |-> Default]}
    BY <1>27 DEF OtherInit, Replace, Files
  <2>2. /\ revs < MaxRev /\ revs' = revs + 1
        /\ session' \in {session, NoKey, revs'}
    BY <1>27 DEF OtherInit, Replace
  <2>. QED
    BY <2>1, <2>2, BoundsGrow
<1>28. ASSUME Copy PROVE BoundInv'
  <2>1. /\ revs' = revs /\ Files' \subseteq Files
        /\ session' \in {session, NoKey}
    BY <1>28 DEF Copy, Files
  <2>. QED
    BY <2>1, BoundsKept
<1>29. ASSUME Restore PROVE BoundInv'
  <2>1. /\ revs' = revs /\ Files' \subseteq Files
        /\ session' \in {session, NoKey}
    BY <1>29 DEF Restore, Replace, Files
  <2>. QED
    BY <2>1, BoundsKept
<1>30. ASSUME Tick PROVE BoundInv'
  <2>1. /\ revs' = revs /\ Files' \subseteq Files
        /\ session' \in {session, NoKey}
    BY <1>30 DEF Tick, Files
  <2>. QED
    BY <2>1, BoundsKept
<1>31. ASSUME Kill PROVE BoundInv'
  <2>1. /\ revs' = revs /\ Files' \subseteq Files
        /\ session' \in {session, NoKey}
    BY <1>31 DEF Kill, GoTo, KeyAfter, Files
  <2>. QED
    BY <2>1, BoundsKept
<1>32. ASSUME UNCHANGED vars PROVE BoundInv'
  <2>1. /\ revs' = revs /\ Files' \subseteq Files
        /\ session' \in {session, NoKey}
    BY <1>32 DEF vars, Files
  <2>. QED
    BY <2>1, BoundsKept
<1>. QED
  BY <1>1, <1>2, <1>3, <1>4, <1>5, <1>6, <1>7, <1>8, <1>9, <1>10, <1>11,
     <1>12, <1>13, <1>14, <1>15, <1>16, <1>17, <1>18, <1>19, <1>20, <1>21,
     <1>22, <1>23, <1>24, <1>25, <1>26, <1>27, <1>28, <1>29, <1>30, <1>31,
     <1>32
     DEF Next, Shell, Commands, Editor, Environment

\* The loop, the tasks and the editor go from step to step.
LEMMA ActivityStep ==
    ASSUME Activity, [Next]_vars
    PROVE  Activity'
<1>. USE DEF appVars, taskVars, fileVars, Activity, Tasks, Steps
<1>1. ASSUME Start PROVE Activity'
  BY <1>1 DEF Start, Begin
<1>2. ASSUME StartShell PROVE Activity'
  BY <1>2 DEF StartShell, TryRefresh, Begin, GoTo, KeyAfter, StampAt
<1>3. ASSUME Loop PROVE Activity'
  BY <1>3 DEF Loop, TryRefresh, Begin, GoTo, KeyAfter, RefreshDue, StampAt
<1>4. ASSUME ReadNothing PROVE Activity'
  BY <1>4 DEF ReadNothing
<1>5. ASSUME Dispatch PROVE Activity'
  BY <1>5 DEF Dispatch, AtInput, Begin
<1>6. ASSUME DispatchLocal PROVE Activity'
  BY <1>6 DEF DispatchLocal, AtInput, GoTo, KeyAfter
<1>7. ASSUME InitVault PROVE Activity'
  BY <1>7 DEF InitVault, AtInput, GoTo, KeyAfter, Released
<1>8. ASSUME Unlock PROVE Activity'
  BY <1>8 DEF Unlock
<1>9. ASSUME Fail PROVE Activity'
  BY <1>9 DEF Fail, Releasing, End, GoTo, After, KeyAfter, Released
<1>10. ASSUME LoadPolicy PROVE Activity'
  BY <1>10 DEF LoadPolicy, Loadable, GoTo, KeyAfter, Released
<1>11. ASSUME LoadRead PROVE Activity'
  BY <1>11 DEF LoadRead, Loadable, End, GoTo, After, KeyAfter, Released,
               StampAt
<1>12. ASSUME LoadChange PROVE Activity'
  BY <1>12 DEF LoadChange, Loadable
<1>13. ASSUME LoadReview PROVE Activity'
  BY <1>13 DEF LoadReview, Loadable, Released
<1>14. ASSUME SaveChange PROVE Activity'
  BY <1>14 DEF SaveChange, Commit, End, GoTo, After, KeyAfter, Released
<1>15. ASSUME LoadSettings PROVE Activity'
  BY <1>15 DEF LoadSettings, Loadable, End, GoTo, After, KeyAfter, Released
<1>16. ASSUME EditGroup PROVE Activity'
  BY <1>16 DEF EditGroup, Change
<1>17. ASSUME EditWallets PROVE Activity'
  BY <1>17 DEF EditWallets, Change
<1>18. ASSUME EditAliases PROVE Activity'
  BY <1>18 DEF EditAliases, Change
<1>19. ASSUME LeaveEditor PROVE Activity'
  BY <1>19 DEF LeaveEditor, End, GoTo, After, KeyAfter, Released
<1>20. ASSUME Review PROVE Activity'
  BY <1>20 DEF Review, Savable
<1>21. ASSUME Answer PROVE Activity'
  BY <1>21 DEF Answer
<1>22. ASSUME LoadCommit PROVE Activity'
  BY <1>22 DEF LoadCommit, Loadable, Reviewed
<1>23. ASSUME RefuseCommit PROVE Activity'
  BY <1>23 DEF RefuseCommit, Loadable, End, GoTo, After, KeyAfter, Released
<1>24. ASSUME SaveDraft PROVE Activity'
  BY <1>24 DEF SaveDraft, Commit, Adopted, End, GoTo, After, KeyAfter,
               Released
<1>25. ASSUME OtherCommit PROVE Activity'
  BY <1>25 DEF OtherCommit, Replace
<1>26. ASSUME RemoveFile PROVE Activity'
  BY <1>26 DEF RemoveFile, Replace
<1>27. ASSUME OtherInit PROVE Activity'
  BY <1>27 DEF OtherInit, Replace
<1>28. ASSUME Copy PROVE Activity'
  BY <1>28 DEF Copy
<1>29. ASSUME Restore PROVE Activity'
  BY <1>29 DEF Restore, Replace
<1>30. ASSUME Tick PROVE Activity'
  BY <1>30 DEF Tick
<1>31. ASSUME Kill PROVE Activity'
  BY <1>31 DEF Kill, GoTo, KeyAfter
<1>32. ASSUME UNCHANGED vars PROVE Activity'
  BY <1>32 DEF vars
<1>. QED
  BY <1>1, <1>2, <1>3, <1>4, <1>5, <1>6, <1>7, <1>8, <1>9, <1>10, <1>11,
     <1>12, <1>13, <1>14, <1>15, <1>16, <1>17, <1>18, <1>19, <1>20, <1>21,
     <1>22, <1>23, <1>24, <1>25, <1>26, <1>27, <1>28, <1>29, <1>30, <1>31,
     <1>32
     DEF Next, Shell, Commands, Editor, Environment

\* Nobody sets the flags to anything but a truth value.
LEMMA FlagStep ==
    ASSUME foreign \in BOOLEAN, shell \in BOOLEAN, [Next]_vars
    PROVE  foreign' \in BOOLEAN /\ shell' \in BOOLEAN
<1>. USE DEF appVars, taskVars, fileVars
<1>1. ASSUME Start PROVE shell' \in BOOLEAN /\ foreign' = foreign
  BY <1>1, Zenon DEF Start
<1>2. ASSUME StartShell PROVE shell' = shell /\ foreign' = foreign
  BY <1>2, Zenon DEF StartShell
<1>3. ASSUME Loop PROVE shell' = shell /\ foreign' = foreign
  BY <1>3, Zenon DEF Loop
<1>4. ASSUME ReadNothing PROVE shell' = shell /\ foreign' = foreign
  BY <1>4, Zenon DEF ReadNothing
<1>5. ASSUME Dispatch PROVE shell' = shell /\ foreign' = foreign
  BY <1>5, Zenon DEF Dispatch
<1>6. ASSUME DispatchLocal PROVE shell' = shell /\ foreign' = foreign
  BY <1>6, Zenon DEF DispatchLocal
<1>7. ASSUME InitVault PROVE shell' = shell /\ foreign' = FALSE
  BY <1>7, Zenon DEF InitVault
<1>8. ASSUME Unlock PROVE shell' = shell /\ foreign' = foreign
  BY <1>8, Zenon DEF Unlock
<1>9. ASSUME Fail PROVE shell' = shell /\ foreign' = foreign
  BY <1>9, Zenon DEF Fail
<1>10. ASSUME LoadPolicy PROVE shell' = shell /\ foreign' = FALSE
  BY <1>10, Zenon DEF LoadPolicy
<1>11. ASSUME LoadRead PROVE shell' = shell /\ foreign' = foreign
  BY <1>11, Zenon DEF LoadRead
<1>12. ASSUME LoadChange PROVE shell' = shell /\ foreign' = foreign
  BY <1>12, Zenon DEF LoadChange
<1>13. ASSUME LoadReview PROVE shell' = shell /\ foreign' = foreign
  BY <1>13, Zenon DEF LoadReview
<1>14. ASSUME SaveChange PROVE shell' = shell /\ foreign' = foreign
  BY <1>14, Zenon DEF SaveChange, Commit
<1>15. ASSUME LoadSettings PROVE shell' = shell /\ foreign' = FALSE
  BY <1>15, Zenon DEF LoadSettings
<1>16. ASSUME EditGroup PROVE shell' = shell /\ foreign' = foreign
  BY <1>16, Zenon DEF EditGroup, Change
<1>17. ASSUME EditWallets PROVE shell' = shell /\ foreign' = foreign
  BY <1>17, Zenon DEF EditWallets, Change
<1>18. ASSUME EditAliases PROVE shell' = shell /\ foreign' = foreign
  BY <1>18, Zenon DEF EditAliases, Change
<1>19. ASSUME LeaveEditor PROVE shell' = shell /\ foreign' = foreign
  BY <1>19, Zenon DEF LeaveEditor
<1>20. ASSUME Review PROVE shell' = shell /\ foreign' = foreign
  BY <1>20, Zenon DEF Review
<1>21. ASSUME Answer PROVE shell' = shell /\ foreign' = foreign
  BY <1>21, Zenon DEF Answer
<1>22. ASSUME LoadCommit PROVE shell' = shell /\ foreign' = foreign
  BY <1>22, Zenon DEF LoadCommit
<1>23. ASSUME RefuseCommit PROVE shell' = shell /\ foreign' = foreign
  BY <1>23, Zenon DEF RefuseCommit
<1>24. ASSUME SaveDraft PROVE shell' = shell /\ foreign' = FALSE
  BY <1>24, Zenon DEF SaveDraft, Commit
<1>25. ASSUME OtherCommit PROVE shell' = shell /\ foreign' \in BOOLEAN
  BY <1>25, Zenon DEF OtherCommit, Replace
<1>26. ASSUME RemoveFile PROVE shell' = shell /\ foreign' \in BOOLEAN
  BY <1>26, Zenon DEF RemoveFile, Replace
<1>27. ASSUME OtherInit PROVE shell' = shell /\ foreign' \in BOOLEAN
  BY <1>27, Zenon DEF OtherInit, Replace
<1>28. ASSUME Copy PROVE shell' = shell /\ foreign' = foreign
  BY <1>28, Zenon DEF Copy
<1>29. ASSUME Restore PROVE shell' = shell /\ foreign' \in BOOLEAN
  BY <1>29, Zenon DEF Restore, Replace
<1>30. ASSUME Tick PROVE shell' = shell /\ foreign' = foreign
  BY <1>30, Zenon DEF Tick
<1>31. ASSUME Kill PROVE shell' = shell /\ foreign' = foreign
  BY <1>31, Zenon DEF Kill
<1>32. ASSUME UNCHANGED vars PROVE shell' = shell /\ foreign' = foreign
  BY <1>32, Zenon DEF vars
<1>. QED
  BY <1>1, <1>2, <1>3, <1>4, <1>5, <1>6, <1>7, <1>8, <1>9, <1>10, <1>11,
     <1>12, <1>13, <1>14, <1>15, <1>16, <1>17, <1>18, <1>19, <1>20, <1>21,
     <1>22, <1>23, <1>24, <1>25, <1>26, <1>27, <1>28, <1>29, <1>30, <1>31,
     <1>32, Zenon
     DEF Next, Shell, Commands, Editor, Environment

\* Both together.
LEMMA PhaseStep ==
    ASSUME PhaseInv, [Next]_vars
    PROVE  PhaseInv'
<1>1. Activity'
  BY ActivityStep DEF PhaseInv
<1>2. foreign' \in BOOLEAN /\ shell' \in BOOLEAN
  BY FlagStep DEF PhaseInv
<1>. QED
  BY <1>1, <1>2, Zenon DEF PhaseInv

\* The default settings are usable, and so are those other processes save.
LEMMA GivenUsable ==
    /\ Usable(Default)
    /\ \A s \in Foreign : Usable(s)
<1>1. Usable(Default)
  <2>1. Cardinality(DOMAIN Default.aliases) = 0 /\ Len(Default.wallets) = 0
    BY FS_EmptySet DEF Default
  <2>2. Size(Default) <= MaxSize
    BY <2>1 DEF Size
  <2>3. IsConfig(Default)
    BY DEF IsConfig, Default
  <2>. QED
    BY <2>2, <2>3 DEF Usable
<1>2. \A s \in Foreign : Usable(s)
  BY DEF Usable, Decodable
<1>. QED
  BY <1>1, <1>2

\* The fields of the settings.
LEMMA SettingsFields ==
    ASSUME NEW s, IsConfig(s)
    PROVE  DOMAIN s = {"flags", "cluster", "pin", "interval", "wallets",
                       "aliases"}
  BY DEF IsConfig, Default

\* Every entry of the menus leaves settings.
LEMMA FieldsUsable ==
    ASSUME NEW s, Usable(s), NEW t \in FieldEdits(s)
    PROVE  Usable(t)
<1>1. IsConfig(s) /\ Size(t) <= MaxSize /\ t \in FieldSettings(s)
  BY DEF Usable, FieldEdits
<1>2. DOMAIN s = {"flags", "cluster", "pin", "interval", "wallets", "aliases"}
  BY <1>1, SettingsFields
<1>3. CASE \E g \in SUBSET Flags : t = [s EXCEPT !.flags = g]
  BY <1>1, <1>2, <1>3 DEF Usable, IsConfig
<1>4. CASE \E c \in {"built-in", "custom"}, p \in Pins \cup {NoPin} :
              t = [s EXCEPT !.cluster = c, !.pin = p]
  BY <1>1, <1>2, <1>4 DEF Usable, IsConfig
<1>5. CASE \E p \in Pins \cup {NoPin} : t = [s EXCEPT !.pin = p]
  BY <1>1, <1>2, <1>5 DEF Usable, IsConfig
<1>6. CASE \E m \in Intervals \cup {0} : t = [s EXCEPT !.interval = m]
  BY <1>1, <1>2, <1>6 DEF Usable, IsConfig
<1>7. s.flags \in SUBSET Flags
  BY <1>1 DEF IsConfig
<1>. QED
  BY <1>1, <1>3, <1>4, <1>5, <1>6, <1>7 DEF FieldSettings

\* What retain keeps is a list of names.
LEMMA RetainedNames ==
    ASSUME NEW ws \in Seq(WalletNames), NEW name
    PROVE  Retained(ws, name) \in Seq(WalletNames)
<1>. DEFINE len == Len(ws)
            V == Seq(WalletNames)
            apply == [k \in 1..len |->
                        [kept \in V |-> IF ws[k] # name
                                        THEN Append(kept, ws[k]) ELSE kept]]
            Law(g) == g = [s \in SUBSET (1..len) |->
                             IF s = {} THEN <<>>
                             ELSE IF ws[Max(s)] # name
                                  THEN Append(g[s \ {Max(s)}], ws[Max(s)])
                                  ELSE g[s \ {Max(s)}]]
            chosen == CHOOSE g : Law(g)
<1>1. len \in Nat /\ DOMAIN ws = 1..len /\ \A i \in 1..len : ws[i] \in WalletNames
  OBVIOUS
<1>2. Retained(ws, name) = chosen[1..len]
  BY <1>1 DEF Retained, FoldLeft, MapThenFoldSet
<1>3. <<>> \in V
  OBVIOUS
<1>4. ASSUME NEW kept \in V, NEW w \in WalletNames PROVE Append(kept, w) \in V
  OBVIOUS
<1>. HIDE DEF V
<1>5. apply \in [1..len -> [V -> V]]
  BY <1>1, <1>4
<1>6. \A k \in 1..len : \A kept \in V :
         apply[k][kept] = IF ws[k] # name THEN Append(kept, ws[k]) ELSE kept
  OBVIOUS
<1>. HIDE DEF apply, len
<1>7. PICK f \in [SUBSET (1..len) -> V] : IsFold(len, <<>>, apply, f)
  BY <1>1, <1>3, <1>5, FoldExists
<1>8. ASSUME NEW s \in SUBSET (1..len), s # {}
      PROVE  apply[Max(s)][f[s \ {Max(s)}]]
                = IF ws[Max(s)] # name
                  THEN Append(f[s \ {Max(s)}], ws[Max(s)])
                  ELSE f[s \ {Max(s)}]
  <2>1. s \in SUBSET (0..len)
    BY <1>1
  <2>2. Max(s) \in s
    BY <1>1, <1>8, <2>1, Greatest
  <2>3. Max(s) \in 1..len /\ f[s \ {Max(s)}] \in V
    BY <2>2
  <2>. QED
    BY <1>6, <2>3
<1>9. Law(f)
  BY <1>7, <1>8 DEF IsFold
<1>10. Law(chosen)
  <2>. HIDE DEF Law
  <2>. QED
    BY <1>9
<1>. HIDE DEF chosen
<1>11. \A s \in SUBSET (1..len) :
          chosen[s] = IF s = {} THEN <<>>
                      ELSE IF ws[Max(s)] # name
                           THEN Append(chosen[s \ {Max(s)}], ws[Max(s)])
                           ELSE chosen[s \ {Max(s)}]
  BY <1>10
<1>. DEFINE N == {k \in Nat : k <= len => chosen[1..k] \in V}
<1>12. 0 \in N
  <2>1. 1..0 = {}
    OBVIOUS
  <2>. QED
    BY <1>3, <1>11, <2>1
<1>13. ASSUME NEW k \in Nat, k \in N PROVE k + 1 \in N
  <2>1. SUFFICES ASSUME k + 1 <= len PROVE chosen[1..(k + 1)] \in V
    OBVIOUS
  <2>. DEFINE s == 1..(k + 1)
  <2>2. /\ k + 1 \in Nat /\ k + 1 # 0 /\ (k + 1) - 1 = k /\ k + 1 \in 1..len
        /\ s \in SUBSET (1..len) /\ chosen[1..k] \in V
    BY <1>1, <1>13, <2>1
  <2>3. s # {} /\ Max(s) = k + 1 /\ s \ {k + 1} = 1..((k + 1) - 1)
    BY <2>2, FirstPositions
  <2>. HIDE DEF s
  <2>4. chosen[s] = IF ws[k + 1] # name
                    THEN Append(chosen[1..k], ws[k + 1]) ELSE chosen[1..k]
    BY <1>11, <2>2, <2>3
  <2>5. ws[k + 1] \in WalletNames
    BY <1>1, <2>2
  <2>6. chosen[s] \in V
    BY <1>4, <2>2, <2>4, <2>5
  <2>. QED
    BY <2>6 DEF s
<1>14. Nat \subseteq N
  <2>. HIDE DEF N
  <2>. QED
    BY <1>12, <1>13, NumberInduction
<1>15. chosen[1..len] \in V
  BY <1>1, <1>14
<1>. QED
  BY <1>2, <1>15 DEF V

\* The list of wallets stays a list of names,
LEMMA WalletsUsable ==
    ASSUME NEW s, Usable(s), NEW t \in WalletEdits(s), Size(t) <= MaxSize
    PROVE  Usable(t)
<1>1. IsConfig(s)
  BY DEF Usable
<1>2. DOMAIN s = {"flags", "cluster", "pin", "interval", "wallets", "aliases"}
  BY <1>1, SettingsFields
<1>3. s.wallets \in Seq(WalletNames) /\ <<>> \in Seq(WalletNames)
  BY <1>1 DEF IsConfig
<1>4. \A name : Retained(s.wallets, name) \in Seq(WalletNames)
  BY <1>3, RetainedNames
<1>5. \A name \in WalletNames : Append(s.wallets, name) \in Seq(WalletNames)
  BY <1>3
<1>6. PICK ws \in Seq(WalletNames) : t = [s EXCEPT !.wallets = ws]
  BY <1>3, <1>4, <1>5 DEF WalletEdits
<1>7. IsConfig(t)
  BY <1>1, <1>2, <1>6 DEF IsConfig
<1>. QED
  BY <1>7 DEF Usable

\* and the aliases stand for commands.
LEMMA AliasesUsable ==
    ASSUME NEW s, Usable(s), NEW t \in AliasEdits(s)
    PROVE  Usable(t)
<1>1. IsConfig(s) /\ Size(t) <= MaxSize
  BY DEF Usable, AliasEdits
<1>2. DOMAIN s = {"flags", "cluster", "pin", "interval", "wallets", "aliases"}
  BY <1>1, SettingsFields
<1>3. CASE \E a \in AliasNames : t = WithoutAlias(s, a)
  <2>1. PICK a \in AliasNames :
          t = [s EXCEPT !.aliases =
                 [b \in DOMAIN s.aliases \ {a} |-> s.aliases[b]]]
    BY <1>2, <1>3 DEF WithoutAlias
  <2>2. IsConfig(t)
    BY <1>1, <1>2, <2>1 DEF IsConfig
  <2>. QED
    BY <1>1, <2>2 DEF Usable
<1>4. CASE \E a \in AliasNames, w \in Targets : t = WithAlias(s, a, w)
  <2>1. PICK a \in AliasNames, w \in Targets :
          t = [s EXCEPT !.aliases =
                 [b \in DOMAIN s.aliases \cup {a} |->
                    IF b = a THEN w ELSE s.aliases[b]]]
    BY <1>2, <1>4 DEF WithAlias
  <2>2. IsConfig(t)
    BY <1>1, <1>2, <2>1 DEF IsConfig
  <2>. QED
    BY <1>1, <2>2 DEF Usable
<1>. QED
  BY <1>3, <1>4 DEF AliasEdits

\* Settings that are kept, edited or saved stay usable.
LEMMA SettingsStep ==
    ASSUME SettingsInv, [Next]_vars
    PROVE  SettingsInv'
<1>. USE DEF appVars, taskVars, fileVars
<1>1. ASSUME Start PROVE SettingsInv'
  <2>1. SettingsInUse' \subseteq SettingsInUse
    BY <1>1 DEF Start, Begin, NoFile, SettingsInUse
  <2>. QED
    BY <2>1 DEF SettingsInv
<1>2. ASSUME StartShell PROVE SettingsInv'
  <2>1. SettingsInUse' \subseteq SettingsInUse
    BY <1>2 DEF StartShell, TryRefresh, Begin, GoTo, KeyAfter, NoFile,
                SettingsInUse
  <2>. QED
    BY <2>1 DEF SettingsInv
<1>3. ASSUME Loop PROVE SettingsInv'
  <2>1. SettingsInUse' \subseteq SettingsInUse
    BY <1>3 DEF Loop, TryRefresh, Begin, GoTo, KeyAfter, RefreshDue, NoFile,
                SettingsInUse
  <2>. QED
    BY <2>1 DEF SettingsInv
<1>4. ASSUME ReadNothing PROVE SettingsInv'
  <2>1. SettingsInUse' \subseteq SettingsInUse
    BY <1>4 DEF ReadNothing, SettingsInUse
  <2>. QED
    BY <2>1 DEF SettingsInv
<1>5. ASSUME Dispatch PROVE SettingsInv'
  <2>1. SettingsInUse' \subseteq SettingsInUse
    BY <1>5 DEF Dispatch, AtInput, Begin, NoFile, SettingsInUse
  <2>. QED
    BY <2>1 DEF SettingsInv
<1>6. ASSUME DispatchLocal PROVE SettingsInv'
  <2>1. SettingsInUse' \subseteq SettingsInUse
    BY <1>6 DEF DispatchLocal, AtInput, GoTo, KeyAfter, NoFile, SettingsInUse
  <2>. QED
    BY <2>1 DEF SettingsInv
<1>7. ASSUME InitVault PROVE SettingsInv'
  <2>1. SettingsInUse' \subseteq SettingsInUse
    BY <1>7 DEF InitVault, AtInput, GoTo, KeyAfter, Released, NoFile,
                SettingsInUse
  <2>. QED
    BY <2>1 DEF SettingsInv
<1>8. ASSUME Unlock PROVE SettingsInv'
  <2>1. SettingsInUse' \subseteq SettingsInUse
    BY <1>8 DEF Unlock, SettingsInUse
  <2>. QED
    BY <2>1 DEF SettingsInv
<1>9. ASSUME Fail PROVE SettingsInv'
  <2>1. SettingsInUse' \subseteq SettingsInUse
    BY <1>9 DEF Fail, Releasing, End, GoTo, After, KeyAfter, Released,
                NoFile, SettingsInUse
  <2>. QED
    BY <2>1 DEF SettingsInv
<1>10. ASSUME LoadPolicy PROVE SettingsInv'
  <2>1. SettingsInUse' \subseteq SettingsInUse
    BY <1>10 DEF LoadPolicy, Loadable, GoTo, KeyAfter, Released, NoFile,
                 SettingsInUse
  <2>. QED
    BY <2>1 DEF SettingsInv
<1>11. ASSUME LoadRead PROVE SettingsInv'
  <2>1. SettingsInUse' \subseteq SettingsInUse
    BY <1>11 DEF LoadRead, Loadable, End, GoTo, After, KeyAfter, Released,
                 NoFile, SettingsInUse
  <2>. QED
    BY <2>1 DEF SettingsInv
<1>12. ASSUME LoadChange PROVE SettingsInv'
  <2>1. SettingsInUse' \subseteq SettingsInUse
    BY <1>12 DEF LoadChange, Loadable, SettingsInUse
  <2>. QED
    BY <2>1 DEF SettingsInv
<1>13. ASSUME LoadReview PROVE SettingsInv'
  <2>1. SettingsInUse' \subseteq SettingsInUse
    BY <1>13 DEF LoadReview, Loadable, Released, SettingsInUse
  <2>. QED
    BY <2>1 DEF SettingsInv
<1>14. ASSUME SaveChange PROVE SettingsInv'
  <2>1. SettingsInUse' \subseteq SettingsInUse
    BY <1>14 DEF SaveChange, Commit, End, GoTo, After, KeyAfter, Released,
                 NoFile, SettingsInUse
  <2>. QED
    BY <2>1 DEF SettingsInv
<1>15. ASSUME LoadSettings PROVE SettingsInv'
  <2>1. SettingsInUse' \subseteq SettingsInUse
    BY <1>15 DEF LoadSettings, Loadable, End, GoTo, After, KeyAfter,
                 Released, NoFile, SettingsInUse
  <2>. QED
    BY <2>1 DEF SettingsInv
<1>16. ASSUME EditGroup PROVE SettingsInv'
  <2>1. PICK s \in FieldEdits(draft) :
          SettingsInUse' \subseteq SettingsInUse \cup {s}
    BY <1>16 DEF EditGroup, Change, SettingsInUse
  <2>2. Usable(draft)
    BY DEF SettingsInv, SettingsInUse
  <2>3. Usable(s)
    BY <2>2, FieldsUsable
  <2>. QED
    BY <2>1, <2>3 DEF SettingsInv
<1>17. ASSUME EditWallets PROVE SettingsInv'
  <2>1. PICK s \in WalletEdits(draft) :
          /\ Size(s) <= MaxSize
          /\ SettingsInUse' \subseteq SettingsInUse \cup {s}
    BY <1>17 DEF EditWallets, Change, SettingsInUse
  <2>2. Usable(draft)
    BY DEF SettingsInv, SettingsInUse
  <2>3. Usable(s)
    BY <2>1, <2>2, WalletsUsable
  <2>. QED
    BY <2>1, <2>3 DEF SettingsInv
<1>18. ASSUME EditAliases PROVE SettingsInv'
  <2>1. PICK s \in AliasEdits(draft) :
          SettingsInUse' \subseteq SettingsInUse \cup {s}
    BY <1>18 DEF EditAliases, Change, SettingsInUse
  <2>2. Usable(draft)
    BY DEF SettingsInv, SettingsInUse
  <2>3. Usable(s)
    BY <2>2, AliasesUsable
  <2>. QED
    BY <2>1, <2>3 DEF SettingsInv
<1>19. ASSUME LeaveEditor PROVE SettingsInv'
  <2>1. SettingsInUse' \subseteq SettingsInUse
    BY <1>19 DEF LeaveEditor, End, GoTo, After, KeyAfter, Released, NoFile,
                 SettingsInUse
  <2>. QED
    BY <2>1 DEF SettingsInv
<1>20. ASSUME Review PROVE SettingsInv'
  <2>1. SettingsInUse' \subseteq SettingsInUse
    BY <1>20 DEF Review, Savable, SettingsInUse
  <2>. QED
    BY <2>1 DEF SettingsInv
<1>21. ASSUME Answer PROVE SettingsInv'
  <2>1. SettingsInUse' \subseteq SettingsInUse
    BY <1>21 DEF Answer, SettingsInUse
  <2>. QED
    BY <2>1 DEF SettingsInv
<1>22. ASSUME LoadCommit PROVE SettingsInv'
  <2>1. SettingsInUse' \subseteq SettingsInUse
    BY <1>22 DEF LoadCommit, Loadable, Reviewed, SettingsInUse
  <2>. QED
    BY <2>1 DEF SettingsInv
<1>23. ASSUME RefuseCommit PROVE SettingsInv'
  <2>1. SettingsInUse' \subseteq SettingsInUse
    BY <1>23 DEF RefuseCommit, Loadable, End, GoTo, After, KeyAfter,
                 Released, NoFile, SettingsInUse
  <2>. QED
    BY <2>1 DEF SettingsInv
<1>24. ASSUME SaveDraft PROVE SettingsInv'
  <2>1. SettingsInUse' \subseteq SettingsInUse
    BY <1>24 DEF SaveDraft, Commit, Adopted, End, GoTo, After, KeyAfter,
                 Released, NoFile, SettingsInUse
  <2>. QED
    BY <2>1 DEF SettingsInv
<1>25. ASSUME OtherCommit PROVE SettingsInv'
  <2>1. PICK s \in Foreign \cup {file.settings} :
          SettingsInUse' \subseteq SettingsInUse \cup {s}
    BY <1>25 DEF OtherCommit, Replace, SettingsInUse
  <2>2. Usable(s)
    BY GivenUsable DEF SettingsInv, SettingsInUse
  <2>. QED
    BY <2>1, <2>2 DEF SettingsInv
<1>26. ASSUME RemoveFile PROVE SettingsInv'
  <2>1. SettingsInUse' \subseteq SettingsInUse
    BY <1>26 DEF RemoveFile, Replace, NoFile, SettingsInUse
  <2>. QED
    BY <2>1 DEF SettingsInv
<1>27. ASSUME OtherInit PROVE SettingsInv'
  <2>1. SettingsInUse' \subseteq SettingsInUse
    BY <1>27 DEF OtherInit, Replace, SettingsInUse
  <2>. QED
    BY <2>1 DEF SettingsInv
<1>28. ASSUME Copy PROVE SettingsInv'
  <2>1. SettingsInUse' \subseteq SettingsInUse
    BY <1>28 DEF Copy, SettingsInUse
  <2>. QED
    BY <2>1 DEF SettingsInv
<1>29. ASSUME Restore PROVE SettingsInv'
  <2>1. SettingsInUse' \subseteq SettingsInUse
    BY <1>29 DEF Restore, Replace, SettingsInUse
  <2>. QED
    BY <2>1 DEF SettingsInv
<1>30. ASSUME Tick PROVE SettingsInv'
  <2>1. SettingsInUse' \subseteq SettingsInUse
    BY <1>30 DEF Tick, SettingsInUse
  <2>. QED
    BY <2>1 DEF SettingsInv
<1>31. ASSUME Kill PROVE SettingsInv'
  <2>1. SettingsInUse' \subseteq SettingsInUse
    BY <1>31 DEF Kill, GoTo, KeyAfter, NoFile, SettingsInUse
  <2>. QED
    BY <2>1 DEF SettingsInv
<1>32. ASSUME UNCHANGED vars PROVE SettingsInv'
  <2>1. SettingsInUse' \subseteq SettingsInUse
    BY <1>32 DEF vars, SettingsInUse
  <2>. QED
    BY <2>1 DEF SettingsInv
<1>. QED
  BY <1>1, <1>2, <1>3, <1>4, <1>5, <1>6, <1>7, <1>8, <1>9, <1>10, <1>11,
     <1>12, <1>13, <1>14, <1>15, <1>16, <1>17, <1>18, <1>19, <1>20, <1>21,
     <1>22, <1>23, <1>24, <1>25, <1>26, <1>27, <1>28, <1>29, <1>30, <1>31,
     <1>32
     DEF Next, Shell, Commands, Editor, Environment

\* The default settings can be saved and loaded.
LEMMA GivenDecodable ==
    /\ Decodable(Default)
    /\ \A s \in Foreign : Decodable(s)
<1>1. Cardinality(DOMAIN Default.aliases) = 0 /\ Len(Default.wallets) = 0
  BY FS_EmptySet DEF Default
<1>2. Default.interval = 0 /\ GenesisKnown(Default)
  BY DEF Default, GenesisKnown
<1>3. Decodable(Default)
  BY <1>1, <1>2 DEF Decodable, Valid, Size
<1>. QED
  BY <1>3

\* Only settings that decode accepts are saved.
LEMMA SavedStep ==
    ASSUME SaveInv, SavedInv, [Next]_vars
    PROVE  SavedInv'
<1>. USE DEF appVars, taskVars, fileVars
<1>1. ASSUME Start PROVE SavedInv'
  <2>1. SettingsSaved' \subseteq SettingsSaved
    BY <1>1 DEF Start, Begin, NoFile, SettingsSaved
  <2>. QED
    BY <2>1 DEF SavedInv
<1>2. ASSUME StartShell PROVE SavedInv'
  <2>1. SettingsSaved' \subseteq SettingsSaved
    BY <1>2 DEF StartShell, TryRefresh, Begin, GoTo, KeyAfter, NoFile,
                SettingsSaved
  <2>. QED
    BY <2>1 DEF SavedInv
<1>3. ASSUME Loop PROVE SavedInv'
  <2>1. SettingsSaved' \subseteq SettingsSaved
    BY <1>3 DEF Loop, TryRefresh, Begin, GoTo, KeyAfter, RefreshDue, NoFile,
                SettingsSaved
  <2>. QED
    BY <2>1 DEF SavedInv
<1>4. ASSUME ReadNothing PROVE SavedInv'
  <2>1. SettingsSaved' \subseteq SettingsSaved
    BY <1>4 DEF ReadNothing, SettingsSaved
  <2>. QED
    BY <2>1 DEF SavedInv
<1>5. ASSUME Dispatch PROVE SavedInv'
  <2>1. SettingsSaved' \subseteq SettingsSaved
    BY <1>5 DEF Dispatch, AtInput, Begin, NoFile, SettingsSaved
  <2>. QED
    BY <2>1 DEF SavedInv
<1>6. ASSUME DispatchLocal PROVE SavedInv'
  <2>1. SettingsSaved' \subseteq SettingsSaved
    BY <1>6 DEF DispatchLocal, AtInput, GoTo, KeyAfter, NoFile, SettingsSaved
  <2>. QED
    BY <2>1 DEF SavedInv
<1>7. ASSUME InitVault PROVE SavedInv'
  <2>1. SettingsSaved' \subseteq SettingsSaved
    BY <1>7 DEF InitVault, AtInput, GoTo, KeyAfter, Released, NoFile,
                SettingsSaved
  <2>. QED
    BY <2>1 DEF SavedInv
<1>8. ASSUME Unlock PROVE SavedInv'
  <2>1. SettingsSaved' \subseteq SettingsSaved
    BY <1>8 DEF Unlock, SettingsSaved
  <2>. QED
    BY <2>1 DEF SavedInv
<1>9. ASSUME Fail PROVE SavedInv'
  <2>1. SettingsSaved' \subseteq SettingsSaved
    BY <1>9 DEF Fail, Releasing, End, GoTo, After, KeyAfter, Released,
                NoFile, SettingsSaved
  <2>. QED
    BY <2>1 DEF SavedInv
<1>10. ASSUME LoadPolicy PROVE SavedInv'
  <2>1. SettingsSaved' \subseteq SettingsSaved
    BY <1>10 DEF LoadPolicy, Loadable, GoTo, KeyAfter, Released, NoFile,
                 SettingsSaved
  <2>. QED
    BY <2>1 DEF SavedInv
<1>11. ASSUME LoadRead PROVE SavedInv'
  <2>1. SettingsSaved' \subseteq SettingsSaved
    BY <1>11 DEF LoadRead, Loadable, End, GoTo, After, KeyAfter, Released,
                 NoFile, SettingsSaved
  <2>. QED
    BY <2>1 DEF SavedInv
<1>12. ASSUME LoadChange PROVE SavedInv'
  <2>1. SettingsSaved' \subseteq SettingsSaved
    BY <1>12 DEF LoadChange, Loadable, SettingsSaved
  <2>. QED
    BY <2>1 DEF SavedInv
<1>13. ASSUME LoadReview PROVE SavedInv'
  <2>1. SettingsSaved' \subseteq SettingsSaved
    BY <1>13 DEF LoadReview, Loadable, Released, SettingsSaved
  <2>. QED
    BY <2>1 DEF SavedInv
<1>14. ASSUME SaveChange PROVE SavedInv'
  <2>1. SettingsSaved' \subseteq SettingsSaved
    BY <1>14 DEF SaveChange, Commit, End, GoTo, After, KeyAfter, Released,
                 NoFile, SettingsSaved
  <2>. QED
    BY <2>1 DEF SavedInv
<1>15. ASSUME LoadSettings PROVE SavedInv'
  <2>1. SettingsSaved' \subseteq SettingsSaved
    BY <1>15 DEF LoadSettings, Loadable, End, GoTo, After, KeyAfter,
                 Released, NoFile, SettingsSaved
  <2>. QED
    BY <2>1 DEF SavedInv
<1>16. ASSUME EditGroup PROVE SavedInv'
  <2>1. SettingsSaved' \subseteq SettingsSaved
    BY <1>16 DEF EditGroup, Change, SettingsSaved
  <2>. QED
    BY <2>1 DEF SavedInv
<1>17. ASSUME EditWallets PROVE SavedInv'
  <2>1. SettingsSaved' \subseteq SettingsSaved
    BY <1>17 DEF EditWallets, Change, SettingsSaved
  <2>. QED
    BY <2>1 DEF SavedInv
<1>18. ASSUME EditAliases PROVE SavedInv'
  <2>1. SettingsSaved' \subseteq SettingsSaved
    BY <1>18 DEF EditAliases, Change, SettingsSaved
  <2>. QED
    BY <2>1 DEF SavedInv
<1>19. ASSUME LeaveEditor PROVE SavedInv'
  <2>1. SettingsSaved' \subseteq SettingsSaved
    BY <1>19 DEF LeaveEditor, End, GoTo, After, KeyAfter, Released, NoFile,
                 SettingsSaved
  <2>. QED
    BY <2>1 DEF SavedInv
<1>20. ASSUME Review PROVE SavedInv'
  <2>1. SettingsSaved' \subseteq SettingsSaved
    BY <1>20 DEF Review, Savable, SettingsSaved
  <2>. QED
    BY <2>1 DEF SavedInv
<1>21. ASSUME Answer PROVE SavedInv'
  <2>1. SettingsSaved' \subseteq SettingsSaved
    BY <1>21 DEF Answer, SettingsSaved
  <2>. QED
    BY <2>1 DEF SavedInv
<1>22. ASSUME LoadCommit PROVE SavedInv'
  <2>1. SettingsSaved' \subseteq SettingsSaved
    BY <1>22 DEF LoadCommit, Loadable, Reviewed, SettingsSaved
  <2>. QED
    BY <2>1 DEF SavedInv
<1>23. ASSUME RefuseCommit PROVE SavedInv'
  <2>1. SettingsSaved' \subseteq SettingsSaved
    BY <1>23 DEF RefuseCommit, Loadable, End, GoTo, After, KeyAfter,
                 Released, NoFile, SettingsSaved
  <2>. QED
    BY <2>1 DEF SavedInv
<1>24. ASSUME SaveDraft PROVE SavedInv'
  <2>1. SettingsSaved' \subseteq SettingsSaved \cup {draft}
    BY <1>24 DEF SaveDraft, Commit, Adopted, End, GoTo, NoFile, SettingsSaved
  <2>2. Decodable(draft)
    BY <1>24 DEF SaveDraft, SaveInv
  <2>. QED
    BY <2>1, <2>2 DEF SavedInv
<1>25. ASSUME OtherCommit PROVE SavedInv'
  <2>1. PICK s \in Foreign \cup {file.settings} :
          SettingsSaved' \subseteq SettingsSaved \cup {s}
    BY <1>25 DEF OtherCommit, Replace, SettingsSaved
  <2>2. Decodable(s)
    BY GivenDecodable DEF SavedInv, SettingsSaved
  <2>. QED
    BY <2>1, <2>2 DEF SavedInv
<1>26. ASSUME RemoveFile PROVE SavedInv'
  <2>1. SettingsSaved' \subseteq SettingsSaved
    BY <1>26 DEF RemoveFile, Replace, NoFile, SettingsSaved
  <2>. QED
    BY <2>1 DEF SavedInv
<1>27. ASSUME OtherInit PROVE SavedInv'
  <2>1. SettingsSaved' \subseteq SettingsSaved
    BY <1>27 DEF OtherInit, Replace, SettingsSaved
  <2>. QED
    BY <2>1 DEF SavedInv
<1>28. ASSUME Copy PROVE SavedInv'
  <2>1. SettingsSaved' \subseteq SettingsSaved
    BY <1>28 DEF Copy, SettingsSaved
  <2>. QED
    BY <2>1 DEF SavedInv
<1>29. ASSUME Restore PROVE SavedInv'
  <2>1. SettingsSaved' \subseteq SettingsSaved
    BY <1>29 DEF Restore, Replace, SettingsSaved
  <2>. QED
    BY <2>1 DEF SavedInv
<1>30. ASSUME Tick PROVE SavedInv'
  <2>1. SettingsSaved' \subseteq SettingsSaved
    BY <1>30 DEF Tick, SettingsSaved
  <2>. QED
    BY <2>1 DEF SavedInv
<1>31. ASSUME Kill PROVE SavedInv'
  <2>1. SettingsSaved' \subseteq SettingsSaved
    BY <1>31 DEF Kill, GoTo, KeyAfter, NoFile, SettingsSaved
  <2>. QED
    BY <2>1 DEF SavedInv
<1>32. ASSUME UNCHANGED vars PROVE SavedInv'
  <2>1. SettingsSaved' \subseteq SettingsSaved
    BY <1>32 DEF vars, SettingsSaved
  <2>. QED
    BY <2>1 DEF SavedInv
<1>. QED
  BY <1>1, <1>2, <1>3, <1>4, <1>5, <1>6, <1>7, <1>8, <1>9, <1>10, <1>11,
     <1>12, <1>13, <1>14, <1>15, <1>16, <1>17, <1>18, <1>19, <1>20, <1>21,
     <1>22, <1>23, <1>24, <1>25, <1>26, <1>27, <1>28, <1>29, <1>30, <1>31,
     <1>32
     DEF Next, Shell, Commands, Editor, Environment

-----------------------------------------------------------------------------
\* The invariant holds for a new vault.
LEMMA InitSessionInv == Init => SessionInv
<1>. SUFFICES ASSUME Init PROVE SessionInv
  OBVIOUS
<1>. USE DEF Init
<1>1. RevInv
  BY DEF RevInv, Files, NoFile
<1>2. SettingsInv
  BY GivenUsable DEF SettingsInv, SettingsInUse, NoFile
<1>3. SavedInv
  BY GivenDecodable DEF SavedInv, SettingsSaved, NoFile
<1>4. KeyInv /\ PolicyInv
  BY DEF KeyInv, MayKeep, PolicyInv, Unread
<1>5. SaveInv /\ TimeInv
  BY DEF SaveInv, TimeInv
<1>6. BoundInv
  BY SessionAssumption DEF BoundInv, Files, NoFile, NoKey
<1>7. Activity
  BY SessionAssumption DEF Activity, Tasks, Steps
<1>8. foreign \in BOOLEAN /\ shell \in BOOLEAN
  BY Zenon
<1>9. PhaseInv
  BY <1>7, <1>8, Zenon DEF PhaseInv
<1>. QED
  BY <1>1, <1>2, <1>3, <1>4, <1>5, <1>6, <1>9 DEF SessionInv

\* The invariant is inductive.
LEMMA NextSessionInv == SessionInv /\ [Next]_vars => SessionInv'
  BY RevStep, SettingsStep, SavedStep, KeyStep, PolicyStep, SaveStep,
     TimeStep, BoundStep, PhaseStep
     DEF SessionInv

\* The invariant holds in every state that can be reached.
THEOREM SessionInvariant == Spec => []SessionInv
  BY InitSessionInv, NextSessionInv, PTL DEF Spec

\* Every variable has its type; whatever is in the file or in memory to be
\* written there is accepted by decode, and a draft keeps within the size.
THEOREM TypeCorrect == Spec => []TypeOK
<1>1. SessionInv => TypeOK
  <2>1. SUFFICES ASSUME SessionInv PROVE TypeOK
    OBVIOUS
  <2>2. \A s \in {policy, file.settings, backup.settings, held.settings,
                  orig.settings} : IsConfig(s) /\ Decodable(s)
    BY <2>1 DEF SessionInv, SettingsInv, SettingsInUse, Usable, SavedInv,
                SettingsSaved
  <2>3. IsConfig(draft) /\ Size(draft) <= MaxSize
    BY <2>1 DEF SessionInv, SettingsInv, SettingsInUse, Usable
  <2>4. IsFile(file) /\ IsFile(backup) /\ IsFile(held) /\ IsFile(orig)
    BY <2>1, <2>2 DEF SessionInv, BoundInv, Files, IsFile
  <2>. QED
    BY <2>1, <2>2, <2>3, <2>4
       DEF SessionInv, BoundInv, PhaseInv, Activity, TimeInv, TypeOK
<1>. QED
  BY <1>1, SessionInvariant, PTL

\* Between commands the process works by the settings in the file, unless
\* others have changed them: LoadSettings, SaveDraft and init see to that.
THEOREM PolicyIsCurrent == Spec => []PolicyMatchesFile
<1>1. SessionInv => PolicyMatchesFile
  BY DEF SessionInv, KeyInv, PolicyInv, PolicyMatchesFile, AtInput, Unread
<1>. QED
  BY <1>1, SessionInvariant, PTL

\* with_session and release_session leave a key only to a shell that caches,
\* however the command has ended.
THEOREM KeyKeptOnlyIfCaching == Spec => []KeyOnlyIfCaching
<1>1. SessionInv => KeyOnlyIfCaching
  BY DEF SessionInv, KeyInv, MayKeep, KeyOnlyIfCaching
<1>. QED
  BY <1>1, SessionInvariant, PTL

\* Whatever is saved, restored or put there by others, decode accepts the
\* settings in the file: the editor cannot make a vault that no command
\* opens again.
THEOREM FileStaysDecodable == Spec => []Decodable(file.settings)
<1>1. SessionInv => Decodable(file.settings)
  BY DEF SessionInv, SavedInv, SettingsSaved
<1>. QED
  BY <1>1, SessionInvariant, PTL

\* One step that saves: the salt stays, and the editor replaces what it has
\* shown.
LEMMA SaveReplacesReviewed ==
    ASSUME SessionInv, [Next]_vars,
           step = "save", step' # step, revs' # revs
    PROVE  /\ file'.salt = file.salt
           /\ task = "commit" =>
                 /\ file.settings = orig.settings
                 /\ file'.settings = draft /\ Valid(draft)
<1>. USE DEF fileVars, appVars, taskVars
<1>1. SaveChange \/ SaveDraft
  BY DEF Next, Shell, Commands, Editor, Environment, vars, Start, StartShell,
     Loop, ReadNothing, Dispatch, DispatchLocal, InitVault, Unlock, Fail,
     LoadPolicy, LoadRead, LoadChange, LoadReview, LoadSettings, EditGroup,
     EditWallets, EditAliases, Change, LeaveEditor, Review, Answer,
     LoadCommit, RefuseCommit, OtherCommit, RemoveFile, OtherInit, Copy, Restore,
     Replace, Tick, Kill, AtInput
<1>2. file = held /\ file'.salt = session /\ session = held.salt
  BY <1>1, SameRevision DEF SaveChange, SaveDraft, Commit, SessionInv, SaveInv
<1>3. ASSUME task = "commit"
      PROVE  /\ file.settings = orig.settings
             /\ file'.settings = draft /\ Valid(draft)
  BY <1>1, <1>2, <1>3 DEF SaveChange, SaveDraft, Commit, SessionInv, SaveInv,
                          Decodable
<1>. QED
  BY <1>2, <1>3

\* commit in settings.rs replaces the settings of the review by the draft of
\* the review, and no save of this process changes the salt.
THEOREM EditorReplacesReviewed == Spec => ReviewedAgainstFile
<1>1. SessionInv /\ [Next]_vars =>
        [step = "save" /\ step' # step /\ revs' # revs =>
          /\ file'.salt = file.salt
          /\ task = "commit" =>
                /\ file.settings = orig.settings
                /\ file'.settings = draft /\ Valid(draft)]_vars
  BY SaveReplacesReviewed
<1>. QED
  BY <1>1, SessionInvariant, PTL DEF Spec, ReviewedAgainstFile

\* A refresh begins in Loop only, when one is due.
LEMMA RefreshBegins ==
    ASSUME SessionInv, [Next]_vars, task' = "refresh", task # "refresh"
    PROVE  since >= policy.interval
<1>. USE DEF fileVars, appVars, taskVars
<1>1. ~Dispatch
  BY DispatchedTask DEF SessionInv
<1>2. Loop
  BY <1>1 DEF Next, Shell, Commands, Editor, Environment, vars, Start,
     StartShell, TryRefresh, Begin, GoTo, End, ReadNothing, DispatchLocal,
     InitVault, Unlock, Fail, LoadPolicy, LoadRead, LoadChange, LoadReview,
     SaveChange, Commit, LoadSettings, EditGroup, EditWallets, EditAliases,
     Change, LeaveEditor, Review, Answer, LoadCommit, RefuseCommit, SaveDraft,
     OtherCommit, RemoveFile, OtherInit, Copy, Restore, Replace, Tick, Kill
<1>3. age >= policy.interval
  BY <1>2 DEF Loop, GoTo, RefreshDue
<1>4. policy.interval \in Nat
  <2>1. Usable(policy)
    BY DEF SessionInv, SettingsInv, SettingsInUse
  <2>2. policy.interval \in Intervals \cup {0}
    BY <2>1 DEF Usable, IsConfig
  <2>3. Intervals \subseteq Nat
    OBVIOUS
  <2>4. 0 \in Nat
    OBVIOUS
  <2>. QED
    BY <2>2, <2>3, <2>4, Zenon
<1>. QED
  BY <1>3, <1>4 DEF SessionInv, TimeInv

\* shell tries no refresh before the interval in force is over, whether the
\* last one has failed or not.
THEOREM RefreshesKeepApart == Spec => RefreshesApart
<1>1. SessionInv /\ [Next]_vars =>
        [task' = "refresh" /\ task # "refresh" =>
          since >= policy.interval]_vars
  BY RefreshBegins
<1>. QED
  BY <1>1, SessionInvariant, PTL DEF Spec, RefreshesApart

=============================================================================
