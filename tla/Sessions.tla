------------------------------- MODULE Sessions -----------------------------
(***************************************************************************)
(* App of one solx process (src/src/main.rs): the cached unlocking key,    *)
(* the policy it works by, the shell loop with its history refresh, and    *)
(* the settings editor (src/src/settings.rs).                              *)
(*                                                                         *)
(* Every command goes through the same steps, between which other          *)
(* processes change the vault file, put back an older copy of it, or       *)
(* remove it and create another one with another salt:                     *)
(*                                                                         *)
(*   unlock (Session::open, if there is no key) -> load -> ... -> save     *)
(*                                                                         *)
(* save itself is the compare-and-swap of AtomicVault: it fails, commits,  *)
(* or commits and reports an error.  A salt is named by the revision that  *)
(* was created with it, and a key by its salt.                             *)
(***************************************************************************)
EXTENDS Settings

CONSTANTS
    Foreign,      \* the settings other processes save
    MaxRev,       \* bound on the number of revisions of the vault
    MaxChanges,   \* bound on the changes to a draft
    MaxAge        \* the longest time that is told apart

\* The tasks that are no commands have names of their own.
ASSUME SessionAssumption ==
    /\ \A s \in Foreign : IsConfig(s) /\ Decodable(s)
    /\ {"lock", "init", "config", "show", "read", "change"} \subseteq Words
    /\ {"policy", "fetch", "refresh", "commit"} \cap (Words \cup AliasNames) = {}
    /\ MaxRev \in Nat \ {0} /\ MaxChanges \in Nat /\ MaxAge \in Nat
    /\ \A n \in Intervals : n <= MaxAge

VARIABLES
    file,      \* the vault file: revision, salt and settings
    backup,    \* an older copy of it
    revs,      \* the number of revisions written so far
    foreign,   \* others have changed the settings in the file since this
               \* process took its policy from there or put it there
    shell,     \* App.shell
    policy,    \* App.config
    session,   \* App.session, as the salt of its key
    age,       \* the time since App.last_history, MaxAge for None
    since,     \* the time since this process last tried a refresh
    task,      \* what the process is doing
    step,      \* how far it has come
    held,      \* the vault it has loaded to save it again
    orig,      \* the vault the editor has read
    draft,     \* the settings being edited
    changes    \* how often the draft was changed

appVars == <<shell, policy, session, age, since>>
taskVars == <<task, step, held, orig, draft, changes>>
fileVars == <<file, backup, revs, foreign>>
vars == <<fileVars, appVars, taskVars>>

NoKey == 0
NoFile == [rev |-> 0, salt |-> 0, settings |-> Default]

Tasks == {"none", "policy", "fetch", "refresh", "read", "change", "show",
          "config", "commit"}
Steps == {"off", "started", "top", "prompt", "ready", "unlock", "load",
          "save", "edit", "review"}

IsFile(f) ==
    /\ f.rev \in 0..MaxRev /\ f.salt \in 0..MaxRev
    /\ IsConfig(f.settings) /\ Decodable(f.settings)

\* Every variable has its type; the file always holds settings that decode
\* accepts, as otherwise no command could open the vault again.
TypeOK ==
    /\ IsFile(file) /\ IsFile(backup) /\ IsFile(held) /\ IsFile(orig)
    /\ revs \in 0..MaxRev /\ foreign \in BOOLEAN /\ shell \in BOOLEAN
    /\ IsConfig(policy) /\ Decodable(policy)
    /\ IsConfig(draft) /\ Size(draft) <= MaxSize
    /\ session \in 0..MaxRev
    /\ age \in 0..MaxAge /\ since \in 0..MaxAge
    /\ task \in Tasks /\ step \in Steps /\ changes \in 0..MaxChanges

\* A vault that has just been created.
Init ==
    /\ file = [rev |-> 1, salt |-> 1, settings |-> Default]
    /\ backup = file /\ revs = 1 /\ foreign = FALSE
    /\ shell = FALSE /\ policy = Default /\ session = NoKey
    /\ age = MaxAge /\ since = MaxAge
    /\ task = "none" /\ step = "off"
    /\ held = NoFile /\ orig = NoFile /\ draft = Default /\ changes = 0

-----------------------------------------------------------------------------
(* How a task begins and ends.                                             *)

AtInput == step \in {"prompt", "ready"}

Begin(t) ==
    /\ task' = t /\ step' = "unlock"
    /\ held' = NoFile /\ orig' = NoFile /\ draft' = Default /\ changes' = 0

\* release_session, given the policy in force.
Released(p, key) == IF shell /\ Caches(p) THEN key ELSE NoKey

\* Mutation of KeyAfter: with_session returns early with the error.
KeyAfterSuccess(result, p, key) ==
    IF result = "error" \/ Caches(p) THEN key ELSE NoKey

\* with_session: what is left of the key after a command or a refresh.
KeyAfter(result, p, key) == IF Caches(p) THEN key ELSE NoKey

\* The process goes back to its loop, or is over, and App with it.
GoTo(next, result, p, key) ==
    /\ task' = "none" /\ step' = next
    /\ session' = IF next = "off" THEN NoKey ELSE KeyAfter(result, p, key)
    /\ held' = NoFile /\ orig' = NoFile /\ draft' = Default /\ changes' = 0

\* What follows a task: a refresh at start, one in the loop, a command.
After(t) == CASE t = "policy"  -> "off"
              [] t = "fetch"   -> "top"
              [] t = "refresh" -> "prompt"
              [] OTHER         -> IF shell THEN "top" ELSE "off"

End(result, p, key) == GoTo(After(task), result, p, key)

\* The tasks that release the key themselves, on errors too: public_vault
\* and run_with_io.
Releasing == {"fetch", "refresh", "read", "show", "config", "commit"}

\* An error of any call leaves the task; nothing has been written.
Fail ==
    /\ step \in {"unlock", "load", "save"}
    /\ End("error", policy,
           IF task \in Releasing THEN Released(policy, session) ELSE session)
    /\ UNCHANGED <<fileVars, shell, policy, age, since>>

-----------------------------------------------------------------------------
(* run and shell.                                                          *)

\* run: a shell or a single command.  Only config does without the policy
\* (and help, and init, which is OtherInit for a process of its own).
Start ==
    /\ step = "off"
    /\ shell' \in BOOLEAN
    /\ \E t \in {"policy"} \cup IF shell' THEN {} ELSE {"config", "show"} :
          Begin(t)
    /\ policy' = Default /\ session' = NoKey
    /\ age' = MaxAge /\ since' = MaxAge
    /\ UNCHANGED fileVars

\* refresh_history_inner, from the moment it counts as tried.
TryRefresh(t) ==
    /\ Begin(t)
    /\ since' = 0
    /\ UNCHANGED session

\* Mutation of StampAt: last_history is set when the rows have been shown.
StampAtEnd(moment) == moment = "end"

\* The time of a refresh is noted before anything in it can fail.
StampAt(moment) == moment = "begin"

\* The beginning of shell: a forced refresh, if the policy wants one.
StartShell ==
    /\ step = "started"
    /\ IF "Fetch" \in policy.flags /\ policy.wallets # <<>>
       THEN TryRefresh("fetch") /\ age' = IF StampAt("begin") THEN 0 ELSE age
       ELSE /\ GoTo("top", "ok", policy, session)
            /\ age' = IF "Fetch" \in policy.flags THEN age ELSE 0
            /\ UNCHANGED since
    /\ UNCHANGED <<fileVars, shell, policy>>

RefreshDue ==
    policy.interval # 0 /\ age >= policy.interval /\ policy.wallets # <<>>

\* The top of the loop in shell.
Loop ==
    /\ step = "top"
    /\ IF RefreshDue
       THEN TryRefresh("refresh") /\ age' = IF StampAt("begin") THEN 0 ELSE age
       ELSE GoTo("prompt", "ok", policy, session) /\ UNCHANGED <<age, since>>
    /\ UNCHANGED <<fileVars, shell, policy>>

\* A line that cannot be read goes back to the top; the end of the input,
\* exit and quit leave the shell.
ReadNothing ==
    /\ step = "prompt"
    /\ \E next \in {"top", "off"} :
          /\ task' = "none" /\ step' = next
          /\ session' = IF next = "off" THEN NoKey ELSE session
    /\ UNCHANGED <<fileVars, shell, policy, age, since, held, orig, draft,
                   changes>>

\* dispatch of a command that loads the vault, perhaps under an alias.
Dispatch ==
    /\ AtInput
    /\ \E word \in Words \cup AliasNames :
          /\ Expanded(policy, word) \in Tasks
          /\ Begin(Expanded(policy, word))
    /\ UNCHANGED <<fileVars, appVars>>

\* A command that does not: lock, an unknown one, or an init that fails.
DispatchLocal ==
    /\ AtInput
    /\ \E word \in Words \cup AliasNames :
          LET command == Expanded(policy, word) IN
          /\ command \notin Tasks
          /\ GoTo(IF shell THEN "top" ELSE "off",
                  IF command = "lock" THEN "ok" ELSE "error", policy,
                  IF command = "lock" THEN NoKey ELSE session)
    /\ UNCHANGED <<fileVars, shell, policy, age, since>>

\* init where the vault has been removed: it takes over this process's
\* settings.  Should save report an error after its rename, the old key
\* stays, if there is one.
InitVault ==
    /\ AtInput /\ file = NoFile /\ revs < MaxRev
    /\ \E word \in Words \cup AliasNames : Expanded(policy, word) = "init"
    /\ revs' = revs + 1
    /\ file' = [rev |-> revs', salt |-> revs', settings |-> policy]
    /\ foreign' = FALSE
    /\ \E result \in {"ok", "error"} :
          GoTo(IF shell THEN "top" ELSE "off", result, policy,
               IF result = "ok" THEN Released(policy, revs') ELSE session)
    /\ UNCHANGED <<backup, shell, policy, age, since>>

-----------------------------------------------------------------------------
(* unlock, load, save, as the tasks use them.                              *)

\* App::unlock: the key in memory, or the one the password opens the file
\* with.
Unlock ==
    /\ step = "unlock"
    /\ session' = IF session = NoKey THEN file.salt ELSE session
    /\ session' # NoKey
    /\ step' = "load"
    /\ UNCHANGED <<fileVars, shell, policy, age, since, task, held, orig,
                   draft, changes>>

\* decrypt_bytes: a key opens only files with its salt.
Loadable == step = "load" /\ file # NoFile /\ file.salt = session

LoadPolicy ==
    /\ Loadable /\ task = "policy"
    /\ policy' = file.settings /\ foreign' = FALSE
    /\ GoTo(IF shell THEN "started" ELSE "ready", "ok", policy',
            Released(policy', session))
    /\ UNCHANGED <<file, backup, revs, shell, age, since>>

\* public_vault, and the rows of history or whatever else the command shows.
LoadRead ==
    /\ Loadable /\ task \in {"read", "fetch", "refresh"}
    /\ End("ok", policy, Released(policy, session))
    /\ age' = IF task # "read" /\ StampAt("end") THEN 0 ELSE age
    /\ UNCHANGED <<fileVars, shell, policy, since>>

\* A command that changes the wallets of the vault.
LoadChange ==
    /\ Loadable /\ task = "change"
    /\ held' = file /\ step' = "save"
    /\ UNCHANGED <<fileVars, appVars, task, orig, draft, changes>>

\* One that shows them first, gives up the key and asks: delete, export.
LoadReview ==
    /\ Loadable /\ task = "change"
    /\ session' = Released(policy, session)
    /\ step' = "unlock"
    /\ UNCHANGED <<fileVars, shell, policy, age, since, task, held, orig,
                   draft, changes>>

\* save: only onto the revision that was loaded, with the salt of the key.
Commit(settings) ==
    /\ step = "save" /\ file.rev = held.rev /\ revs < MaxRev
    /\ revs' = revs + 1
    /\ file' = [rev |-> revs', salt |-> session, settings |-> settings]
    /\ UNCHANGED backup

SaveChange ==
    /\ task = "change"
    /\ Commit(held.settings)
    /\ \E result \in {"ok", "error"} : End(result, policy, session)
    /\ UNCHANGED <<foreign, shell, policy, age, since>>

-----------------------------------------------------------------------------
(* The settings editor.                                                    *)

\* run_with_io: the policy becomes what is in the file, also if the editor
\* is left without saving.  The key stays while the user types.
LoadSettings ==
    /\ Loadable /\ task \in {"show", "config"}
    /\ policy' = file.settings /\ foreign' = FALSE
    /\ IF task = "show"
       THEN End("ok", policy', Released(policy', session))
       ELSE /\ step' = "edit" /\ orig' = file /\ draft' = file.settings
            /\ UNCHANGED <<session, task, held, changes>>
    /\ UNCHANGED <<file, backup, revs, shell, age, since>>

Change(settings) ==
    /\ step = "edit" /\ changes < MaxChanges
    /\ settings # draft
    /\ draft' = settings /\ changes' = changes + 1
    /\ UNCHANGED <<fileVars, appVars, task, step, held, orig>>

EditGroup == \E s \in FieldEdits(draft) : Change(s)

EditWallets == \E s \in WalletEdits(draft) : Size(s) <= MaxSize /\ Change(s)

EditAliases == \E s \in AliasEdits(draft) : Change(s)

\* c, exit, the end of the input, s without a change, an error of reading,
\* or a list of wallets that has become too long.
LeaveEditor ==
    /\ step \in {"edit", "review"}
    /\ \E result \in {"ok", "error"} :
          End(result, policy, Released(policy, session))
    /\ UNCHANGED <<fileVars, shell, policy, age, since>>

\* s: what has changed is shown.
Review ==
    /\ step = "edit" /\ draft # orig.settings /\ Savable(draft)
    /\ step' = "review"
    /\ UNCHANGED <<fileVars, appVars, task, held, orig, draft, changes>>

\* The answer to the review: back to the menus, or SAVE, which loads again.
Answer ==
    /\ step = "review"
    /\ \/ step' = "edit" /\ UNCHANGED task
       \/ step' = "unlock" /\ task' = "commit"
    /\ UNCHANGED <<fileVars, appVars, held, orig, draft, changes>>

\* Mutation of Reviewed: the vault that is loaded is taken as it is.
ReviewedUnchecked(vault) == TRUE

\* The vault is still the one the changes were reviewed against.
Reviewed(vault) == vault.rev = orig.rev

LoadCommit ==
    /\ Loadable /\ task = "commit" /\ Reviewed(file)
    /\ held' = file /\ step' = "save"
    /\ UNCHANGED <<fileVars, appVars, task, orig, draft, changes>>

\* The vault has changed: an error, and the draft is lost.
RefuseCommit ==
    /\ Loadable /\ task = "commit" /\ ~Reviewed(file)
    /\ End("error", policy, Released(policy, session))
    /\ UNCHANGED <<fileVars, shell, policy, age, since>>

\* Mutation of Adopted: the running settings follow a save without errors.
AdoptedIfOk(result, rev) == result = "ok"

\* Whether the running settings become the draft: the revision has moved.
Adopted(result, rev) == rev # orig.rev

\* The save of the draft, and what an error after its rename leaves.
SaveDraft ==
    /\ task = "commit"
    /\ Commit(draft)
    /\ foreign' = FALSE
    /\ \E result \in {"ok", "error"} :
          LET adopted == Adopted(result, file'.rev) IN
          /\ policy' = IF adopted THEN draft ELSE policy
          /\ age' = IF adopted THEN 0 ELSE age
          /\ End(result, policy', Released(policy', session))
    /\ UNCHANGED <<shell, since>>

-----------------------------------------------------------------------------
(* Around the process.                                                     *)

\* The file changes under other hands.
Replace(f) ==
    /\ file' = f
    /\ foreign' = (foreign \/ f.settings # file.settings \/ f = NoFile)

\* Another process saves settings, or wallets and the settings it has read.
OtherCommit ==
    /\ file # NoFile /\ revs < MaxRev
    /\ revs' = revs + 1
    /\ \E s \in Foreign \cup {file.settings} :
          Replace([rev |-> revs', salt |-> file.salt, settings |-> s])
    /\ UNCHANGED <<backup, appVars, taskVars>>

\* The vault is removed, and another one created.
RemoveFile ==
    /\ file # NoFile /\ Replace(NoFile)
    /\ UNCHANGED <<backup, revs, appVars, taskVars>>

OtherInit ==
    /\ file = NoFile /\ revs < MaxRev
    /\ revs' = revs + 1
    /\ Replace([rev |-> revs', salt |-> revs', settings |-> Default])
    /\ UNCHANGED <<backup, appVars, taskVars>>

\* A copy is made, and put back later.
Copy ==
    /\ file # NoFile /\ backup' = file
    /\ UNCHANGED <<file, revs, foreign, appVars, taskVars>>

Restore ==
    /\ file # backup /\ Replace(backup)
    /\ UNCHANGED <<backup, revs, appVars, taskVars>>

Tick ==
    /\ age < MaxAge \/ since < MaxAge
    /\ age' = IF age < MaxAge THEN age + 1 ELSE age
    /\ since' = IF since < MaxAge THEN since + 1 ELSE since
    /\ UNCHANGED <<fileVars, shell, policy, session, taskVars>>

Kill ==
    /\ step # "off"
    /\ GoTo("off", "error", policy, session)
    /\ UNCHANGED <<fileVars, shell, policy, age, since>>

Shell == Start \/ StartShell \/ Loop \/ ReadNothing
Commands == Dispatch \/ DispatchLocal \/ InitVault \/ Unlock \/ Fail
            \/ LoadPolicy \/ LoadRead \/ LoadChange \/ LoadReview \/ SaveChange
Editor == LoadSettings \/ EditGroup \/ EditWallets \/ EditAliases
          \/ LeaveEditor \/ Review \/ Answer \/ LoadCommit \/ RefuseCommit
          \/ SaveDraft
Environment == OtherCommit \/ RemoveFile \/ OtherInit \/ Copy \/ Restore \/ Tick
               \/ Kill

Next == Shell \/ Commands \/ Editor \/ Environment

Spec == Init /\ [][Next]_vars

-----------------------------------------------------------------------------
(* What is expected of it.                                                 *)

\* Whenever the process takes a command it works by the settings that are in
\* the file, unless somebody else has changed them there since it last read
\* or saved them: also after a save that reported an error, a cancelled
\* edit, an init, and changes of wallets by this and other processes.
PolicyMatchesFile ==
    AtInput /\ ~foreign => file # NoFile /\ policy = file.settings

\* A command or refresh finds the unlocking key in memory only if the policy
\* of the shell is to cache it, whichever way the one before has ended; the
\* same while delete or export wait for an answer.  Only the editor keeps
\* the key while the user types.  Nothing is left of a process that is over.
KeyOnlyIfCaching ==
    /\ step \in {"prompt", "ready", "unlock"} /\ task # "commit" =>
          session = NoKey \/ (shell /\ Caches(policy))
    /\ step = "off" => session = NoKey

\* The editor replaces the very settings it has shown in its review, by the
\* draft shown there; and no save of this process, whose key may be older
\* than the file, puts the vault under another salt.
ReviewedAgainstFile ==
    [][step = "save" /\ step' # step /\ revs' # revs =>
          /\ file'.salt = file.salt
          /\ task = "commit" =>
                /\ file.settings = orig.settings
                /\ file'.settings = draft /\ Valid(draft)]_vars

\* The loop tries no refresh before the interval in force is over, also if
\* the last one has failed: a password prompt that is cancelled, or a node
\* that is down, does not come back at every command.
RefreshesApart ==
    [][task' = "refresh" /\ task # "refresh" => since >= policy.interval]_vars
=============================================================================
