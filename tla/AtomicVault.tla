---------------------------- MODULE AtomicVault ----------------------------
(***************************************************************************)
(* What the vault file promises its users, without files, locks or steps.  *)
(*                                                                         *)
(* The vault is a set of updates.  A process opens it and then holds a     *)
(* view, the set it read.  A commit extends the vault only if the view is  *)
(* still the vault: a compare-and-swap.  A power loss may put the vault    *)
(* back to an earlier member of the window, the states it has passed       *)
(* through since it was last hardened, but no member of the window lacks   *)
(* an acknowledged update.                                                 *)
(*                                                                         *)
(* VaultStore is the protocol of Session::save that implements this.       *)
(***************************************************************************)

CONSTANTS Procs,    \* the processes that use one vault file
          Updates   \* the updates they may make

VARIABLES current,  \* the vault: the updates it holds
          window,   \* what a power loss may leave: current, or an older state
          view,     \* [Procs -> at most one state], what each process holds
          acked     \* the updates whose save returned success

vars == <<current, window, view, acked>>

NoView == [p \in Procs |-> {}]

Init ==
    /\ current = {}
    /\ window = {{}}
    /\ view = NoView
    /\ acked = {}

\* A process reads the vault, or finds that there is none yet.
Open(p) ==
    /\ view' = [view EXCEPT ![p] = {current}]
    /\ UNCHANGED <<current, window, acked>>

\* A process replaces exactly the state it holds by a larger one, and holds
\* the new state from then on.
Commit(p) ==
    /\ view[p] = {current}
    /\ \E new \in SUBSET Updates :
          /\ current \subseteq new
          /\ current # new
          /\ current' = new
          /\ window' = window \cup {new}
          /\ view' = [view EXCEPT ![p] = {new}]
    /\ UNCHANGED acked

\* The vault reaches stable storage: no older state can come back.
Harden ==
    /\ window' = {current}
    /\ UNCHANGED <<current, view, acked>>

\* A save returns success: every state that can come back holds its update.
Acknowledge(u) ==
    /\ \A state \in window : u \in state
    /\ acked' = acked \cup {u}
    /\ UNCHANGED <<current, window, view>>

\* A process ends, or gives its view up.
Forget(p) ==
    /\ view' = [view EXCEPT ![p] = {}]
    /\ UNCHANGED <<current, window, acked>>

\* The machine stops: every process ends and storage keeps some state of
\* the window.
PowerLoss ==
    /\ \E state \in window : current' = state
    /\ window' = {current'}
    /\ view' = NoView
    /\ UNCHANGED acked

Next ==
    \/ \E p \in Procs : Open(p) \/ Commit(p) \/ Forget(p)
    \/ Harden
    \/ \E u \in Updates : Acknowledge(u)
    \/ PowerLoss

Spec == Init /\ [][Next]_vars
=============================================================================
