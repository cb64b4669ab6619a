----------------------------- MODULE SecretMemory ---------------------------
(***************************************************************************)
(* The locked memory in which solx keeps passwords, keys and the decrypted *)
(* vault (src/src/secret.rs), and the limit it needs (src/src/kdf.rs).     *)
(*                                                                         *)
(* A region is mapped, locked, kept out of dumps, and only then filled;    *)
(* its Drop erases, unlocks and unmaps it.  The modelled process unlocks   *)
(* the vault, loads it, locks it again or creates one, over and over, as a *)
(* shell does.  Each of these is a plan of steps; when one fails, the      *)
(* owners alive are dropped in the reverse order of their construction.    *)
(***************************************************************************)
EXTENDS Integers, SequencesExt

CONSTANTS
    Slots,      \* places in the address space for a region
    Pages,      \* the size of the region of each owner
    Limits,     \* what RLIMIT_MEMLOCK may be, soft or hard
    Required,   \* MEMLOCK_ALLOWANCE, 128 MiB
    Unlimited   \* RLIM_INFINITY

Owners == {"password", "confirmation", "byte", "key", "scratch", "plain",
           "vault", "phrase"}

\* All that is ever alive together fits into the allowance: 64 MiB for
\* Argon2id, and buffers of at most some hundred KiB each.
ASSUME MemoryAssumption ==
    /\ Pages \in [Owners -> Nat \ {0}]
    /\ Required \in Nat /\ Unlimited \notin Nat
    /\ Limits \subseteq Nat \cup {Unlimited}
    /\ MapThenSumSet(LAMBDA r : Pages[r], Owners) <= Required

VARIABLES
    soft, hard,   \* RLIMIT_MEMLOCK of the process
    mem,          \* every slot: its owner, how far it is protected, and
                  \* what its pages hold
    live,         \* the slots of the owners alive, the youngest last
    plan,         \* the steps that are left
    base,         \* how many owners were alive before
    failing,      \* an error is on its way up
    refused,      \* mlock has failed for the limit
    asked         \* the user has been asked for a password

vars == <<soft, hard, mem, live, plan, base, failing, refused, asked>>

Free == [owner |-> "none", state |-> "none", content |-> "zero"]

Init ==
    /\ hard \in Limits
    /\ soft \in {l \in Limits : \/ hard = Unlimited
                                \/ l # Unlimited /\ l <= hard}
    /\ mem = [s \in Slots |-> Free]
    /\ live = <<>> /\ plan = <<>> /\ base = 0
    /\ failing = FALSE /\ refused = FALSE /\ asked = FALSE

-----------------------------------------------------------------------------
(* What the operations do, step by step.                                   *)

\* LockedRegion::new.
Get(r) == <<<<"map", r>>, <<"lock", r>>, <<"protect", r>>>>
Fill(r) == <<<<"fill", r>>>>
Drop(r) == <<<<"drop", r>>>>

\* prompt: both buffers are locked before the user is asked.
Prompt(r) == Get(r) \o Get("byte") \o Fill("byte") \o Fill(r) \o Drop("byte")

\* Argon2idParams::derive.
Derive == Get("key") \o Get("scratch") \o Fill("scratch") \o Fill("key")
            \o Drop("scratch")

\* decrypt_bytes: the plaintext, and the secrets that decode takes out of it.
Decrypt == Get("plain") \o Fill("plain") \o Get("vault") \o Fill("vault")
             \o Drop("plain")

\* App::unlock with Session::open, which decrypts for the sake of the
\* password alone; Session::load; session = None.
UnlockPlan == Prompt("password") \o Derive \o Decrypt \o Drop("vault")
                \o Drop("password")
LoadPlan == Decrypt \o Drop("vault")
ForgetPlan == Drop("key")

\* init, with Session::create and the encoding in save.
InitPlan == Prompt("password") \o Prompt("confirmation")
              \o Get("vault") \o Fill("vault") \o Get("phrase")
              \o Fill("phrase") \o Derive \o Get("plain") \o Fill("plain")
              \o Drop("plain") \o Drop("phrase") \o Drop("vault")
              \o Drop("confirmation") \o Drop("password")

-----------------------------------------------------------------------------
(* ensure_memlock_allowance.                                               *)

Sufficient(limit) == limit = Unlimited \/ limit >= Required

Idle == plan = <<>> /\ ~failing

\* The soft limit is left alone if it suffices, and raised if the hard one
\* does; otherwise, and if a call fails, the user is not asked.
Prepare(next) ==
    /\ Idle /\ live = <<>>
    /\ Sufficient(soft) \/ Sufficient(hard)
    /\ soft' = IF Sufficient(soft) THEN soft ELSE Required
    /\ plan' = next /\ base' = 0
    /\ UNCHANGED <<hard, mem, live, failing, refused, asked>>

BeginUnlock == Prepare(UnlockPlan)
BeginInit == Prepare(InitPlan)

\* With a key in memory the vault is loaded, or the key is given up.
BeginWithKey ==
    /\ Idle /\ live # <<>>
    /\ plan' \in {LoadPlan, ForgetPlan}
    /\ base' = Len(live)
    /\ UNCHANGED <<soft, hard, mem, live, failing, refused, asked>>

-----------------------------------------------------------------------------
(* LockedRegion::new and Drop.                                             *)

Top == live[Len(live)]
InUse == {s \in Slots : mem[s].state # "none"}
LockedPages ==
    MapThenSumSet(LAMBDA s : Pages[mem[s].owner],
                  {s \in Slots : mem[s].state \in {"locked", "erased"}})

Step(op) == plan # <<>> /\ ~failing /\ Head(plan)[1] = op

\* A fresh mapping is filled with zeros.
Map ==
    /\ Step("map") /\ InUse # Slots
    /\ LET s == CHOOSE s \in Slots \ InUse : TRUE IN
          /\ mem' = [mem EXCEPT ![s] = [owner |-> Head(plan)[2],
                                        state |-> "mapped",
                                        content |-> "zero"]]
          /\ live' = Append(live, s)
    /\ plan' = Tail(plan)
    /\ UNCHANGED <<soft, hard, base, failing, refused, asked>>

\* mlock, which the system refuses beyond the soft limit.
Lock ==
    /\ Step("lock")
    /\ IF soft = Unlimited \/ LockedPages + Pages[Head(plan)[2]] <= soft
       THEN /\ mem' = [mem EXCEPT ![Top].state = "locked"]
            /\ plan' = Tail(plan)
            /\ UNCHANGED <<failing, refused>>
       ELSE /\ failing' = TRUE /\ refused' = TRUE /\ plan' = <<>>
            /\ UNCHANGED mem
    /\ UNCHANGED <<soft, hard, live, base, asked>>

\* madvise.
Protect ==
    /\ Step("protect")
    /\ plan' = Tail(plan)
    /\ UNCHANGED <<soft, hard, mem, live, base, failing, refused, asked>>

\* The owner's value is written, only now.
Write ==
    /\ Step("fill")
    /\ \E s \in InUse :
          /\ mem[s].owner = Head(plan)[2]
          /\ mem' = [mem EXCEPT ![s].content = "secret"]
    /\ asked' = (asked \/ Head(plan)[2] = "byte")
    /\ plan' = Tail(plan)
    /\ UNCHANGED <<soft, hard, live, base, failing, refused>>

\* Mutation of Fail: the mapping has no owner before it is fully protected.
FailLeaking ==
    /\ Step("map") \/ Step("lock") \/ Step("protect") \/ Step("fill")
    /\ live' = IF Step("lock") \/ Step("protect")
               THEN SubSeq(live, 1, Len(live) - 1) ELSE live
    /\ failing' = TRUE /\ plan' = <<>>
    /\ UNCHANGED <<soft, hard, mem, base, refused, asked>>

\* Any call fails for a reason of its own, or the input is cancelled, the
\* password is wrong, the vault cannot be decoded.
Fail ==
    /\ Step("map") \/ Step("lock") \/ Step("protect") \/ Step("fill")
    /\ failing' = TRUE /\ plan' = <<>>
    /\ UNCHANGED <<soft, hard, mem, live, base, refused, asked>>

\* Mutation of Dropped: munlock comes before zeroize.
DroppedUnlocked(region) ==
    CASE region.state = "locked" -> [region EXCEPT !.state = "mapped"]
      [] region.state = "mapped" -> Free

\* The next call of Drop: zeroize and munlock if the region has been locked,
\* then munmap.  The contents of the pages are what munmap leaves.
Dropped(region) ==
    CASE region.state = "locked" ->
            [region EXCEPT !.state = "erased", !.content = "zero"]
      [] region.state = "erased" -> [region EXCEPT !.state = "mapped"]
      [] region.state = "mapped" -> [Free EXCEPT !.content = region.content]

\* The owner in slot s is dropped, call by call; then the program goes on.
DropSlot(s, done) ==
    /\ mem' = [mem EXCEPT ![s] = Dropped(mem[s])]
    /\ IF mem'[s].state = "none"
       THEN /\ \E i \in DOMAIN live : live[i] = s /\ live' = RemoveAt(live, i)
            /\ plan' = done
       ELSE UNCHANGED <<live, plan>>
    /\ UNCHANGED <<soft, hard, base, failing, refused, asked>>

DropOwner ==
    /\ Step("drop")
    /\ \E s \in InUse :
          mem[s].owner = Head(plan)[2] /\ DropSlot(s, Tail(plan))

Unwind == failing /\ Len(live) > base /\ DropSlot(Top, <<>>)

\* The error has come up to the command.
Report ==
    /\ failing /\ Len(live) = base
    /\ failing' = FALSE
    /\ UNCHANGED <<soft, hard, mem, live, plan, base, refused, asked>>

Next == BeginUnlock \/ BeginInit \/ BeginWithKey \/ Map \/ Lock \/ Protect
        \/ Write \/ Fail \/ DropOwner \/ Unwind \/ Report

Spec == Init /\ [][Next]_vars

-----------------------------------------------------------------------------
(* What is expected of it.                                                 *)

\* No page holds a secret without being locked: not before mlock has
\* succeeded, not after munlock, and not after munmap, however an operation
\* ends.
SecretsLocked ==
    \A s \in Slots : mem[s].content = "secret" => mem[s].state = "locked"

\* Once the allowance is there, no series of operations, failed or not, runs
\* into the limit, and the user is not asked for a password in vain; between
\* the operations nothing is left in memory but the key of the session.
AllowanceSuffices ==
    /\ ~refused
    /\ asked => Sufficient(soft)
    /\ Idle => \A s \in InUse : mem[s].owner = "key" /\ live = <<s>>
=============================================================================
