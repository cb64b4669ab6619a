---------------------------- MODULE Transactions ----------------------------
(***************************************************************************)
(* transfer and token-transfer, from the review of a transaction to its    *)
(* outcome (src/src/commands.rs, src/src/rpc.rs).                          *)
(*                                                                         *)
(*   Begin -> Quote -> Approve -> Unlock -> Refresh -> LoadSigner -> Sign  *)
(*         -> Send -> Poll ... -> Report, Remember                         *)
(*                                                                         *)
(* One solx process runs command after command.  Around it: other          *)
(* processes that change the vault, RPC nodes that answer differently from *)
(* call to call, lose replies and lag behind, and a chain that forks.  An  *)
(* answer of a node is free, except that "confirmed" is final.             *)
(*                                                                         *)
(* Time is measured in units of which Pause is the sleep between polls.    *)
(***************************************************************************)
EXTENDS Integers, FiniteSetsExt

CONSTANTS
    Addresses,     \* keys that may stand behind the name of the source
    NoAddress,     \* the source is not in the vault
    Targets,       \* recipients, none of them the source
    Fees,          \* what getFeeForMessage may answer
    Rents,         \* the ATA rent that may be quoted for a token transfer
    Balances,      \* what getBalance may answer for the source
    MaxCommands,   \* bound on the number of commands
    MaxHeight,     \* bound on the block height
    Validity,      \* blocks for which a blockhash is valid, about 150
    ExpiryMargin,  \* blocks that must be left at signing, 5
    Polls,         \* polls of the signature status, 20
    Deadline,      \* time for all of them, 60 seconds
    Pause,         \* time between two of them, 2 seconds
    Timeout        \* rpc.timeout, for one call

ASSUME TransactionAssumption ==
    /\ NoAddress \notin Addresses
    /\ Fees \subseteq Nat /\ Rents \subseteq Nat /\ Balances \subseteq Nat
    /\ MaxCommands \in Nat /\ MaxHeight \in Nat /\ Validity \in Nat
    /\ ExpiryMargin \in Nat /\ Polls \in Nat /\ Deadline \in Nat
    /\ Pause \in Nat /\ Timeout \in Nat

VARIABLES
    caching,  \* the process is a shell that keeps the vault unlocked
    session,  \* App.session is Some: the unlocking key is in memory
    stage,    \* how far the command has come
    shown,    \* what the user has been shown and has approved
    tx,       \* the refreshed message, with what was quoted for it
    key,      \* the signing key in memory, as its address
    polls, waited,   \* the confirmation loop
    outcome,  \* what the last command reported
    command,  \* the number of commands begun
    wallet,   \* the address behind the source's name in the vault file
    known,    \* the known recipients in the vault file
    chain,    \* the transaction of each command, on the chain
    height    \* the block height

commandVars == <<stage, shown, tx, key, polls, waited, outcome, command>>
worldVars == <<wallet, known, chain, height>>
vars == <<caching, session, commandVars, worldVars>>

Kinds == {"amount", "all", "token"}
NoShown == [kind |-> "none"]
NoTx == [amount |-> 0, fee |-> 0, rent |-> 0, balance |-> 0, lastValid |-> 0]
Commands == 1..MaxCommands
Unsent == [status |-> "unsent", target |-> NoAddress, lastValid |-> 0]

Before == {"begun", "quoted", "approved", "unlocked", "refreshed", "keyed"}
Sent == {"confirming", "unknown", "confirmed"}
Statuses == {"unsent", "pending", "processed", "failed", "confirmed", "expired"}

TypeOK ==
    /\ caching \in BOOLEAN /\ session \in BOOLEAN
    /\ stage \in {"idle", "signed"} \cup Before \cup Sent
    /\ stage # "idle" => shown.kind \in Kinds /\ shown.amount \in Nat
    /\ DOMAIN tx = DOMAIN NoTx /\ \A f \in DOMAIN tx : tx[f] \in Nat
    /\ key \in Addresses \cup {NoAddress}
    /\ polls \in 0..Polls /\ waited \in Nat
    /\ outcome \in {"none", "error", "unknown", "confirmed", "killed"}
    /\ command \in 0..MaxCommands
    /\ wallet \in Addresses \cup {NoAddress}
    /\ known \in SUBSET Targets
    /\ \A i \in Commands : chain[i].status \in Statuses
    /\ height \in 0..MaxHeight

Init ==
    /\ caching \in BOOLEAN
    /\ session = FALSE
    /\ stage = "idle" /\ shown = NoShown /\ tx = NoTx /\ key = NoAddress
    /\ polls = 0 /\ waited = 0 /\ outcome = "none" /\ command = 0
    /\ wallet \in Addresses
    /\ known = {}
    /\ chain = [i \in Commands |-> Unsent]
    /\ height = 0

\* The command returns; what it held goes out of scope.
Over(result) ==
    /\ stage' = "idle" /\ outcome' = result
    /\ shown' = NoShown /\ tx' = NoTx /\ key' = NoAddress
    /\ polls' = 0 /\ waited' = 0

-----------------------------------------------------------------------------
(* The review: transfer or token_transfer, then send_transaction.          *)

\* The public snapshot of the vault, and for ALL the balance.
Begin ==
    /\ stage = "idle" /\ command < MaxCommands /\ wallet # NoAddress
    /\ \E kind \in Kinds, target \in Targets, balance \in Balances :
          shown' = [kind |-> kind, address |-> wallet, target |-> target,
                    known |-> target \in known,
                    balance |-> IF kind = "all" THEN balance ELSE 0,
                    amount |-> 0, fee |-> 0, rent |-> 0]
    /\ stage' = "begun" /\ outcome' = "none" /\ command' = command + 1
    /\ session' = caching
    /\ UNCHANGED <<caching, tx, key, polls, waited, worldVars>>

\* Mutation of SpendAll: the fee is taken off without a check.
SpendAllUnchecked(balance, fee) == {balance - fee}

\* spend_all_lamports: what is left of a balance after the fee, if any.
SpendAll(balance, fee) == IF balance > fee THEN {balance - fee} ELSE {}

\* The fee is asked for once, for ALL twice more: the amount is what the
\* first answer leaves, and the last answer must repeat the first.
Quote ==
    /\ stage = "begun"
    /\ \E fee \in Fees, rent \in IF shown.kind = "token" THEN Rents ELSE {0} :
          IF shown.kind = "all"
          THEN \E first \in Fees : \E amount \in SpendAll(shown.balance, first) :
                  \E last \in Fees :
                     /\ last = first
                     /\ shown' = [shown EXCEPT !.amount = amount, !.fee = fee,
                                               !.rent = rent]
          ELSE shown' = [shown EXCEPT !.fee = fee, !.rent = rent]
    /\ stage' = "quoted"
    /\ UNCHANGED <<caching, session, tx, key, polls, waited, outcome,
                   command, worldVars>>

\* The question, if the policy asks one.
Approve ==
    /\ stage = "quoted"
    /\ stage' = "approved"
    /\ UNCHANGED <<caching, session, shown, tx, key, polls, waited, outcome,
                   command, worldVars>>

Unlock ==
    /\ stage = "approved"
    /\ stage' = "unlocked" /\ session' = TRUE
    /\ UNCHANGED <<caching, shown, tx, key, polls, waited, outcome,
                   command, worldVars>>

-----------------------------------------------------------------------------
(* refresh_and_sign.                                                       *)

\* The message on a fresh blockhash, with the quotes it gets.  The node may
\* be behind: its height is any that there has been.
Refreshed(fee, rent, balance) ==
    /\ \E h \in 0..height :
          tx' = [amount |-> shown.amount, fee |-> fee, rent |-> rent,
                 balance |-> balance, lastValid |-> h + Validity]
    /\ stage' = "refreshed"
    /\ UNCHANGED <<caching, session, shown, key, polls, waited, outcome,
                   command, worldVars>>

\* Mutation of Refresh: the fee is not asked for again.
RefreshUnquoted ==
    /\ stage = "unlocked"
    /\ \E fee \in Fees : Refreshed(fee, shown.rent, shown.balance)

\* Fee, rent and, for ALL, balance are asked for again and must be what the
\* user has approved.
Refresh ==
    /\ stage = "unlocked"
    /\ \E fee \in Fees, rent \in Rents \cup {0}, balance \in Balances \cup {0} :
          /\ fee = shown.fee
          /\ rent = shown.rent
          /\ balance = shown.balance
          /\ Refreshed(fee, rent, balance)

\* The vault is loaded again and the key derived; it must be the one of the
\* address that was shown.
LoadSigner ==
    /\ stage = "refreshed"
    /\ session
    /\ wallet # NoAddress /\ wallet = shown.address
    /\ key' = wallet
    /\ stage' = "keyed"
    /\ UNCHANGED <<caching, session, shown, tx, polls, waited, outcome,
                   command, worldVars>>

\* The last look at the height: a node that has at least the blockhash.
StillValid ==
    \E h \in 0..height : /\ h + Validity >= tx.lastValid
                         /\ h < tx.lastValid - ExpiryMargin

\* Mutation of Sign: the session stays open until the outcome is known.
SignKeepsSession ==
    /\ stage = "keyed" /\ StillValid
    /\ stage' = "signed" /\ key' = NoAddress
    /\ UNCHANGED <<caching, session, shown, tx, polls, waited, outcome,
                   command, worldVars>>

\* The signing key is dropped and the session released at once.
Sign ==
    /\ stage = "keyed" /\ StillValid
    /\ stage' = "signed" /\ key' = NoAddress
    /\ session' = caching
    /\ UNCHANGED <<caching, shown, tx, polls, waited, outcome,
                   command, worldVars>>

\* Any check or call on the way fails, the user cancels, the password is
\* wrong, what was signed is too long for a packet: the command returns an
\* error.
Refuse ==
    /\ stage \in Before \cup {"signed"}
    /\ Over("error")
    /\ session' = (session /\ caching)
    /\ UNCHANGED <<caching, command, worldVars>>

-----------------------------------------------------------------------------
(* submit_and_confirm.                                                     *)

Submitted(delivered) ==
    chain' = IF delivered
             THEN [chain EXCEPT ![command] =
                     [status |-> "pending", target |-> shown.target,
                      lastValid |-> tx.lastValid]]
             ELSE chain

\* Mutation of Send: a failed call of sendTransaction is an error return.
SendFailureRefused ==
    /\ stage = "signed"
    /\ \/ /\ Submitted(TRUE)
          /\ stage' = "confirming"
          /\ UNCHANGED <<outcome, shown, tx, key, polls, waited>>
       \/ /\ \E delivered \in BOOLEAN : Submitted(delivered)
          /\ Over("error")
    /\ UNCHANGED <<caching, session, command, wallet, known, height>>

\* Mutation of Send: it is tried until there is a reply.
SendRetried ==
    /\ stage = "signed"
    /\ \/ /\ Submitted(TRUE)
          /\ stage' = "confirming"
       \/ /\ \E delivered \in BOOLEAN : Submitted(delivered)
          /\ UNCHANGED stage
    /\ UNCHANGED <<caching, session, shown, tx, key, polls, waited, outcome,
                   command, wallet, known, height>>

\* A reply with the signature means that the transaction is out; without
\* one, nothing is known.  It is sent once.
Send ==
    /\ stage = "signed"
    /\ \/ /\ Submitted(TRUE)
          /\ stage' = "confirming"
       \/ /\ \E delivered \in BOOLEAN : Submitted(delivered)
          /\ stage' = "unknown"
    /\ UNCHANGED <<caching, session, shown, tx, key, polls, waited, outcome,
                   command, wallet, known, height>>

\* What getSignatureStatuses may answer: nodes forget, lag and follow forks,
\* but do not take a confirmed transaction for a failed one.
Answers ==
    {"none", "processed", "invalid"}
    \cup (IF chain[command].status = "confirmed" THEN {"confirmed"}
          ELSE {"failed"})

\* Mutation of Final: any status without an error will do.
FinalIfProcessed(answer) == answer \in {"processed", "confirmed"}

\* The statuses that end the wait with success.
Final(answer) == answer = "confirmed"

\* Mutation of CallTime: every call may use the whole RPC timeout.
CallTimeFull(left) == Timeout

\* One call of the loop ends within the time that is left.
CallTime(left) == Min({Timeout, left})

Poll ==
    /\ stage = "confirming" /\ polls < Polls /\ waited < Deadline
    /\ polls' = polls + 1
    /\ \E answer \in Answers, took \in 0..CallTime(Deadline - waited) :
          \/ /\ Final(answer)
             /\ stage' = "confirmed" /\ waited' = waited + took
          \/ /\ answer \in {"failed", "invalid"}
             /\ stage' = "unknown" /\ waited' = waited + took
          \/ /\ ~Final(answer) /\ answer \in {"none", "processed"}
             /\ waited' = Max({waited + took,
                               Min({waited + took + Pause, Deadline})})
             /\ UNCHANGED stage
    /\ UNCHANGED <<caching, session, shown, tx, key, outcome,
                   command, worldVars>>

StopPolling ==
    /\ stage = "confirming" /\ (polls = Polls \/ waited >= Deadline)
    /\ stage' = "unknown"
    /\ UNCHANGED <<caching, session, shown, tx, key, polls, waited, outcome,
                   command, worldVars>>

\* Mutation of ReportUnknown: the recipient counts as known from now on.
ReportUnknownRemembered ==
    /\ stage = "unknown"
    /\ Over("unknown")
    /\ known' = known \cup {shown.target}
    /\ UNCHANGED <<caching, session, command, wallet, chain, height>>

\* Ok(false): the signature to look for is printed, nothing is retried.
ReportUnknown ==
    /\ stage = "unknown"
    /\ Over("unknown")
    /\ UNCHANGED <<caching, session, command, worldVars>>

\* Ok(true), and App::remember_recipient, whose failure changes nothing.
ReportConfirmed ==
    /\ stage = "confirmed"
    /\ Over("confirmed")
    /\ \/ /\ ~shown.known
          /\ known' = known \cup {shown.target}
       \/ UNCHANGED known
    /\ session' = caching
    /\ UNCHANGED <<caching, command, wallet, chain, height>>

-----------------------------------------------------------------------------
(* Around the process.                                                     *)

\* The process is killed; the shell is started again.
Kill ==
    /\ stage # "idle"
    /\ Over("killed")
    /\ session' = FALSE
    /\ UNCHANGED <<caching, command, worldVars>>

\* The command lock.
Lock ==
    /\ stage = "idle" /\ session
    /\ session' = FALSE
    /\ UNCHANGED <<caching, commandVars, worldVars>>

\* Another process deletes the source, or gives its name to another key.
ReplaceWallet ==
    /\ wallet' \in (Addresses \cup {NoAddress}) \ {wallet}
    /\ UNCHANGED <<caching, session, commandVars, known, chain, height>>

\* The chain: a transaction that is out is executed with or without an
\* error while its blockhash is valid, a fork takes that back, the cluster
\* confirms it, or it expires.
Move(i, status) ==
    /\ chain' = [chain EXCEPT ![i].status = status]
    /\ UNCHANGED <<caching, session, commandVars, wallet, known, height>>
Execute(i) ==
    /\ chain[i].status = "pending" /\ height <= chain[i].lastValid
    /\ Move(i, "processed") \/ Move(i, "failed")
Fork(i) ==
    /\ chain[i].status \in {"processed", "failed"}
    /\ Move(i, "pending")
Confirm(i) ==
    /\ chain[i].status = "processed"
    /\ Move(i, "confirmed")
Expire(i) ==
    /\ chain[i].status = "pending" /\ height > chain[i].lastValid
    /\ Move(i, "expired")
Grow ==
    /\ height < MaxHeight
    /\ height' = height + 1
    /\ UNCHANGED <<caching, session, commandVars, wallet, known, chain>>

-----------------------------------------------------------------------------
Review == Begin \/ Quote \/ Approve \/ Unlock \/ Refuse
RefreshAndSign == Refresh \/ LoadSigner \/ Sign
SubmitAndConfirm == Send \/ Poll \/ StopPolling

Next ==
    \/ Review \/ RefreshAndSign \/ SubmitAndConfirm
    \/ ReportUnknown \/ ReportConfirmed
    \/ Kill \/ Lock \/ ReplaceWallet \/ Grow
    \/ \E i \in Commands : Execute(i) \/ Fork(i) \/ Confirm(i) \/ Expire(i)

Spec == Init /\ [][Next]_vars

\* Every call of submit_and_confirm has a timeout and the loop a budget: the
\* process goes on by itself, whatever the nodes answer.
FairSpec == Spec /\ WF_vars(SubmitAndConfirm)

-----------------------------------------------------------------------------
(* What could go wrong.                                                    *)

\* What is signed is what the user has approved: the key of the address that
\* was shown, and a message whose fee, rent and balance, quoted for its
\* fresh blockhash, are those of the review.  ALL sends something, and not
\* more than the balance at that time.
SignedAsShown ==
    /\ stage = "keyed" => key = shown.address
    /\ stage \in {"keyed", "signed"} \cup Sent =>
          /\ tx.fee = shown.fee
          /\ tx.rent = shown.rent
          /\ tx.amount = shown.amount
          /\ shown.kind = "all" => /\ tx.balance = shown.balance
                                   /\ 0 < tx.amount /\ tx.amount <= tx.balance

\* An error return means that nothing has been sent and nothing will be: the
\* user may run the command again.
ErrorMeansNothingSent ==
    outcome = "error" => chain[command].status = "unsent"

\* Only a transaction that the cluster has confirmed is reported so: not one
\* that a fork may still take back, nor one that failed on the chain.
ConfirmedLanded ==
    outcome = "confirmed" \/ stage = "confirmed" =>
        chain[command].status = "confirmed"

\* Whoever is a known recipient, and will not be warned about again, has
\* been paid.
KnownWerePaid ==
    \A t \in known : \E i \in Commands :
        chain[i].target = t /\ chain[i].status = "confirmed"

\* The stages of refresh_and_sign: from the password to the signature.  The
\* calls for blockhash, fee, rent, balance and simulation are made with the
\* vault unlocked, the last one, for the height, with the signing key.
Signing == {"unlocked", "refreshed", "keyed"}

\* Outside of refresh_and_sign the unlocking key is in memory only if caching
\* was asked for: not while the review is shown, not from signing on while
\* the outcome is awaited, and not after an error of any call, a kill or a
\* cancelled question.  The signing key is there for the last call only.
KeysOnlyForSigning ==
    /\ session /\ ~caching => stage \in Signing
    /\ key # NoAddress => stage = "keyed"

\* The confirmation loop keeps its deadline.
DeadlineHonoured == waited <= Deadline

\* The user learns about every transaction that went out, confirmed or not,
\* unless the process is killed.
ResultReported ==
    stage \in {"signed", "confirming"} ~> stage \in {"unknown", "confirmed", "idle"}
=============================================================================
