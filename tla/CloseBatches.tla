---------------------------- MODULE CloseBatches ----------------------------
(***************************************************************************)
(* close-ata: the token accounts of one wallet are listed once and closed  *)
(* in as many transactions as it takes, each reviewed by the user and      *)
(* confirmed before the next (src/src/commands.rs).                        *)
(*                                                                         *)
(*   Select -> Pack ... -> Send -> Confirmed -> Pack ... -> Finish         *)
(*                              -> Pending                                 *)
(*                                                                         *)
(* send_transaction and the chain are what Transactions makes of them: a   *)
(* batch is refused and then never sent, or it is out and is executed, as  *)
(* a whole or not at all, now or later; it is reported confirmed only      *)
(* after it has been executed.  Meanwhile tokens arrive and accounts are   *)
(* opened again.                                                           *)
(***************************************************************************)
EXTENDS Integers, Sequences, SequencesExt, FiniteSets

CONSTANTS
    Accounts,      \* token accounts that the wallet owns
    Associated,    \* those of them at the associated address of their mint
    Native,        \* those of wrapped SOL, closed whatever they hold
    MaxAmount,     \* bound on the tokens in an account
    BurnSize, CloseSize,   \* the bytes an instruction adds to a transaction
    Capacity,      \* the bytes there are for them in a transaction
    MaxCommands,   \* bound on the number of commands
    MaxSent        \* bound on the number of transactions

ASSUME CloseAssumption ==
    /\ IsFiniteSet(Accounts)
    /\ Associated \subseteq Accounts /\ Native \subseteq Accounts
    /\ {MaxAmount, BurnSize, CloseSize, Capacity, MaxCommands, MaxSent} \subseteq Nat

VARIABLES
    stage,         \* how far the command has come
    rest,          \* the candidates that are in no batch yet
    batch,         \* the candidates of the batch that is being packed
    instructions,  \* its instructions
    confirmed,     \* the number of accounts in confirmed batches
    n,             \* the number of commands begun
    sent,          \* every transaction that went out
    tokens,        \* what is in the accounts on the chain
    granted,       \* ghost: tokens for which the user has typed BURN
    burned         \* ghost: tokens that have been destroyed

commandVars == <<stage, rest, batch, instructions, confirmed, n>>
vars == <<commandVars, sent, tokens, granted, burned>>

Closed == -1
Candidates == [account : Accounts, amount : 0..MaxAmount]
Candidate(a) == [account |-> a, amount |-> tokens[a]]

\* CloseCandidate::requires_burn and append_instructions.
RequiresBurn(c) == c.amount # 0 /\ c.account \notin Native
InstructionsOf(c) ==
    LET close == [do |-> "close", account |-> c.account, amount |-> 0]
        burn == [do |-> "burn", account |-> c.account, amount |-> c.amount]
    IN IF RequiresBurn(c) THEN <<burn, close>> ELSE <<close>>

Size(ins) ==
    LET Of(do) == Len(SelectSeq(ins, LAMBDA i : i.do = do))
    IN BurnSize * Of("burn") + CloseSize * Of("close")
Fits(ins) == Size(ins) <= Capacity

Statuses == {"out", "executed", "failed", "expired"}

TypeOK ==
    /\ stage \in {"idle", "packing", "sending"}
    /\ rest \in Seq(Candidates) /\ batch \in Seq(Candidates)
    /\ Len(rest) + Len(batch) + confirmed <= Cardinality(Associated)
    /\ n \in 0..MaxCommands
    /\ \A i \in DOMAIN sent :
          /\ sent[i].command \in 1..n /\ sent[i].batch \in Seq(Candidates)
          /\ sent[i].status \in Statuses
    /\ tokens \in [Accounts -> {Closed} \cup 0..MaxAmount]
    /\ granted \in [Accounts -> Nat] /\ burned \in [Accounts -> Nat]

Init ==
    /\ stage = "idle" /\ rest = <<>> /\ batch = <<>> /\ instructions = <<>>
    /\ confirmed = 0 /\ n = 0 /\ sent = <<>>
    /\ tokens \in [Accounts -> 0..MaxAmount]
    /\ granted = [a \in Accounts |-> 0]
    /\ burned = [a \in Accounts |-> 0]

-----------------------------------------------------------------------------
(* Which accounts: close_eligibility, eligible_atas, selected_atas.        *)

Eligible(c, burn) ==
    /\ c.account \in Associated
    /\ c.amount # 0 => burn

\* Mutation of EligibleOnce: the answers of the nodes are taken as they are.
EligibleListed(cs, burn) ==
    FoldLeft(LAMBDA kept, c : IF Eligible(c, burn) THEN Append(kept, c) ELSE kept,
             <<>>, cs)

\* One account may be listed twice; its first eligible entry counts.
EligibleOnce(cs, burn) ==
    FoldLeft(LAMBDA kept, c :
                IF /\ Eligible(c, burn)
                   /\ \A i \in DOMAIN kept : kept[i].account # c.account
                THEN Append(kept, c) ELSE kept,
             <<>>, cs)

\* What the RPC node lists: accounts that exist, in any order, one of them
\* perhaps twice.
Listings ==
    LET open == {a \in Accounts : tokens[a] # Closed}
        orders == UNION {SetToSeqs(some) : some \in SUBSET open}
    IN orders \cup {Append(s, Head(s)) : s \in {o \in orders : Len(o) > 0}}

\* --all takes the eligible accounts of the listing; named mints are a
\* listing of their own, for which anything ineligible is an error.
Select ==
    /\ stage = "idle" /\ n < MaxCommands
    /\ \E burn \in BOOLEAN, listing \in Listings :
          LET listed == [i \in DOMAIN listing |-> Candidate(listing[i])]
          IN rest' = EligibleOnce(listed, burn)
    /\ rest' # <<>>
    /\ n' = n + 1 /\ stage' = "packing"
    /\ batch' = <<>> /\ instructions' = <<>> /\ confirmed' = 0
    /\ UNCHANGED <<sent, tokens, granted, burned>>

-----------------------------------------------------------------------------
(* send_close_batches.                                                     *)

\* The next candidate joins the batch while the transaction has room; if
\* there is none, what was appended for it is split off again.
Pack ==
    /\ stage = "packing" /\ rest # <<>>
    /\ Fits(instructions \o InstructionsOf(Head(rest)))
    /\ instructions' = instructions \o InstructionsOf(Head(rest))
    /\ batch' = Append(batch, Head(rest))
    /\ rest' = Tail(rest)
    /\ UNCHANGED <<stage, confirmed, n, sent, tokens, granted, burned>>

\* The batch is complete: there is no room for the next, or no next.
BatchIsDue ==
    /\ batch # <<>>
    /\ rest # <<>> => ~Fits(instructions \o InstructionsOf(Head(rest)))

Tokens(cs, a) ==
    FoldLeft(LAMBDA sum, c : IF c.account = a /\ RequiresBurn(c)
                             THEN sum + c.amount ELSE sum, 0, cs)

\* Mutation of AsksForBurn: only a batch of nothing but burns is asked about.
AsksForBurnOfAll(cs) == \A i \in DOMAIN cs : RequiresBurn(cs[i])

\* Whether the user must type BURN.
AsksForBurn(cs) == \E i \in DOMAIN cs : RequiresBurn(cs[i])

\* send_close_batch, as far as the submission: what the user reads is the
\* batch, what is signed are the instructions.
Send ==
    /\ stage = "packing" /\ BatchIsDue
    /\ Len(sent) < MaxSent
    /\ sent' = Append(sent, [command |-> n, batch |-> batch,
                             instructions |-> instructions, status |-> "out"])
    /\ granted' = IF AsksForBurn(batch)
                  THEN [a \in Accounts |-> granted[a] + Tokens(batch, a)]
                  ELSE granted
    /\ stage' = "sending"
    /\ UNCHANGED <<rest, batch, instructions, confirmed, n, tokens, burned>>

\* Mutation of NextBatch: what was split off is lost.
NextBatchWithoutOverflow ==
    /\ batch' = IF rest = <<>> THEN <<>> ELSE <<Head(rest)>>
    /\ instructions' = <<>>
    /\ rest' = IF rest = <<>> THEN <<>> ELSE Tail(rest)

\* Both lists are emptied, and begin again with the candidate that had no
\* room: its instructions are those split off, and fit by themselves.
NextBatch ==
    \/ /\ rest = <<>>
       /\ batch' = <<>> /\ instructions' = <<>>
       /\ UNCHANGED rest
    \/ /\ rest # <<>>
       /\ Fits(InstructionsOf(Head(rest)))
       /\ batch' = <<Head(rest)>> /\ instructions' = InstructionsOf(Head(rest))
       /\ rest' = Tail(rest)

\* Mutation of Confirmed: the answer of send_transaction is not looked at.
ConfirmedOrPending ==
    /\ stage = "sending"
    /\ confirmed' = confirmed + Len(batch)
    /\ NextBatch
    /\ stage' = "packing"
    /\ UNCHANGED <<n, sent, tokens, granted, burned>>

\* Ok(true): on to the next batch.
Confirmed ==
    /\ stage = "sending"
    /\ Last(sent).status = "executed"
    /\ confirmed' = confirmed + Len(batch)
    /\ NextBatch
    /\ stage' = "packing"
    /\ UNCHANGED <<n, sent, tokens, granted, burned>>

\* The command is over, and what it held is gone.
Over ==
    /\ stage' = "idle" /\ rest' = <<>> /\ batch' = <<>> /\ instructions' = <<>>
    /\ confirmed' = 0
    /\ UNCHANGED <<n, sent, tokens, granted, burned>>

\* Ok(false): the outcome is not known, and nothing more is sent.
Pending ==
    /\ stage = "sending"
    /\ Over

Finish ==
    /\ stage = "packing" /\ rest = <<>> /\ batch = <<>>
    /\ Over

\* A batch is cancelled or refused before it is sent, a single account does
\* not fit into a transaction, the process is killed.
GiveUp ==
    /\ stage # "idle"
    /\ Over

-----------------------------------------------------------------------------
(* The chain.                                                              *)

\* The accounts that a transaction closes, and the tokens it burns.
Closes(ins) == {k.account : k \in {k \in ToSet(ins) : k.do = "close"}}
Burns(ins, a) ==
    FoldLeft(LAMBDA sum, k : IF k.do = "burn" /\ k.account = a
                             THEN sum + k.amount ELSE sum, 0, ins)

\* An account is closed when nothing is left in it, wrapped SOL in any case.
Executable(ins) ==
    \A a \in Closes(ins) :
        /\ tokens[a] # Closed
        /\ a \notin Native => tokens[a] = Burns(ins, a)

Execute(i) ==
    LET ins == sent[i].instructions IN
    /\ sent[i].status = "out"
    /\ IF Executable(ins)
       THEN /\ tokens' = [a \in Accounts |->
                            IF a \in Closes(ins) THEN Closed ELSE tokens[a]]
            /\ burned' = [a \in Accounts |-> burned[a] + Burns(ins, a)]
            /\ sent' = [sent EXCEPT ![i].status = "executed"]
       ELSE /\ sent' = [sent EXCEPT ![i].status = "failed"]
            /\ UNCHANGED <<tokens, burned>>
    /\ UNCHANGED <<commandVars, granted>>

Expire(i) ==
    /\ sent[i].status = "out"
    /\ sent' = [sent EXCEPT ![i].status = "expired"]
    /\ UNCHANGED <<commandVars, tokens, granted, burned>>

\* Somebody sends tokens, and opens the account for them if need be.
Deposit ==
    /\ \E a \in Accounts :
          /\ tokens[a] < MaxAmount
          /\ tokens' = [tokens EXCEPT ![a] = @ + 1]
    /\ UNCHANGED <<commandVars, sent, granted, burned>>

-----------------------------------------------------------------------------
Next ==
    \/ Select \/ Pack \/ Send \/ Confirmed \/ Pending \/ Finish \/ GiveUp
    \/ \E i \in DOMAIN sent : Execute(i) \/ Expire(i)
    \/ Deposit

Spec == Init /\ [][Next]_vars

-----------------------------------------------------------------------------
(* What could go wrong.                                                    *)

\* The list the user reads and the instructions that are signed are built
\* side by side: they must speak of the same accounts and amounts, in every
\* batch, after every overflow.
ShownIsSent ==
    \A i \in DOMAIN sent :
        LET cs == sent[i].batch IN
        /\ sent[i].instructions =
              FlattenSeq([j \in DOMAIN cs |-> InstructionsOf(cs[j])])
        /\ Fits(sent[i].instructions)

\* One command closes an account in one batch only, and sends a batch only
\* after all before it have been executed.
OneBatchAtATime ==
    \A i, j \in DOMAIN sent : i < j /\ sent[i].command = sent[j].command =>
        /\ sent[i].status = "executed"
        /\ \A c \in ToSet(sent[i].batch), d \in ToSet(sent[j].batch) :
              c.account # d.account

\* No token is destroyed but those for which the user has typed BURN, even
\* if a pending transaction is executed long after its command, and another
\* command has listed the account again.
BurnsWereGranted == \A a \in Accounts : burned[a] <= granted[a]

\* "Closed N": the accounts counted are those of the batches that have been
\* executed.
CountIsTrue ==
    stage = "packing" =>
        LET done == {i \in DOMAIN sent : /\ sent[i].command = n
                                         /\ sent[i].status = "executed"}
        IN confirmed = Cardinality(UNION {
               {c.account : c \in ToSet(sent[i].batch)} : i \in done})
=============================================================================
