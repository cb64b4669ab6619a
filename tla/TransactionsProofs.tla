-------------------------- MODULE TransactionsProofs ------------------------
(***************************************************************************)
(* What is proved of Transactions for any addresses, fees, rents, balances *)
(* and any number of commands, blocks and polls: only what was approved is *)
(* signed, what is reported is true, the keys are in memory for signing    *)
(* only, and the confirmation loop keeps its deadline.                     *)
(*                                                                         *)
(* At the end, what is proved of Amounts for words of any size, numbers to *)
(* any base and texts of any length: the amount of a transaction is        *)
(* exactly the one typed, and the one that the user sees.                  *)
(***************************************************************************)
EXTENDS Transactions, Amounts, DataTheorems, TLAPS

USE TransactionAssumption

-----------------------------------------------------------------------------
(* The inductive invariant, in four parts.                                 *)

Reviews == [kind : Kinds, address : Addresses, target : Targets,
            known : BOOLEAN, balance : Nat, amount : Nat, fee : Nat,
            rent : Nat]
Messages == [amount : Nat, fee : Nat, rent : Nat, balance : Nat,
             lastValid : Nat]
Transfers == [status : Statuses, target : Targets \cup {NoAddress},
              lastValid : Nat]

\* The full types, of which TypeOK says as much as TLC needs.
TypeInv ==
    /\ caching \in BOOLEAN /\ session \in BOOLEAN
    /\ stage \in {"idle", "signed"} \cup Before \cup Sent
    /\ stage # "idle" => shown \in Reviews
    /\ tx \in Messages
    /\ key \in Addresses \cup {NoAddress}
    /\ polls \in 0..Polls /\ waited \in 0..Deadline
    /\ outcome \in {"none", "error", "unknown", "confirmed", "killed"}
    /\ command \in 0..MaxCommands
    /\ wallet \in Addresses \cup {NoAddress}
    /\ known \in SUBSET Targets
    /\ chain \in [Commands -> Transfers]
    /\ height \in 0..MaxHeight

\* A refreshed message has the quotes of the review, long before it is
\* signed, and the key is that of the address shown.
QuoteInv ==
    /\ stage = "keyed" => key = shown.address
    /\ stage \notin {"idle", "begun"} /\ shown.kind = "all" =>
          0 < shown.amount /\ shown.amount <= shown.balance
    /\ stage \in {"refreshed", "keyed", "signed"} \cup Sent =>
          /\ tx.fee = shown.fee
          /\ tx.rent = shown.rent
          /\ tx.balance = shown.balance
          /\ tx.amount = shown.amount

\* Commands that have not come to Send, and those to come, have nothing on
\* the chain; what is waited for there is the transfer that was shown.
ChainInv ==
    /\ stage # "idle" => command \in Commands /\ outcome = "none"
    /\ outcome # "none" => command \in Commands
    /\ stage \in Before \cup {"signed"} => chain[command].status = "unsent"
    /\ \A i \in Commands : i > command => chain[i].status = "unsent"
    /\ stage \in {"confirming", "confirmed"} =>
          chain[command].target = shown.target

TransactionInv ==
    /\ TypeInv /\ QuoteInv /\ ChainInv
    /\ KeysOnlyForSigning /\ ErrorMeansNothingSent /\ ConfirmedLanded
    /\ KnownWerePaid

-----------------------------------------------------------------------------
\* The smaller of two numbers, as CallTime and Poll take it.
LEMMA MinOfTwo ==
    ASSUME NEW a \in Nat, NEW b \in Nat
    PROVE  Min({a, b}) \in {a, b} /\ Min({a, b}) <= a /\ Min({a, b}) <= b
<1>. DEFINE m == IF a <= b THEN a ELSE b
<1>1. m \in {a, b} /\ \A y \in {a, b} : m <= y
  OBVIOUS
<1>. QED
  BY <1>1 DEF Min

\* The larger of two numbers.
LEMMA MaxOfTwo ==
    ASSUME NEW a \in Nat, NEW b \in Nat
    PROVE  Max({a, b}) \in {a, b} /\ a <= Max({a, b}) /\ b <= Max({a, b})
<1>. DEFINE m == IF a >= b THEN a ELSE b
<1>1. m \in {a, b} /\ \A y \in {a, b} : m >= y
  OBVIOUS
<1>. QED
  BY <1>1 DEF Max

\* A transfer whose status changes remains the same transfer.
LEMMA StatusReplaced ==
    ASSUME NEW r \in Transfers, NEW s \in Statuses
    PROVE  LET q == [r EXCEPT !.status = s]
           IN  /\ q \in Transfers
               /\ q.status = s /\ q.target = r.target
               /\ q.lastValid = r.lastValid
  BY DEF Transfers

\* What the cluster does to one transaction touches no other one.
LEMMA MoveEffect ==
    ASSUME chain \in [Commands -> Transfers], NEW i \in Commands,
           NEW s \in Statuses, Move(i, s)
    PROVE  /\ chain' \in [Commands -> Transfers]
           /\ chain'[i].status = s /\ chain'[i].target = chain[i].target
           /\ \A j \in Commands \ {i} : chain'[j] = chain[j]
<1>. DEFINE q == [chain[i] EXCEPT !.status = s]
<1>1. q \in Transfers /\ q.status = s /\ q.target = chain[i].target
  BY StatusReplaced
<1>2. chain' = [chain EXCEPT ![i] = q]
  BY DEF Move
<1>. HIDE DEF q
<1>. QED
  BY <1>1, <1>2

\* A review with the amounts that Quote puts into it is a review.
LEMMA QuotedReview ==
    ASSUME NEW r \in Reviews,
           NEW amount \in Nat, NEW fee \in Nat, NEW rent \in Nat
    PROVE  /\ [r EXCEPT !.amount = amount, !.fee = fee, !.rent = rent]
                 \in Reviews
           /\ [r EXCEPT !.fee = fee, !.rent = rent] \in Reviews
  BY DEF Reviews

\* The empty message is a message.
LEMMA NoTxType == NoTx \in Messages
  BY DEF NoTx, Messages

\* Every action keeps every variable in its type.
LEMMA TypeStep ==
    ASSUME TypeInv, [Next]_vars
    PROVE  TypeInv'
<1>. USE DEF TypeInv, Before, Sent, Statuses, worldVars, commandVars
<1>1. ASSUME Begin PROVE TypeInv'
  <2>1. command' \in 0..MaxCommands /\ session' \in BOOLEAN
    BY <1>1 DEF Begin
  <2>2. shown' \in Reviews
    BY <1>1 DEF Begin, Reviews
  <2>. QED
    BY <1>1, <2>1, <2>2 DEF Begin
<1>2. ASSUME Quote PROVE TypeInv'
  <2>. DEFINE Quoted(fee, rent) ==
          IF shown.kind = "all"
          THEN \E first \in Fees :
               \E amount \in SpendAll(shown.balance, first) :
               \E last \in Fees :
                     /\ last = first
                     /\ shown' = [shown EXCEPT !.amount = amount, !.fee = fee,
                                               !.rent = rent]
          ELSE shown' = [shown EXCEPT !.fee = fee, !.rent = rent]
  <2>1. shown \in Reviews
    BY <1>2 DEF Quote
  <2>2. \E fee \in Fees, rent \in IF shown.kind = "token" THEN Rents ELSE {0} :
          Quoted(fee, rent)
    BY <1>2 DEF Quote
  <2>3. PICK fee \in Nat, rent \in Nat : Quoted(fee, rent)
    <3>. HIDE DEF Quoted
    <3>. QED
      BY <2>2
  <2>4. \A first \in Fees : SpendAll(shown.balance, first) \subseteq Nat
    BY <2>1 DEF SpendAll, Reviews
  <2>5. shown' \in Reviews
    <3>1. CASE shown.kind = "all"
      <4>1. PICK amount \in Nat :
              shown' = [shown EXCEPT !.amount = amount, !.fee = fee,
                                     !.rent = rent]
        BY <2>3, <2>4, <3>1
      <4>. QED
        BY <4>1, <2>1, <2>3, QuotedReview
    <3>2. CASE shown.kind # "all"
      <4>1. shown' = [shown EXCEPT !.fee = fee, !.rent = rent]
        BY <2>3, <3>2
      <4>. QED
        BY <4>1, <2>1, <2>3, QuotedReview
    <3>. QED
      BY <3>1, <3>2
  <2>. QED
    BY <1>2, <2>5 DEF Quote
<1>3. ASSUME Approve PROVE TypeInv'
  BY <1>3 DEF Approve
<1>4. ASSUME Unlock PROVE TypeInv'
  BY <1>4 DEF Unlock
<1>5. ASSUME Refuse PROVE TypeInv'
  BY <1>5, NoTxType DEF Refuse, Over
<1>6. ASSUME Refresh PROVE TypeInv'
  <2>1. shown \in Reviews
    BY <1>6 DEF Refresh
  <2>2. tx' \in Messages
    BY <1>6, <2>1 DEF Refresh, Refreshed, Messages, Reviews
  <2>. QED
    BY <1>6, <2>2 DEF Refresh, Refreshed
<1>7. ASSUME LoadSigner PROVE TypeInv'
  BY <1>7 DEF LoadSigner
<1>8. ASSUME Sign PROVE TypeInv'
  BY <1>8 DEF Sign
<1>9. ASSUME Send PROVE TypeInv'
  <2>1. shown.target \in Targets /\ tx.lastValid \in Nat
    BY <1>9 DEF Send, Reviews, Messages
  <2>2. chain' \in [Commands -> Transfers]
    BY <1>9, <2>1 DEF Send, Submitted, Transfers
  <2>. QED
    BY <1>9, <2>2 DEF Send
<1>10. ASSUME Poll PROVE TypeInv'
  <2>1. PICK took \in 0..CallTime(Deadline - waited) :
          waited' \in {waited + took,
                        Max({waited + took,
                             Min({waited + took + Pause, Deadline})})}
    BY <1>10 DEF Poll
  <2>2. waited + took \in 0..Deadline
    BY <1>10, MinOfTwo, Deadline - waited \in Nat DEF Poll, CallTime
  <2>3. Min({waited + took + Pause, Deadline}) \in 0..Deadline
    BY <2>2, MinOfTwo
  <2>4. waited' \in 0..Deadline
    <3>. DEFINE a == waited + took
                b == Min({waited + took + Pause, Deadline})
    <3>1. a \in Nat /\ b \in Nat /\ a <= Deadline /\ b <= Deadline
      BY <2>2, <2>3
    <3>2. waited' \in {a, Max({a, b})}
      BY <2>1
    <3>. HIDE DEF a, b
    <3>3. Max({a, b}) \in {a, b}
      BY <3>1, MaxOfTwo
    <3>. QED
      BY <3>1, <3>2, <3>3
  <2>. QED
    BY <1>10, <2>4 DEF Poll
<1>11. ASSUME StopPolling PROVE TypeInv'
  BY <1>11 DEF StopPolling
<1>12. ASSUME ReportUnknown PROVE TypeInv'
  BY <1>12, NoTxType DEF ReportUnknown, Over
<1>13. ASSUME ReportConfirmed PROVE TypeInv'
  <2>1. known' \in SUBSET Targets
    BY <1>13 DEF ReportConfirmed, Reviews
  <2>. QED
    BY <1>13, <2>1, NoTxType DEF ReportConfirmed, Over
<1>14. ASSUME Kill PROVE TypeInv'
  <2>1. session' \in BOOLEAN
    BY <1>14 DEF Kill
  <2>. QED
    BY <1>14, <2>1, NoTxType DEF Kill, Over
<1>15. ASSUME Lock PROVE TypeInv'
  BY <1>15 DEF Lock
<1>16. ASSUME ReplaceWallet PROVE TypeInv'
  BY <1>16 DEF ReplaceWallet
<1>17. ASSUME Grow PROVE TypeInv'
  BY <1>17 DEF Grow
<1>18. ASSUME NEW i \in Commands, Execute(i) PROVE TypeInv'
  <2>1. PICK s \in {"processed", "failed"} : Move(i, s)
    BY <1>18 DEF Execute
  <2>2. chain' \in [Commands -> Transfers]
    BY <2>1, MoveEffect DEF Statuses
  <2>. QED
    BY <2>1, <2>2 DEF Move
<1>19. ASSUME NEW i \in Commands, Fork(i) PROVE TypeInv'
  <2>1. Move(i, "pending")
    BY <1>19 DEF Fork
  <2>2. chain' \in [Commands -> Transfers]
    BY <2>1, MoveEffect DEF Statuses
  <2>. QED
    BY <2>1, <2>2 DEF Move
<1>20. ASSUME NEW i \in Commands, Confirm(i) PROVE TypeInv'
  <2>1. Move(i, "confirmed")
    BY <1>20 DEF Confirm
  <2>2. chain' \in [Commands -> Transfers]
    BY <2>1, MoveEffect DEF Statuses
  <2>. QED
    BY <2>1, <2>2 DEF Move
<1>21. ASSUME NEW i \in Commands, Expire(i) PROVE TypeInv'
  <2>1. Move(i, "expired")
    BY <1>21 DEF Expire
  <2>2. chain' \in [Commands -> Transfers]
    BY <2>1, MoveEffect DEF Statuses
  <2>. QED
    BY <2>1, <2>2 DEF Move
<1>22. ASSUME UNCHANGED vars PROVE TypeInv'
  BY <1>22 DEF vars
<1>. QED
  BY <1>1, <1>2, <1>3, <1>4, <1>5, <1>6, <1>7, <1>8, <1>9, <1>10, <1>11,
     <1>12, <1>13, <1>14, <1>15, <1>16, <1>17, <1>18, <1>19, <1>20, <1>21,
     <1>22
     DEF Next, Review, RefreshAndSign, SubmitAndConfirm

\* What Send does to the chain: the transfer that was shown is out, or
\* nothing has changed; and a reply means that it is out.
LEMMA SendEffect ==
    ASSUME TypeInv, command \in Commands, Send
    PROVE  /\ \/ chain' = chain /\ stage' # "confirming"
              \/ /\ chain'[command].status = "pending"
                 /\ chain'[command].target = shown.target
           /\ \A j \in Commands \ {command} : chain'[j] = chain[j]
           /\ command' = command /\ shown' = shown
  BY DEF TypeInv, Send, Submitted

\* No action parts the message from what was approved.
LEMMA QuoteStep ==
    ASSUME TypeInv, QuoteInv, [Next]_vars
    PROVE  QuoteInv'
<1>. USE DEF worldVars, commandVars, QuoteInv, Before, Sent
<1>1. ASSUME Begin PROVE QuoteInv'
  BY <1>1 DEF Begin
<1>2. ASSUME Quote PROVE QuoteInv'
  <2>1. stage' = "quoted" /\ shown \in Reviews
    BY <1>2 DEF Quote, TypeInv
  <2>2. shown'.kind = "all" => 0 < shown'.amount /\ shown'.amount <= shown'.balance
    <3>1. CASE shown.kind = "all"
      <4>1. PICK fee \in Fees,
                 rent \in IF shown.kind = "token" THEN Rents ELSE {0} :
               \E first \in Fees :
                  \E amount \in SpendAll(shown.balance, first) :
                     shown' = [shown EXCEPT !.amount = amount, !.fee = fee,
                                            !.rent = rent]
        BY <1>2, <3>1 DEF Quote
      <4>2. PICK first \in Fees :
               \E amount \in SpendAll(shown.balance, first) :
                  shown' = [shown EXCEPT !.amount = amount, !.fee = fee,
                                         !.rent = rent]
        BY <4>1
      <4>3. PICK amount \in SpendAll(shown.balance, first) :
               shown' = [shown EXCEPT !.amount = amount, !.fee = fee,
                                      !.rent = rent]
        BY <4>2
      <4>4. /\ shown'.amount = amount /\ shown'.balance = shown.balance
            /\ shown.balance \in Nat /\ first \in Nat
        BY <2>1, <4>3, TransactionAssumption DEF Reviews
      <4>5. shown.balance > first /\ amount = shown.balance - first
        BY <4>3 DEF SpendAll
      <4>. QED
        BY <4>4, <4>5
    <3>2. CASE shown.kind # "all"
      <4>1. shown'.kind = shown.kind
        BY <1>2, <2>1, <3>2 DEF Quote, Reviews
      <4>. QED
        BY <3>2, <4>1
    <3>. QED
      BY <3>1, <3>2
  <2>. QED
    BY <2>1, <2>2
<1>3. ASSUME Approve PROVE QuoteInv'
  BY <1>3 DEF Approve
<1>4. ASSUME Unlock PROVE QuoteInv'
  BY <1>4 DEF Unlock
<1>5. ASSUME Refuse PROVE QuoteInv'
  BY <1>5 DEF Refuse, Over
<1>6. ASSUME Refresh PROVE QuoteInv'
  <2>1. shown \in Reviews
    BY <1>6 DEF Refresh, TypeInv
  <2>2. PICK h \in 0..height :
          tx' = [amount |-> shown.amount, fee |-> shown.fee,
                 rent |-> shown.rent, balance |-> shown.balance,
                 lastValid |-> h + Validity]
    BY <1>6 DEF Refresh, Refreshed
  <2>. QED
    BY <1>6, <2>2 DEF Refresh, Refreshed
<1>7. ASSUME LoadSigner PROVE QuoteInv'
  BY <1>7 DEF LoadSigner
<1>8. ASSUME Sign PROVE QuoteInv'
  BY <1>8 DEF Sign
<1>9. ASSUME Send PROVE QuoteInv'
  BY <1>9 DEF Send, Submitted
<1>10. ASSUME Poll PROVE QuoteInv'
  BY <1>10 DEF Poll
<1>11. ASSUME StopPolling PROVE QuoteInv'
  BY <1>11 DEF StopPolling
<1>12. ASSUME ReportUnknown PROVE QuoteInv'
  BY <1>12 DEF ReportUnknown, Over
<1>13. ASSUME ReportConfirmed PROVE QuoteInv'
  BY <1>13 DEF ReportConfirmed, Over
<1>14. ASSUME Kill PROVE QuoteInv'
  BY <1>14 DEF Kill, Over
<1>15. ASSUME Lock PROVE QuoteInv'
  BY <1>15 DEF Lock
<1>16. ASSUME ReplaceWallet PROVE QuoteInv'
  BY <1>16 DEF ReplaceWallet
<1>17. ASSUME Grow PROVE QuoteInv'
  BY <1>17 DEF Grow
<1>18. ASSUME NEW i \in Commands, Execute(i) PROVE QuoteInv'
  BY <1>18 DEF Execute, Move
<1>19. ASSUME NEW i \in Commands, Fork(i) PROVE QuoteInv'
  BY <1>19 DEF Fork, Move
<1>20. ASSUME NEW i \in Commands, Confirm(i) PROVE QuoteInv'
  BY <1>20 DEF Confirm, Move
<1>21. ASSUME NEW i \in Commands, Expire(i) PROVE QuoteInv'
  BY <1>21 DEF Expire, Move
<1>22. ASSUME UNCHANGED vars PROVE QuoteInv'
  BY <1>22 DEF vars
<1>. QED
  BY <1>1, <1>2, <1>3, <1>4, <1>5, <1>6, <1>7, <1>8, <1>9, <1>10, <1>11,
     <1>12, <1>13, <1>14, <1>15, <1>16, <1>17, <1>18, <1>19, <1>20, <1>21,
     <1>22
     DEF Next, Review, RefreshAndSign, SubmitAndConfirm

\* A transfer that was sent moves on as one that was sent.
LEMMA ChainMoved ==
    ASSUME TypeInv, ChainInv, NEW i \in Commands,
           NEW s \in Statuses \ {"unsent"}, Move(i, s),
           chain[i].status # "unsent"
    PROVE  ChainInv'
<1>1. UNCHANGED <<stage, outcome, command, shown>>
  BY DEF Move, commandVars
<1>2. /\ chain'[i].target = chain[i].target
      /\ \A j \in Commands \ {i} : chain'[j] = chain[j]
  BY MoveEffect DEF TypeInv
<1>3. \A j \in Commands : chain'[j].target = chain[j].target
  BY <1>2, Zenon
<1>4. \A j \in Commands :
          chain[j].status = "unsent" => chain'[j].status = "unsent"
  BY <1>2, Zenon
<1>5. stage \in Before \cup {"signed", "confirming", "confirmed"} =>
          command \in Commands
  BY DEF ChainInv, Before
<1>. QED
  BY <1>1, <1>3, <1>4, <1>5 DEF ChainInv

\* Nothing reaches the chain before Send or for a later command.
LEMMA ChainStep ==
    ASSUME TypeInv, ChainInv, [Next]_vars
    PROVE  ChainInv'
<1>. USE DEF worldVars, commandVars, TypeInv, ChainInv, Before, Sent,
             Statuses, Commands
<1>1. ASSUME Begin PROVE ChainInv'
  BY <1>1 DEF Begin
<1>2. ASSUME Quote PROVE ChainInv'
  BY <1>2 DEF Quote
<1>3. ASSUME Approve PROVE ChainInv'
  BY <1>3 DEF Approve
<1>4. ASSUME Unlock PROVE ChainInv'
  BY <1>4 DEF Unlock
<1>5. ASSUME Refuse PROVE ChainInv'
  BY <1>5 DEF Refuse, Over
<1>6. ASSUME Refresh PROVE ChainInv'
  BY <1>6 DEF Refresh, Refreshed
<1>7. ASSUME LoadSigner PROVE ChainInv'
  BY <1>7 DEF LoadSigner
<1>8. ASSUME Sign PROVE ChainInv'
  BY <1>8 DEF Sign
<1>9. ASSUME Send PROVE ChainInv'
  <2>1. /\ stage' \in {"confirming", "unknown"}
        /\ command' = command /\ shown' = shown /\ outcome' = outcome
    BY <1>9 DEF Send
  <2>2. /\ command \in Commands /\ chain[command].status = "unsent"
        /\ outcome = "none"
    BY <1>9 DEF Send
  <2>3. stage' = "confirming" => chain'[command].target = shown.target
    BY <1>9, <2>2, SendEffect
  <2>4. \A j \in Commands : j > command => chain'[j].status = "unsent"
    BY <1>9, <2>2, SendEffect
  <2>. QED
    BY <2>1, <2>2, <2>3, <2>4
<1>10. ASSUME Poll PROVE ChainInv'
  BY <1>10 DEF Poll
<1>11. ASSUME StopPolling PROVE ChainInv'
  BY <1>11 DEF StopPolling
<1>12. ASSUME ReportUnknown PROVE ChainInv'
  BY <1>12 DEF ReportUnknown, Over
<1>13. ASSUME ReportConfirmed PROVE ChainInv'
  BY <1>13 DEF ReportConfirmed, Over
<1>14. ASSUME Kill PROVE ChainInv'
  BY <1>14 DEF Kill, Over
<1>15. ASSUME Lock PROVE ChainInv'
  BY <1>15 DEF Lock
<1>16. ASSUME ReplaceWallet PROVE ChainInv'
  BY <1>16 DEF ReplaceWallet
<1>17. ASSUME Grow PROVE ChainInv'
  BY <1>17 DEF Grow
<1>18. ASSUME NEW i \in Commands, Execute(i) PROVE ChainInv'
  <2>1. PICK s \in {"processed", "failed"} : Move(i, s)
    BY <1>18 DEF Execute
  <2>2. s \in Statuses \ {"unsent"} /\ chain[i].status # "unsent"
    BY <1>18, <2>1 DEF Execute
  <2>. QED
    BY <2>1, <2>2, ChainMoved
<1>19. ASSUME NEW i \in Commands, Fork(i) PROVE ChainInv'
  <2>1. Move(i, "pending")
    BY <1>19 DEF Fork
  <2>2. "pending" \in Statuses \ {"unsent"} /\ chain[i].status # "unsent"
    BY <1>19 DEF Fork
  <2>. QED
    BY <2>1, <2>2, ChainMoved
<1>20. ASSUME NEW i \in Commands, Confirm(i) PROVE ChainInv'
  <2>1. Move(i, "confirmed")
    BY <1>20 DEF Confirm
  <2>2. "confirmed" \in Statuses \ {"unsent"} /\ chain[i].status # "unsent"
    BY <1>20 DEF Confirm
  <2>. QED
    BY <2>1, <2>2, ChainMoved
<1>21. ASSUME NEW i \in Commands, Expire(i) PROVE ChainInv'
  <2>1. Move(i, "expired")
    BY <1>21 DEF Expire
  <2>2. "expired" \in Statuses \ {"unsent"} /\ chain[i].status # "unsent"
    BY <1>21 DEF Expire
  <2>. QED
    BY <2>1, <2>2, ChainMoved
<1>22. ASSUME UNCHANGED vars PROVE ChainInv'
  BY <1>22 DEF vars
<1>. QED
  BY <1>1, <1>2, <1>3, <1>4, <1>5, <1>6, <1>7, <1>8, <1>9, <1>10, <1>11,
     <1>12, <1>13, <1>14, <1>15, <1>16, <1>17, <1>18, <1>19, <1>20, <1>21,
     <1>22
     DEF Next, Review, RefreshAndSign, SubmitAndConfirm

\* Every way out of refresh_and_sign, and its end, drops the keys.
LEMMA KeysStep ==
    ASSUME TypeInv, KeysOnlyForSigning, [Next]_vars
    PROVE  KeysOnlyForSigning'
<1>. USE DEF worldVars, commandVars, TypeInv, KeysOnlyForSigning, Signing,
             Before, Sent
<1>1. ASSUME Begin PROVE KeysOnlyForSigning'
  BY <1>1 DEF Begin
<1>2. ASSUME Quote PROVE KeysOnlyForSigning'
  BY <1>2 DEF Quote
<1>3. ASSUME Approve PROVE KeysOnlyForSigning'
  BY <1>3 DEF Approve
<1>4. ASSUME Unlock PROVE KeysOnlyForSigning'
  BY <1>4 DEF Unlock
<1>5. ASSUME Refuse PROVE KeysOnlyForSigning'
  BY <1>5 DEF Refuse, Over
<1>6. ASSUME Refresh PROVE KeysOnlyForSigning'
  BY <1>6 DEF Refresh, Refreshed
<1>7. ASSUME LoadSigner PROVE KeysOnlyForSigning'
  BY <1>7 DEF LoadSigner
<1>8. ASSUME Sign PROVE KeysOnlyForSigning'
  BY <1>8 DEF Sign
<1>9. ASSUME Send PROVE KeysOnlyForSigning'
  BY <1>9 DEF Send, Submitted
<1>10. ASSUME Poll PROVE KeysOnlyForSigning'
  BY <1>10 DEF Poll
<1>11. ASSUME StopPolling PROVE KeysOnlyForSigning'
  BY <1>11 DEF StopPolling
<1>12. ASSUME ReportUnknown PROVE KeysOnlyForSigning'
  BY <1>12 DEF ReportUnknown, Over
<1>13. ASSUME ReportConfirmed PROVE KeysOnlyForSigning'
  BY <1>13 DEF ReportConfirmed, Over
<1>14. ASSUME Kill PROVE KeysOnlyForSigning'
  BY <1>14 DEF Kill, Over
<1>15. ASSUME Lock PROVE KeysOnlyForSigning'
  BY <1>15 DEF Lock
<1>16. ASSUME ReplaceWallet PROVE KeysOnlyForSigning'
  BY <1>16 DEF ReplaceWallet
<1>17. ASSUME Grow PROVE KeysOnlyForSigning'
  BY <1>17 DEF Grow
<1>18. ASSUME NEW i \in Commands, Execute(i) PROVE KeysOnlyForSigning'
  BY <1>18 DEF Execute, Move
<1>19. ASSUME NEW i \in Commands, Fork(i) PROVE KeysOnlyForSigning'
  BY <1>19 DEF Fork, Move
<1>20. ASSUME NEW i \in Commands, Confirm(i) PROVE KeysOnlyForSigning'
  BY <1>20 DEF Confirm, Move
<1>21. ASSUME NEW i \in Commands, Expire(i) PROVE KeysOnlyForSigning'
  BY <1>21 DEF Expire, Move
<1>22. ASSUME UNCHANGED vars PROVE KeysOnlyForSigning'
  BY <1>22 DEF vars
<1>. QED
  BY <1>1, <1>2, <1>3, <1>4, <1>5, <1>6, <1>7, <1>8, <1>9, <1>10, <1>11,
     <1>12, <1>13, <1>14, <1>15, <1>16, <1>17, <1>18, <1>19, <1>20, <1>21,
     <1>22
     DEF Next, Review, RefreshAndSign, SubmitAndConfirm

\* Only a command that has not come to Send returns an error, and what it
\* did not send is never sent.
LEMMA ErrorStep ==
    ASSUME TypeInv, ChainInv, ErrorMeansNothingSent, [Next]_vars
    PROVE  ErrorMeansNothingSent'
<1>. USE DEF worldVars, commandVars, TypeInv, ChainInv,
             ErrorMeansNothingSent, Before, Sent, Statuses, Commands
<1>1. ASSUME Begin PROVE ErrorMeansNothingSent'
  BY <1>1 DEF Begin
<1>2. ASSUME Quote PROVE ErrorMeansNothingSent'
  BY <1>2 DEF Quote
<1>3. ASSUME Approve PROVE ErrorMeansNothingSent'
  BY <1>3 DEF Approve
<1>4. ASSUME Unlock PROVE ErrorMeansNothingSent'
  BY <1>4 DEF Unlock
<1>5. ASSUME Refuse PROVE ErrorMeansNothingSent'
  BY <1>5 DEF Refuse, Over
<1>6. ASSUME Refresh PROVE ErrorMeansNothingSent'
  BY <1>6 DEF Refresh, Refreshed
<1>7. ASSUME LoadSigner PROVE ErrorMeansNothingSent'
  BY <1>7 DEF LoadSigner
<1>8. ASSUME Sign PROVE ErrorMeansNothingSent'
  BY <1>8 DEF Sign
<1>9. ASSUME Send PROVE ErrorMeansNothingSent'
  <2>1. /\ stage' \in {"confirming", "unknown"}
        /\ command' = command /\ shown' = shown /\ outcome' = outcome
    BY <1>9 DEF Send
  <2>2. /\ command \in Commands /\ chain[command].status = "unsent"
        /\ outcome = "none"
    BY <1>9 DEF Send
  <2>3. stage' = "confirming" => chain'[command].target = shown.target
    BY <1>9, <2>2, SendEffect
  <2>4. \A j \in Commands : j > command => chain'[j].status = "unsent"
    BY <1>9, <2>2, SendEffect
  <2>. QED
    BY <2>1, <2>2, <2>3, <2>4
<1>10. ASSUME Poll PROVE ErrorMeansNothingSent'
  BY <1>10 DEF Poll
<1>11. ASSUME StopPolling PROVE ErrorMeansNothingSent'
  BY <1>11 DEF StopPolling
<1>12. ASSUME ReportUnknown PROVE ErrorMeansNothingSent'
  BY <1>12 DEF ReportUnknown, Over
<1>13. ASSUME ReportConfirmed PROVE ErrorMeansNothingSent'
  BY <1>13 DEF ReportConfirmed, Over
<1>14. ASSUME Kill PROVE ErrorMeansNothingSent'
  BY <1>14 DEF Kill, Over
<1>15. ASSUME Lock PROVE ErrorMeansNothingSent'
  BY <1>15 DEF Lock
<1>16. ASSUME ReplaceWallet PROVE ErrorMeansNothingSent'
  BY <1>16 DEF ReplaceWallet
<1>17. ASSUME Grow PROVE ErrorMeansNothingSent'
  BY <1>17 DEF Grow
<1>18. ASSUME NEW i \in Commands, Execute(i) PROVE ErrorMeansNothingSent'
  <2>1. PICK s \in {"processed", "failed"} : Move(i, s)
    BY <1>18 DEF Execute
  <2>. QED
    BY <1>18, <2>1, MoveEffect DEF Execute, Move
<1>19. ASSUME NEW i \in Commands, Fork(i) PROVE ErrorMeansNothingSent'
  <2>1. Move(i, "pending")
    BY <1>19 DEF Fork
  <2>. QED
    BY <1>19, <2>1, MoveEffect DEF Fork, Move
<1>20. ASSUME NEW i \in Commands, Confirm(i) PROVE ErrorMeansNothingSent'
  <2>1. Move(i, "confirmed")
    BY <1>20 DEF Confirm
  <2>. QED
    BY <1>20, <2>1, MoveEffect DEF Confirm, Move
<1>21. ASSUME NEW i \in Commands, Expire(i) PROVE ErrorMeansNothingSent'
  <2>1. Move(i, "expired")
    BY <1>21 DEF Expire
  <2>. QED
    BY <1>21, <2>1, MoveEffect DEF Expire, Move
<1>22. ASSUME UNCHANGED vars PROVE ErrorMeansNothingSent'
  BY <1>22 DEF vars
<1>. QED
  BY <1>1, <1>2, <1>3, <1>4, <1>5, <1>6, <1>7, <1>8, <1>9, <1>10, <1>11,
     <1>12, <1>13, <1>14, <1>15, <1>16, <1>17, <1>18, <1>19, <1>20, <1>21,
     <1>22
     DEF Next, Review, RefreshAndSign, SubmitAndConfirm

\* A transfer that is not confirmed is not what success was concluded from.
LEMMA LandedMoved ==
    ASSUME TypeInv, ChainInv, ConfirmedLanded, NEW i \in Commands,
           NEW s \in Statuses, Move(i, s), chain[i].status # "confirmed"
    PROVE  ConfirmedLanded'
<1>1. UNCHANGED <<stage, outcome, command>>
  BY DEF Move, commandVars
<1>2. \A j \in Commands \ {i} : chain'[j] = chain[j]
  BY MoveEffect DEF TypeInv
<1>3. outcome = "confirmed" \/ stage = "confirmed" => command \in Commands
  BY DEF ChainInv
<1>4. outcome = "confirmed" \/ stage = "confirmed" =>
          chain[command].status = "confirmed"
  BY DEF ConfirmedLanded
<1>. QED
  BY <1>1, <1>2, <1>3, <1>4 DEF ConfirmedLanded

\* Success is concluded from a final answer, and what is confirmed stays so.
LEMMA LandedStep ==
    ASSUME TypeInv, ChainInv, ConfirmedLanded, [Next]_vars
    PROVE  ConfirmedLanded'
<1>. USE DEF worldVars, commandVars, TypeInv, ChainInv, ConfirmedLanded,
             Before, Sent, Statuses, Commands
<1>1. ASSUME Begin PROVE ConfirmedLanded'
  BY <1>1 DEF Begin
<1>2. ASSUME Quote PROVE ConfirmedLanded'
  BY <1>2 DEF Quote
<1>3. ASSUME Approve PROVE ConfirmedLanded'
  BY <1>3 DEF Approve
<1>4. ASSUME Unlock PROVE ConfirmedLanded'
  BY <1>4 DEF Unlock
<1>5. ASSUME Refuse PROVE ConfirmedLanded'
  BY <1>5 DEF Refuse, Over
<1>6. ASSUME Refresh PROVE ConfirmedLanded'
  BY <1>6 DEF Refresh, Refreshed
<1>7. ASSUME LoadSigner PROVE ConfirmedLanded'
  BY <1>7 DEF LoadSigner
<1>8. ASSUME Sign PROVE ConfirmedLanded'
  BY <1>8 DEF Sign
<1>9. ASSUME Send PROVE ConfirmedLanded'
  <2>1. /\ stage' \in {"confirming", "unknown"}
        /\ command' = command /\ shown' = shown /\ outcome' = outcome
    BY <1>9 DEF Send
  <2>2. /\ command \in Commands /\ chain[command].status = "unsent"
        /\ outcome = "none"
    BY <1>9 DEF Send
  <2>3. stage' = "confirming" => chain'[command].target = shown.target
    BY <1>9, <2>2, SendEffect
  <2>4. \A j \in Commands : j > command => chain'[j].status = "unsent"
    BY <1>9, <2>2, SendEffect
  <2>. QED
    BY <2>1, <2>2, <2>3, <2>4
<1>10. ASSUME Poll PROVE ConfirmedLanded'
  <2>1. stage' = "confirmed" => chain[command].status = "confirmed"
    BY <1>10 DEF Poll, Final, Answers
  <2>. QED
    BY <1>10, <2>1 DEF Poll
<1>11. ASSUME StopPolling PROVE ConfirmedLanded'
  BY <1>11 DEF StopPolling
<1>12. ASSUME ReportUnknown PROVE ConfirmedLanded'
  BY <1>12 DEF ReportUnknown, Over
<1>13. ASSUME ReportConfirmed PROVE ConfirmedLanded'
  BY <1>13 DEF ReportConfirmed, Over
<1>14. ASSUME Kill PROVE ConfirmedLanded'
  BY <1>14 DEF Kill, Over
<1>15. ASSUME Lock PROVE ConfirmedLanded'
  BY <1>15 DEF Lock
<1>16. ASSUME ReplaceWallet PROVE ConfirmedLanded'
  BY <1>16 DEF ReplaceWallet
<1>17. ASSUME Grow PROVE ConfirmedLanded'
  BY <1>17 DEF Grow
<1>18. ASSUME NEW i \in Commands, Execute(i) PROVE ConfirmedLanded'
  <2>1. PICK s \in {"processed", "failed"} : Move(i, s)
    BY <1>18 DEF Execute
  <2>2. s \in Statuses /\ chain[i].status # "confirmed"
    BY <1>18, <2>1 DEF Execute
  <2>. QED
    BY <2>1, <2>2, LandedMoved
<1>19. ASSUME NEW i \in Commands, Fork(i) PROVE ConfirmedLanded'
  <2>1. Move(i, "pending")
    BY <1>19 DEF Fork
  <2>2. "pending" \in Statuses /\ chain[i].status # "confirmed"
    BY <1>19 DEF Fork
  <2>. QED
    BY <2>1, <2>2, LandedMoved
<1>20. ASSUME NEW i \in Commands, Confirm(i) PROVE ConfirmedLanded'
  <2>1. Move(i, "confirmed")
    BY <1>20 DEF Confirm
  <2>2. "confirmed" \in Statuses /\ chain[i].status # "confirmed"
    BY <1>20 DEF Confirm
  <2>. QED
    BY <2>1, <2>2, LandedMoved
<1>21. ASSUME NEW i \in Commands, Expire(i) PROVE ConfirmedLanded'
  <2>1. Move(i, "expired")
    BY <1>21 DEF Expire
  <2>2. "expired" \in Statuses /\ chain[i].status # "confirmed"
    BY <1>21 DEF Expire
  <2>. QED
    BY <2>1, <2>2, LandedMoved
<1>22. ASSUME UNCHANGED vars PROVE ConfirmedLanded'
  BY <1>22 DEF vars
<1>. QED
  BY <1>1, <1>2, <1>3, <1>4, <1>5, <1>6, <1>7, <1>8, <1>9, <1>10, <1>11,
     <1>12, <1>13, <1>14, <1>15, <1>16, <1>17, <1>18, <1>19, <1>20, <1>21,
     <1>22
     DEF Next, Review, RefreshAndSign, SubmitAndConfirm

\* A recipient becomes known only by a payment, which is never taken back.
LEMMA KnownStep ==
    ASSUME TypeInv, ChainInv, ConfirmedLanded, KnownWerePaid, [Next]_vars
    PROVE  KnownWerePaid'
<1>. USE DEF worldVars, commandVars, TypeInv, ChainInv, KnownWerePaid,
             Before, Sent, Statuses
<1>1. ASSUME Begin PROVE KnownWerePaid'
  <2>1. known' = known /\ chain' = chain
    BY <1>1 DEF Begin
  <2>. QED
    BY <2>1
<1>2. ASSUME Quote PROVE KnownWerePaid'
  <2>1. known' = known /\ chain' = chain
    BY <1>2 DEF Quote
  <2>. QED
    BY <2>1
<1>3. ASSUME Approve PROVE KnownWerePaid'
  <2>1. known' = known /\ chain' = chain
    BY <1>3 DEF Approve
  <2>. QED
    BY <2>1
<1>4. ASSUME Unlock PROVE KnownWerePaid'
  <2>1. known' = known /\ chain' = chain
    BY <1>4 DEF Unlock
  <2>. QED
    BY <2>1
<1>5. ASSUME Refuse PROVE KnownWerePaid'
  <2>1. known' = known /\ chain' = chain
    BY <1>5 DEF Refuse, Over
  <2>. QED
    BY <2>1
<1>6. ASSUME Refresh PROVE KnownWerePaid'
  <2>1. known' = known /\ chain' = chain
    BY <1>6 DEF Refresh, Refreshed
  <2>. QED
    BY <2>1
<1>7. ASSUME LoadSigner PROVE KnownWerePaid'
  <2>1. known' = known /\ chain' = chain
    BY <1>7 DEF LoadSigner
  <2>. QED
    BY <2>1
<1>8. ASSUME Sign PROVE KnownWerePaid'
  <2>1. known' = known /\ chain' = chain
    BY <1>8 DEF Sign
  <2>. QED
    BY <2>1
<1>9. ASSUME Send PROVE KnownWerePaid'
  <2>1. command \in Commands /\ chain[command].status = "unsent"
    BY <1>9 DEF Send
  <2>2. known' = known
    BY <1>9 DEF Send
  <2>. QED
    BY <1>9, <2>1, <2>2, SendEffect
<1>10. ASSUME Poll PROVE KnownWerePaid'
  <2>1. known' = known /\ chain' = chain
    BY <1>10 DEF Poll
  <2>. QED
    BY <2>1
<1>11. ASSUME StopPolling PROVE KnownWerePaid'
  <2>1. known' = known /\ chain' = chain
    BY <1>11 DEF StopPolling
  <2>. QED
    BY <2>1
<1>12. ASSUME ReportUnknown PROVE KnownWerePaid'
  <2>1. known' = known /\ chain' = chain
    BY <1>12 DEF ReportUnknown, Over
  <2>. QED
    BY <2>1
<1>13. ASSUME ReportConfirmed PROVE KnownWerePaid'
  <2>1. /\ command \in Commands
        /\ chain[command].status = "confirmed"
        /\ chain[command].target = shown.target
    BY <1>13 DEF ReportConfirmed, ConfirmedLanded
  <2>2. chain' = chain /\ known' \subseteq known \cup {shown.target}
    BY <1>13 DEF ReportConfirmed
  <2>. QED
    BY <2>1, <2>2
<1>14. ASSUME Kill PROVE KnownWerePaid'
  <2>1. known' = known /\ chain' = chain
    BY <1>14 DEF Kill, Over
  <2>. QED
    BY <2>1
<1>15. ASSUME Lock PROVE KnownWerePaid'
  <2>1. known' = known /\ chain' = chain
    BY <1>15 DEF Lock
  <2>. QED
    BY <2>1
<1>16. ASSUME ReplaceWallet PROVE KnownWerePaid'
  <2>1. known' = known /\ chain' = chain
    BY <1>16 DEF ReplaceWallet
  <2>. QED
    BY <2>1
<1>17. ASSUME Grow PROVE KnownWerePaid'
  <2>1. known' = known /\ chain' = chain
    BY <1>17 DEF Grow
  <2>. QED
    BY <2>1
<1>18. ASSUME NEW i \in Commands, Execute(i) PROVE KnownWerePaid'
  <2>1. PICK s \in {"processed", "failed"} : Move(i, s)
    BY <1>18 DEF Execute
  <2>2. known' = known /\ chain[i].status # "confirmed"
    BY <1>18, <2>1 DEF Execute, Move
  <2>. QED
    BY <2>1, <2>2, MoveEffect
<1>19. ASSUME NEW i \in Commands, Fork(i) PROVE KnownWerePaid'
  <2>1. Move(i, "pending")
    BY <1>19 DEF Fork
  <2>2. known' = known /\ chain[i].status # "confirmed"
    BY <1>19, <2>1 DEF Fork, Move
  <2>. QED
    BY <2>1, <2>2, MoveEffect
<1>20. ASSUME NEW i \in Commands, Confirm(i) PROVE KnownWerePaid'
  <2>1. Move(i, "confirmed")
    BY <1>20 DEF Confirm
  <2>2. known' = known /\ chain[i].status # "confirmed"
    BY <1>20, <2>1 DEF Confirm, Move
  <2>. QED
    BY <2>1, <2>2, MoveEffect
<1>21. ASSUME NEW i \in Commands, Expire(i) PROVE KnownWerePaid'
  <2>1. Move(i, "expired")
    BY <1>21 DEF Expire
  <2>2. known' = known /\ chain[i].status # "confirmed"
    BY <1>21, <2>1 DEF Expire, Move
  <2>. QED
    BY <2>1, <2>2, MoveEffect
<1>22. ASSUME UNCHANGED vars PROVE KnownWerePaid'
  <2>1. known' = known /\ chain' = chain
    BY <1>22 DEF vars
  <2>. QED
    BY <2>1
<1>. QED
  BY <1>1, <1>2, <1>3, <1>4, <1>5, <1>6, <1>7, <1>8, <1>9, <1>10, <1>11,
     <1>12, <1>13, <1>14, <1>15, <1>16, <1>17, <1>18, <1>19, <1>20, <1>21,
     <1>22
     DEF Next, Review, RefreshAndSign, SubmitAndConfirm

-----------------------------------------------------------------------------
\* The invariant holds at the start: nothing is begun, nothing is sent.
LEMMA InitTransactionInv == Init => TransactionInv
<1>. SUFFICES ASSUME Init PROVE TransactionInv
  OBVIOUS
<1>. USE DEF Init
<1>1. chain \in [Commands -> Transfers]
  BY DEF Unsent, Transfers, Statuses
<1>2. TypeInv
  <2>1. /\ caching \in BOOLEAN /\ session \in BOOLEAN
        /\ wallet \in Addresses \cup {NoAddress}
        /\ known \in SUBSET Targets
    OBVIOUS
  <2>2. /\ polls \in 0..Polls /\ waited \in 0..Deadline
        /\ command \in 0..MaxCommands /\ height \in 0..MaxHeight
    OBVIOUS
  <2>. QED
    BY <1>1, <2>1, <2>2, NoTxType DEF TypeInv
<1>3. QuoteInv
  BY DEF QuoteInv, Before, Sent
<1>4. ChainInv
  BY DEF ChainInv, Before, Sent, Unsent
<1>5. KeysOnlyForSigning /\ ErrorMeansNothingSent /\ ConfirmedLanded
  BY DEF KeysOnlyForSigning, ErrorMeansNothingSent, ConfirmedLanded, Sent
<1>6. KnownWerePaid
  BY DEF KnownWerePaid
<1>. QED
  BY <1>2, <1>3, <1>4, <1>5, <1>6 DEF TransactionInv

\* The invariant is inductive.
LEMMA NextTransactionInv == TransactionInv /\ [Next]_vars => TransactionInv'
  BY TypeStep, QuoteStep, ChainStep, KeysStep, ErrorStep, LandedStep,
     KnownStep
     DEF TransactionInv

\* What the runs check follows from the invariant.
LEMMA TransactionInvImplies ==
    ASSUME TransactionInv
    PROVE  /\ TypeOK /\ SignedAsShown /\ ErrorMeansNothingSent
           /\ ConfirmedLanded /\ KnownWerePaid /\ KeysOnlyForSigning
           /\ DeadlineHonoured
<1>1. TypeOK
  <2>1. DOMAIN tx = DOMAIN NoTx /\ \A f \in DOMAIN tx : tx[f] \in Nat
    BY DEF TransactionInv, TypeInv, Messages, NoTx
  <2>2. stage # "idle" => shown.kind \in Kinds /\ shown.amount \in Nat
    BY DEF TransactionInv, TypeInv, Reviews
  <2>3. \A i \in Commands : chain[i].status \in Statuses
    BY DEF TransactionInv, TypeInv, Transfers
  <2>. QED
    BY <2>1, <2>2, <2>3 DEF TypeOK, TransactionInv, TypeInv
<1>2. SignedAsShown
  BY DEF TransactionInv, QuoteInv, SignedAsShown, Sent
<1>3. DeadlineHonoured
  BY DEF TransactionInv, TypeInv, DeadlineHonoured
<1>. QED
  BY <1>1, <1>2, <1>3 DEF TransactionInv

\* The invariant holds in every state that can be reached.
THEOREM TransactionInvariant == Spec => []TransactionInv
  BY InitTransactionInv, NextTransactionInv, PTL DEF Spec

\* Every variable keeps its type.
THEOREM TypeCorrect == Spec => []TypeOK
<1>1. TransactionInv => TypeOK
  BY TransactionInvImplies
<1>. QED
  BY <1>1, TransactionInvariant, PTL

\* refresh_and_sign signs what was approved, with the key of the address
\* that was shown, whatever the nodes answer and whatever becomes of the
\* vault meanwhile.
THEOREM SignsAsShown == Spec => []SignedAsShown
<1>1. TransactionInv => SignedAsShown
  BY TransactionInvImplies
<1>. QED
  BY <1>1, TransactionInvariant, PTL

\* send_transaction returns an error only while nothing is on its way.
THEOREM ErrorsSendNothing == Spec => []ErrorMeansNothingSent
<1>1. TransactionInv => ErrorMeansNothingSent
  BY TransactionInvImplies
<1>. QED
  BY <1>1, TransactionInvariant, PTL

\* submit_and_confirm reports only what no fork can take back.
THEOREM ConfirmedIsFinal == Spec => []ConfirmedLanded
<1>1. TransactionInv => ConfirmedLanded
  BY TransactionInvImplies
<1>. QED
  BY <1>1, TransactionInvariant, PTL

\* remember_recipient remembers only those who have been paid.
THEOREM KnownAreTrustworthy == Spec => []KnownWerePaid
<1>1. TransactionInv => KnownWerePaid
  BY TransactionInvImplies
<1>. QED
  BY <1>1, TransactionInvariant, PTL

\* Outside of refresh_and_sign no unlocking key is in memory that the policy
\* does not allow, on any way out of it, and the signing key is in memory
\* for its last call only.
THEOREM KeysGoneAfterSigning == Spec => []KeysOnlyForSigning
<1>1. TransactionInv => KeysOnlyForSigning
  BY TransactionInvImplies
<1>. QED
  BY <1>1, TransactionInvariant, PTL

\* The confirmation loop never passes its deadline, whatever its pause, its
\* timeout and its number of polls are.
THEOREM DeadlineKept == Spec => []DeadlineHonoured
<1>1. TransactionInv => DeadlineHonoured
  BY TransactionInvImplies
<1>. QED
  BY <1>1, TransactionInvariant, PTL

HIDE TransactionAssumption

-----------------------------------------------------------------------------
(* The amounts.  Division.                                                 *)

\* What division leaves,
LEMMA Divided ==
    ASSUME NEW n \in Nat, NEW m \in Nat \ {0}
    PROVE  /\ n \div m \in Nat /\ n % m \in 0..(m - 1)
           /\ n = m * (n \div m) + (n % m)
  OBVIOUS

\* is all that makes the number up,
LEMMA DividedUniquely ==
    ASSUME NEW m \in Nat \ {0}, NEW q \in Nat, NEW r \in 0..(m - 1)
    PROVE  (m * q + r) \div m = q /\ (m * q + r) % m = r
<1>. DEFINE n == m * q + r
            d == n \div m
            e == n % m
<1>1. n \in Nat
  OBVIOUS
<1>2. d \in Nat /\ e \in 0..(m - 1) /\ n = m * d + e
  BY <1>1, Divided
<1>. HIDE DEF d, e
<1>3. m * (d - q) = r - e
  BY <1>2
<1>4. d = q
  <2>1. ~(d - q >= 1)
    <3>1. SUFFICES ASSUME d - q >= 1 PROVE FALSE
      OBVIOUS
    <3>2. m * (d - q) >= m
      BY <1>2, <3>1
    <3>. QED
      BY <1>2, <1>3, <3>2
  <2>2. ~(d - q <= -1)
    <3>1. SUFFICES ASSUME d - q <= -1 PROVE FALSE
      OBVIOUS
    <3>2. m * (d - q) <= -m
      BY <1>2, <3>1
    <3>. QED
      BY <1>2, <1>3, <3>2
  <2>. QED
    BY <1>2, <2>1, <2>2
<1>5. e = r
  BY <1>2, <1>3, <1>4
<1>. QED
  BY <1>4, <1>5 DEF d, e

\* and dividing twice is dividing by the product.
LEMMA DividedTwice ==
    ASSUME NEW n \in Nat, NEW b \in Nat \ {0}, NEW p \in Nat \ {0}
    PROVE  n \div (b * p) = (n \div b) \div p
<1>. DEFINE q == n \div b
            d == n % b
            a == q \div p
            e == q % p
<1>1. q \in Nat /\ d \in 0..(b - 1) /\ n = b * q + d
  BY Divided
<1>2. a \in Nat /\ e \in 0..(p - 1) /\ q = p * a + e
  BY <1>1, Divided
<1>. HIDE DEF q, d, a, e
<1>3. n = (b * p) * a + (b * e + d)
  <2>1. b * q = b * (p * a) + b * e
    BY <1>2
  <2>2. b * (p * a) = (b * p) * a
    BY <1>2
  <2>. QED
    BY <1>1, <1>2, <2>1, <2>2
<1>4. b * p \in Nat \ {0} /\ b * e + d \in 0..(b * p - 1)
  <2>1. b * e <= b * (p - 1)
    BY <1>2
  <2>2. b * (p - 1) = b * p - b
    OBVIOUS
  <2>3. b * p \in Nat /\ b * p # 0 /\ b * e \in Nat
    BY <1>2
  <2>. QED
    BY <1>1, <2>1, <2>2, <2>3
<1>. DEFINE m == b * p
            r == b * e + d
<1>. HIDE DEF m, r
<1>5. (m * a + r) \div m = a
  BY <1>2, <1>4, DividedUniquely DEF m, r
<1>6. n = m * a + r
  BY <1>3 DEF m, r
<1>. QED
  BY <1>5, <1>6 DEF m, a, q

-----------------------------------------------------------------------------
(* Powers and numerals.                                                    *)

Digit == 0..(Base - 1)
Zeros(m) == [i \in 1..m |-> 0]

\* The powers of the base.
LEMMA Powers ==
    /\ Power[0] = 1
    /\ \A i \in 0..MaxDecimals : Power[i + 1] = Base * Power[i]
    /\ \A i \in 0..(MaxDecimals + 1) : Power[i] \in Nat \ {0}
<1>. DEFINE m == MaxDecimals + 1
            Law(f) == f = [n \in 0..m |-> IF n = 0 THEN 1 ELSE Base * f[n - 1]]
            Good(f, k) ==
                f = [n \in 0..k |-> IF n = 0 THEN 1 ELSE Base * f[n - 1]]
            S == {k \in Nat : \E f : Good(f, k)}
<1>1. m \in Nat /\ Base \in Nat \ {0}
  BY AmountAssumption
<1>. HIDE DEF m
<1>2. 0 \in S
  <2>. DEFINE f == [n \in 0..0 |-> 1]
  <2>1. Good(f, 0)
    OBVIOUS
  <2>. HIDE DEF f, Good
  <2>. QED
    BY <2>1
<1>3. ASSUME NEW k \in Nat, k \in S PROVE k + 1 \in S
  <2>1. PICK f : Good(f, k)
    BY <1>3
  <2>. DEFINE g == [n \in 0..(k + 1) |->
                       IF n = k + 1 THEN Base * f[k] ELSE f[n]]
  <2>2. \A n \in 0..k : f[n] = IF n = 0 THEN 1 ELSE Base * f[n - 1]
    BY <2>1
  <2>3. /\ \A n \in 0..k : g[n] = f[n]
        /\ g[k + 1] = Base * f[k]
    OBVIOUS
  <2>4. ASSUME NEW n \in 0..(k + 1)
        PROVE  g[n] = IF n = 0 THEN 1 ELSE Base * g[n - 1]
    <3>. HIDE DEF g
    <3>1. CASE n = k + 1
      <4>1. n # 0 /\ n - 1 = k /\ k \in 0..k
        BY <3>1
      <4>2. g[k] = f[k]
        BY <2>3, <4>1
      <4>. QED
        BY <2>3, <3>1, <4>1, <4>2
    <3>2. CASE n # k + 1
      <4>1. n \in 0..k /\ (n # 0 => n - 1 \in 0..k)
        BY <3>2
      <4>. QED
        BY <2>2, <2>3, <4>1
    <3>. QED
      BY <3>1, <3>2
  <2>5. g = [n \in 0..(k + 1) |-> g[n]]
    OBVIOUS
  <2>. HIDE DEF g
  <2>6. Good(g, k + 1)
    BY <2>4, <2>5
  <2>. HIDE DEF Good
  <2>. QED
    BY <2>6
<1>4. \E f : Good(f, m)
  <2>1. Nat \subseteq S
    <3>. HIDE DEF S
    <3>. QED
      BY <1>2, <1>3, NumberInduction
  <2>. HIDE DEF Good
  <2>. QED
    BY <1>1, <2>1
<1>5. Power = CHOOSE f : Law(f)
  BY DEF Power, m
<1>6. Law(Power)
  <2>1. \E f : Law(f)
    BY <1>4
  <2>. HIDE DEF Law
  <2>. QED
    BY <1>5, <2>1
<1>7. \A n \in 0..m : Power[n] = IF n = 0 THEN 1 ELSE Base * Power[n - 1]
  BY <1>6
<1>. HIDE DEF Law, Good, S
<1>8. Power[0] = 1
  BY <1>1, <1>7
<1>9. ASSUME NEW i \in 0..MaxDecimals PROVE Power[i + 1] = Base * Power[i]
  <2>1. i + 1 \in 0..m /\ i + 1 # 0 /\ (i + 1) - 1 = i
    BY AmountAssumption DEF m
  <2>. QED
    BY <1>7, <2>1
<1>. DEFINE T == {k \in Nat : k <= m => Power[k] \in Nat \ {0}}
<1>10. 0 \in T
  BY <1>8
<1>11. ASSUME NEW k \in Nat, k \in T PROVE k + 1 \in T
  <2>1. SUFFICES ASSUME k + 1 <= m PROVE Power[k + 1] \in Nat \ {0}
    OBVIOUS
  <2>2. k \in 0..MaxDecimals /\ k <= m
    BY <1>1, <2>1, AmountAssumption DEF m
  <2>3. Power[k] \in Nat \ {0} /\ Power[k + 1] = Base * Power[k]
    BY <1>9, <1>11, <2>2
  <2>. DEFINE p == Power[k]
  <2>. HIDE DEF p
  <2>4. Base * p \in Nat \ {0}
    BY <1>1, <2>3 DEF p
  <2>. QED
    BY <2>3, <2>4 DEF p
<1>12. Nat \subseteq T
  <2>. HIDE DEF T
  <2>. QED
    BY <1>10, <1>11, NumberInduction
<1>13. \A i \in 0..(MaxDecimals + 1) : Power[i] \in Nat \ {0}
  BY <1>12, AmountAssumption DEF m
<1>. QED
  BY <1>8, <1>9, <1>13

\* Digits of any size.
Numerals == Seq(Nat)

\* It is of no account which two of three are joined first.
LEMMA NumeralsJoined ==
    ASSUME NEW a \in Numerals, NEW b \in Numerals, NEW c \in Numerals
    PROVE  (a \o b) \o c = a \o (b \o c)
  BY JoinedInAnyOrder DEF Numerals

\* r gives the values of the first digits of s.
Reads(s, r) ==
    /\ r[0] = 0 /\ \A k \in 0..Len(s) : r[k] \in Nat
    /\ \A k \in 1..Len(s) : r[k] = r[k - 1] * Base + s[k]

\* Value takes the digits one after the other.
LEMMA ValueReads ==
    ASSUME NEW s \in Seq(Nat)
    PROVE  \E r : Reads(s, r) /\ Value(s) = r[Len(s)]
<1>. DEFINE len == Len(s)
            apply == [k \in 1..len |-> [v \in Nat |-> v * Base + s[k]]]
            Law(g) == g = [u \in SUBSET (1..len) |->
                             IF u = {} THEN 0
                             ELSE g[u \ {Max(u)}] * Base + s[Max(u)]]
            chosen == CHOOSE g : Law(g)
<1>1. len \in Nat /\ DOMAIN s = 1..len /\ \A i \in 1..len : s[i] \in Nat
  OBVIOUS
<1>2. Value(s) = chosen[1..len]
  BY <1>1 DEF Value, FoldLeft, MapThenFoldSet
<1>3. Base \in Nat
  BY AmountAssumption
<1>4. ASSUME NEW v \in Nat, NEW d \in Nat PROVE v * Base + d \in Nat
  BY <1>3
<1>5. apply \in [1..len -> [Nat -> Nat]]
  BY <1>1, <1>4
<1>6. \A k \in 1..len : \A v \in Nat : apply[k][v] = v * Base + s[k]
  OBVIOUS
<1>. HIDE DEF apply, len
<1>7. PICK f \in [SUBSET (1..len) -> Nat] : IsFold(len, 0, apply, f)
  BY <1>1, <1>5, FoldExists
<1>8. ASSUME NEW u \in SUBSET (1..len), u # {}
      PROVE  apply[Max(u)][f[u \ {Max(u)}]]
                = f[u \ {Max(u)}] * Base + s[Max(u)]
  <2>1. u \in SUBSET (0..len)
    BY <1>1
  <2>2. Max(u) \in u
    BY <1>1, <1>8, <2>1, Greatest
  <2>3. Max(u) \in 1..len /\ f[u \ {Max(u)}] \in Nat
    BY <2>2
  <2>. QED
    BY <1>6, <2>3
<1>9. Law(f)
  BY <1>7, <1>8 DEF IsFold
<1>10. Law(chosen)
  <2>. HIDE DEF Law
  <2>. QED
    BY <1>9
<1>. HIDE DEF chosen
<1>11. \A u \in SUBSET (1..len) :
          chosen[u] = IF u = {} THEN 0
                      ELSE chosen[u \ {Max(u)}] * Base + s[Max(u)]
  BY <1>10
<1>. DEFINE r == [k \in 0..len |-> chosen[1..k]]
<1>12. r[0] = 0
  <2>1. 1..0 = {}
    OBVIOUS
  <2>2. 0 \in 0..len /\ {} \in SUBSET (1..len)
    BY <1>1
  <2>. QED
    BY <1>11, <2>1, <2>2
<1>13. ASSUME NEW k \in 1..len PROVE r[k] = r[k - 1] * Base + s[k]
  <2>1. 1..k # {} /\ Max(1..k) = k /\ (1..k) \ {k} = 1..(k - 1)
    <3>1. k \in Nat /\ k # 0
      BY <1>1
    <3>. QED
      BY <3>1, FirstPositions
  <2>2. 1..k \in SUBSET (1..len) /\ k \in 0..len /\ k - 1 \in 0..len
    BY <1>1
  <2>. QED
    BY <1>11, <2>1, <2>2
<1>. DEFINE N == {k \in Nat : k <= len => r[k] \in Nat}
<1>14. 0 \in N
  BY <1>12
<1>15. ASSUME NEW k \in Nat, k \in N PROVE k + 1 \in N
  <2>1. SUFFICES ASSUME k + 1 <= len PROVE r[k + 1] \in Nat
    OBVIOUS
  <2>2. k + 1 \in 1..len /\ (k + 1) - 1 = k /\ k <= len
    BY <1>1, <2>1
  <2>. HIDE DEF r
  <2>3. r[k] \in Nat
    BY <1>15, <2>2
  <2>4. r[k + 1] = r[k] * Base + s[k + 1]
    BY <1>13, <2>2
  <2>5. s[k + 1] \in Nat
    BY <1>1, <2>2
  <2>. QED
    BY <1>4, <2>3, <2>4, <2>5
<1>16. \A k \in 0..len : r[k] \in Nat
  <2>. HIDE DEF r
  <2>1. Nat \subseteq N
    <3>. HIDE DEF N
    <3>. QED
      BY <1>14, <1>15, NumberInduction
  <2>. QED
    BY <1>1, <2>1
<1>17. Value(s) = r[len]
  BY <1>1, <1>2
<1>. HIDE DEF r
<1>18. Reads(s, r)
  BY <1>12, <1>13, <1>16 DEF Reads, len
<1>. QED
  BY <1>17, <1>18 DEF len

\* No digits are zero.
LEMMA ValueType ==
    /\ <<>> \in Seq(Nat) /\ Value(<<>>) = 0
    /\ \A s \in Seq(Nat) : Value(s) \in Nat
<1>1. <<>> \in Seq(Nat) /\ Len(<<>>) = 0
  OBVIOUS
<1>2. Value(<<>>) = 0
  BY <1>1, ValueReads DEF Reads
<1>3. ASSUME NEW s \in Seq(Nat) PROVE Value(s) \in Nat
  <2>1. Len(s) \in 0..Len(s)
    OBVIOUS
  <2>. QED
    BY <2>1, ValueReads DEF Reads
<1>. QED
  BY <1>1, <1>2, <1>3

\* The same first digits have the same value.
LEMMA SameDigits ==
    ASSUME NEW s \in Numerals, NEW t \in Numerals,
           NEW r, Reads(s, r), NEW q, Reads(t, q),
           NEW n \in Nat, n <= Len(s), n <= Len(t),
           \A k \in 1..n : s[k] = t[k]
    PROVE  r[n] = q[n]
<1>. DEFINE N == {k \in Nat : k <= n => r[k] = q[k]}
<1>1. Len(s) \in Nat /\ Len(t) \in Nat
  BY DEF Numerals
<1>2. 0 \in N
  BY DEF Reads
<1>3. ASSUME NEW k \in Nat, k \in N PROVE k + 1 \in N
  <2>1. SUFFICES ASSUME k + 1 <= n PROVE r[k + 1] = q[k + 1]
    OBVIOUS
  <2>2. /\ k + 1 \in 1..n /\ k + 1 \in 1..Len(s) /\ k + 1 \in 1..Len(t)
        /\ (k + 1) - 1 = k
    BY <1>1, <2>1
  <2>3. r[k] = q[k] /\ s[k + 1] = t[k + 1]
    BY <1>3, <2>1, <2>2
  <2>4. /\ r[k + 1] = r[(k + 1) - 1] * Base + s[k + 1]
        /\ q[k + 1] = q[(k + 1) - 1] * Base + t[k + 1]
    BY <2>2 DEF Reads
  <2>. QED
    BY <2>2, <2>3, <2>4, Zenon
<1>4. Nat \subseteq N
  <2>. HIDE DEF N
  <2>. QED
    BY <1>2, <1>3, NumberInduction
<1>. QED
  BY <1>4

\* Digits that follow others move them up.
LEMMA ValueJoined ==
    ASSUME NEW p \in Seq(Nat), NEW q \in Seq(Nat), Len(q) <= MaxDecimals + 1
    PROVE  /\ p \o q \in Seq(Nat)
           /\ Value(p \o q) = Value(p) * Power[Len(q)] + Value(q)
<1>. DEFINE n == Len(p)
            m == Len(q)
            s == p \o q
<1>1. /\ s \in Seq(Nat) /\ Len(s) = n + m /\ n \in Nat /\ m \in Nat
      /\ \A k \in 1..(n + m) : s[k] = IF k <= n THEN p[k] ELSE q[k - n]
  BY ConcatAt
<1>2. m <= MaxDecimals + 1
  OBVIOUS
<1>3. PICK u : Reads(p, u) /\ Value(p) = u[n]
  BY ValueReads
<1>4. PICK v : Reads(q, v) /\ Value(q) = v[m]
  BY ValueReads
<1>. HIDE DEF s, n, m
<1>5. PICK r : Reads(s, r) /\ Value(s) = r[n + m]
  BY <1>1, ValueReads
<1>6. r[n] = u[n]
  <2>1. \A k \in 1..n : s[k] = p[k]
    BY <1>1
  <2>2. n \in Nat /\ n <= Len(s) /\ n <= Len(p)
    BY <1>1 DEF n
  <2>3. s \in Numerals /\ p \in Numerals /\ Reads(s, r) /\ Reads(p, u)
    BY <1>1, <1>3, <1>5 DEF Numerals
  <2>. QED
    BY <2>1, <2>2, <2>3, SameDigits
<1>7. /\ u[n] \in Nat /\ v[0] = 0 /\ \A k \in 0..m : v[k] \in Nat
      /\ \A k \in 1..m : v[k] = v[k - 1] * Base + q[k]
      /\ \A k \in 1..m : q[k] \in Nat
  BY <1>1, <1>3, <1>4 DEF Reads, n, m
<1>. DEFINE N == {k \in Nat : k <= m => r[n + k] = u[n] * Power[k] + v[k]}
<1>8. 0 \in N
  BY <1>1, <1>6, <1>7, Powers
<1>9. ASSUME NEW k \in Nat, k \in N PROVE k + 1 \in N
  <2>1. SUFFICES ASSUME k + 1 <= m
                 PROVE  r[n + (k + 1)] = u[n] * Power[k + 1] + v[k + 1]
    OBVIOUS
  <2>2. /\ k + 1 \in 1..m /\ (k + 1) - 1 = k /\ k \in 0..m /\ k <= m
        /\ n + (k + 1) \in 1..(n + m) /\ (n + (k + 1)) - 1 = n + k
        /\ ~(n + (k + 1) <= n) /\ (n + (k + 1)) - n = k + 1
        /\ k \in 0..MaxDecimals
    BY <1>1, <1>2, <2>1, AmountAssumption
  <2>3. r[n + k] = u[n] * Power[k] + v[k]
    BY <1>9, <2>2
  <2>4. s[n + (k + 1)] = q[k + 1]
    <3>1. s[n + (k + 1)] = q[(n + (k + 1)) - n]
      BY <1>1, <2>2
    <3>. QED
      BY <2>2, <3>1
  <2>5. r[n + (k + 1)] = r[(n + (k + 1)) - 1] * Base + s[n + (k + 1)]
    BY <1>1, <1>5, <2>2 DEF Reads
  <2>6. v[k + 1] = v[k] * Base + q[k + 1]
    BY <1>7, <2>2
  <2>7. /\ Power[k + 1] = Base * Power[k] /\ Power[k] \in Nat
        /\ v[k] \in Nat /\ q[k + 1] \in Nat /\ u[n] \in Nat /\ Base \in Nat
    <3>1. k \in 0..(MaxDecimals + 1)
      BY <2>2, AmountAssumption
    <3>. QED
      BY <1>7, <2>2, <3>1, Powers, AmountAssumption
  <2>8. r[n + (k + 1)] = (u[n] * Power[k] + v[k]) * Base + q[k + 1]
    BY <2>2, <2>3, <2>4, <2>5, Zenon
  <2>. DEFINE a == u[n]
              b == Base
              c == Power[k]
              d == v[k]
              e == q[k + 1]
  <2>. HIDE DEF a, b, c, d, e
  <2>9. (a * c + d) * b + e = a * (b * c) + (d * b + e)
    <3>1. a \in Nat /\ b \in Nat /\ c \in Nat /\ d \in Nat /\ e \in Nat
      BY <2>7 DEF a, b, c, d, e
    <3>. QED
      BY <3>1
  <2>. QED
    BY <2>6, <2>7, <2>8, <2>9 DEF a, b, c, d, e
<1>10. Nat \subseteq N
  <2>. HIDE DEF N
  <2>. QED
    BY <1>8, <1>9, NumberInduction
<1>11. r[n + m] = u[n] * Power[m] + v[m]
  BY <1>1, <1>10
<1>. QED
  BY <1>1, <1>3, <1>4, <1>5, <1>11 DEF s, n, m

\* Zeros are zero.
LEMMA ZerosValue ==
    ASSUME NEW m \in Nat
    PROVE  Zeros(m) \in Seq(Nat) /\ Len(Zeros(m)) = m /\ Value(Zeros(m)) = 0
<1>. DEFINE z == Zeros(m)
<1>1. z \in Seq(Nat) /\ Len(z) = m /\ \A k \in 1..m : z[k] = 0
  BY DEF Zeros
<1>. HIDE DEF z
<1>2. PICK r : Reads(z, r) /\ Value(z) = r[m]
  BY <1>1, ValueReads
<1>. DEFINE N == {k \in Nat : k <= m => r[k] = 0}
<1>3. 0 \in N
  BY <1>2 DEF Reads
<1>4. ASSUME NEW k \in Nat, k \in N PROVE k + 1 \in N
  <2>1. SUFFICES ASSUME k + 1 <= m PROVE r[k + 1] = 0
    OBVIOUS
  <2>2. k + 1 \in 1..m /\ (k + 1) - 1 = k /\ r[k] = 0
    BY <1>4, <2>1
  <2>3. r[k + 1] = r[(k + 1) - 1] * Base + z[k + 1]
    BY <1>1, <1>2, <2>2 DEF Reads
  <2>. QED
    BY <1>1, <2>2, <2>3, AmountAssumption
<1>5. Nat \subseteq N
  <2>. HIDE DEF N
  <2>. QED
    BY <1>3, <1>4, NumberInduction
<1>. QED
  BY <1>1, <1>2, <1>5 DEF z

\* An amount in base units: its digits, filled up with zeros.
LEMMA ValueFilled ==
    ASSUME NEW w \in Seq(Nat), NEW f \in Seq(Nat), NEW m \in Nat,
           Len(f) + m <= MaxDecimals
    PROVE  Value((w \o f) \o Zeros(m))
              = Value(w) * Power[Len(f) + m] + Value(f) * Power[m]
<1>. DEFINE z == Zeros(m)
            g == f \o z
<1>1. z \in Seq(Nat) /\ Len(z) = m /\ Value(z) = 0
  BY ZerosValue
<1>. HIDE DEF z
<1>2. Len(f) \in Nat /\ MaxDecimals \in Nat
  BY AmountAssumption
<1>3. g \in Seq(Nat) /\ Len(g) = Len(f) + m
  BY <1>1, ConcatAt
<1>4. (w \o f) \o z = w \o g
  <2>1. w \in Numerals /\ f \in Numerals /\ z \in Numerals
    BY <1>1 DEF Numerals
  <2>2. (w \o f) \o z = w \o (f \o z)
    BY <2>1, NumeralsJoined, Zenon
  <2>. QED
    BY <2>2
<1>5. Value(g) = Value(f) * Power[m] + 0
  <2>1. Len(z) <= MaxDecimals + 1
    BY <1>1, <1>2
  <2>. QED
    BY <1>1, <2>1, ValueJoined, Zenon
<1>. HIDE DEF g
<1>6. Value(w \o g) = Value(w) * Power[Len(f) + m] + Value(g)
  <2>1. Len(g) <= MaxDecimals + 1
    BY <1>2, <1>3
  <2>. QED
    BY <1>3, <2>1, ValueJoined, Zenon
<1>7. Value(f) * Power[m] \in Nat
  <2>1. Power[m] \in Nat /\ Value(f) \in Nat
    <3>1. m \in 0..(MaxDecimals + 1)
      BY <1>2
    <3>. QED
      BY <3>1, Powers, ValueType
  <2>. DEFINE a == Power[m]
              b == Value(f)
  <2>. HIDE DEF a, b
  <2>2. b * a \in Nat
    BY <2>1 DEF a, b
  <2>. QED
    BY <2>2 DEF a, b
<1>8. Value(g) = Value(f) * Power[m]
  BY <1>5, <1>7
<1>. QED
  BY <1>4, <1>6, <1>8 DEF z

-----------------------------------------------------------------------------
(* parse_amount.                                                           *)

\* What stands before the point, and behind it.
LEMMA SplitType ==
    ASSUME NEW s \in Seq(Nat)
    PROVE  Whole(s) \in Seq(Nat) /\ Fractional(s) \in Seq(Nat)
<1>1. CASE Points(s) = {}
  BY <1>1 DEF Whole, Fractional
<1>2. CASE Points(s) # {}
  <2>1. Points(s) \in SUBSET Nat /\ Points(s) \subseteq 1..Len(s)
    BY DEF Points
  <2>2. \E x \in Points(s) : \A y \in Points(s) : x <= y
    BY <1>2, <2>1, LeastNatural
  <2>. DEFINE x == Min(Points(s))
  <2>3. x \in Points(s)
    BY <2>2 DEF Min
  <2>. HIDE DEF x
  <2>4. x \in 1..Len(s)
    BY <2>1, <2>3
  <2>5. /\ SubSeq(s, 1, x - 1) \in Seq(Nat)
        /\ SubSeq(s, x + 1, Len(s)) \in Seq(Nat)
    BY <2>4
  <2>. QED
    BY <1>2, <2>5 DEF Whole, Fractional, x
<1>. QED
  BY <1>1, <1>2

\* What the checked operations come to.
Parsed(w, f, p, q) ==
    UNION {UNION {Sum(v, x) : v \in Product(whole, p),
                              x \in Product(fraction, q)}
           : whole \in Checked(w), fraction \in Checked(f)}

\* The number, if it is a word.
Fitting(number) == {n \in {number} : n <= MaxWord}

\* The powers of the base are such numbers.
Positive == Nat \ {0}

\* They are exact, or fail.
LEMMA CheckedSum ==
    ASSUME NEW w \in Nat, NEW f \in Nat, NEW p \in Positive, NEW q \in Positive
    PROVE  Parsed(w, f, p, q) = Fitting(w * p + f * q)
<1>. DEFINE c == w * p
            d == f * q
            G(whole, fraction) ==
                UNION {Sum(v, x) : v \in Product(whole, p),
                                   x \in Product(fraction, q)}
<1>1. MaxWord \in Nat
  BY AmountAssumption
<1>2. c \in Nat /\ d \in Nat /\ w <= c /\ f <= d
  BY DEF Positive
<1>3. ASSUME NEW n \in Parsed(w, f, p, q) PROVE n = c + d /\ n <= MaxWord
  <2>1. PICK whole \in Checked(w), fraction \in Checked(f) :
           n \in G(whole, fraction)
    BY <1>3 DEF Parsed
  <2>2. PICK v \in Product(whole, p), x \in Product(fraction, q) :
           n \in Sum(v, x)
    BY <2>1
  <2>3. whole = w /\ fraction = f
    BY DEF Checked
  <2>4. v = c /\ x = d
    BY <2>3 DEF Product, Checked
  <2>. HIDE DEF c, d
  <2>. QED
    BY <2>2, <2>4 DEF Sum, Checked
<1>4. ASSUME c + d <= MaxWord PROVE c + d \in Parsed(w, f, p, q)
  <2>1. w <= MaxWord /\ f <= MaxWord /\ c <= MaxWord /\ d <= MaxWord
    <3>. HIDE DEF c, d
    <3>. QED
      BY <1>1, <1>2, <1>4
  <2>2. w \in Checked(w) /\ f \in Checked(f)
    BY <2>1 DEF Checked
  <2>3. c \in Product(w, p) /\ d \in Product(f, q)
    BY <2>1 DEF Checked, Product
  <2>. HIDE DEF c, d
  <2>4. c + d \in Sum(c, d)
    BY <1>4 DEF Checked, Sum
  <2>5. c + d \in G(w, f)
    <3>1. Sum(c, d) \in {Sum(v, x) : v \in Product(w, p), x \in Product(f, q)}
      BY <2>3
    <3>. QED
      BY <2>4, <3>1
  <2>. HIDE DEF G
  <2>6. G(w, f) \in {G(whole, fraction) :
                        whole \in Checked(w), fraction \in Checked(f)}
    BY <2>2
  <2>7. c + d \in UNION {G(whole, fraction) :
                        whole \in Checked(w), fraction \in Checked(f)}
    BY <2>5, <2>6
  <2>. QED
    BY <2>7 DEF Parsed, G
<1>. DEFINE A == Parsed(w, f, p, q)
            e == c + d
<1>5. (\A n \in A : n = e /\ n <= MaxWord) /\ (e <= MaxWord => e \in A)
  BY <1>3, <1>4, Zenon
<1>. HIDE DEF A, e
<1>6. A = Fitting(e)
  BY <1>5 DEF Fitting
<1>. QED
  BY <1>6, Zenon DEF A, e, c, d

\* parse_amount is exact, or fails.
LEMMA ParsedExactly ==
    ASSUME NEW input \in Seq(Nat), NEW places \in Nat
    PROVE  ParseAmount(input, places)
              = IF places > MaxDecimals THEN {}
                ELSE {n \in Exact(input, places) : n <= MaxWord}
<1>. DEFINE w == Whole(input)
            f == Fractional(input)
            m == places - Len(f)
<1>1. w \in Seq(Nat) /\ f \in Seq(Nat) /\ Len(f) \in Nat /\ MaxDecimals \in Nat
  BY SplitType, AmountAssumption
<1>2. CASE places > MaxDecimals
  BY <1>2 DEF ParseAmount
<1>3. CASE ~WellFormed(input) \/ Len(f) > places
  <2>1. ParseAmount(input, places) = {}
    BY <1>3 DEF ParseAmount
  <2>2. Len(f) > places => m < 0
    BY <1>1
  <2>3. Exact(input, places) = {}
    BY <1>3, <2>2 DEF Exact
  <2>. QED
    BY <2>1, <2>3
<1>4. CASE places <= MaxDecimals /\ WellFormed(input) /\ Len(f) <= places
  <2>1. m \in Nat /\ Len(f) + m = places /\ ~(m < 0) /\ ~(places > MaxDecimals)
        /\ ~(Len(f) > places)
    BY <1>1, <1>4
  <2>2. ParseAmount(input, places)
           = Parsed(Value(w), Value(f), Power[places], Power[m])
    BY <1>4, <2>1 DEF ParseAmount, Parsed
  <2>3. Exact(input, places) = {Value((w \o f) \o Zeros(m))}
    BY <1>4, <2>1 DEF Exact, Zeros
  <2>. HIDE DEF w, f, m
  <2>4. Value((w \o f) \o Zeros(m))
           = Value(w) * Power[places] + Value(f) * Power[m]
    BY <1>1, <1>4, <2>1, ValueFilled
  <2>5. /\ Value(w) \in Nat /\ Value(f) \in Nat
        /\ Power[places] \in Nat \ {0} /\ Power[m] \in Nat \ {0}
    <3>1. places \in 0..(MaxDecimals + 1) /\ m \in 0..(MaxDecimals + 1)
      BY <1>1, <1>4, <2>1
    <3>. QED
      BY <1>1, <3>1, Powers, ValueType
  <2>6. Parsed(Value(w), Value(f), Power[places], Power[m])
           = Fitting(Value(w) * Power[places] + Value(f) * Power[m])
    <3>. DEFINE a == Value(w)
                b == Value(f)
                c == Power[places]
                d == Power[m]
    <3>1. a \in Nat /\ b \in Nat /\ c \in Positive /\ d \in Positive
      BY <2>5, Zenon DEF Positive
    <3>. HIDE DEF a, b, c, d
    <3>2. Parsed(a, b, c, d) = Fitting(a * c + b * d)
      BY <3>1, CheckedSum, Zenon
    <3>. QED
      BY <3>2, Zenon DEF a, b, c, d
  <2>. DEFINE e == Value(w) * Power[places] + Value(f) * Power[m]
  <2>7. ParseAmount(input, places) = Fitting(e) /\ Exact(input, places) = {e}
    BY <2>2, <2>3, <2>4, <2>6, Zenon
  <2>. HIDE DEF e
  <2>. QED
    BY <2>1, <2>7 DEF Fitting
<1>. QED
  BY <1>1, <1>2, <1>3, <1>4
-----------------------------------------------------------------------------
(* Digits.                                                                 *)

\* Dividing by the base makes a number that is not a digit smaller.
LEMMA Smaller ==
    ASSUME NEW n \in Nat
    PROVE  /\ n \div Base \in 0..n /\ n % Base \in Digit
           /\ n = Base * (n \div Base) + (n % Base)
           /\ ~(n < Base) => n \div Base \in 0..(n - 1)
<1>. DEFINE q == n \div Base
            r == n % Base
            c == Base * q
<1>1. Base \in Nat \ {0} /\ Base >= 2
  BY AmountAssumption
<1>2. q \in Nat /\ r \in 0..(Base - 1) /\ n = c + r
  BY <1>1, Divided
<1>3. c \in Nat /\ c >= 2 * q /\ (q = 0 => c = 0)
  <2>. HIDE DEF q, r
  <2>. QED
    BY <1>1, <1>2
<1>. HIDE DEF q, r, c
<1>4. q \in 0..n
  BY <1>2, <1>3
<1>5. ASSUME ~(n < Base) PROVE q \in 0..(n - 1)
  <2>1. q # 0
    BY <1>1, <1>2, <1>3, <1>5
  <2>. QED
    BY <1>2, <1>3, <2>1
<1>. QED
  BY <1>2, <1>4, <1>5 DEF q, r, c, Digit

\* The digits of the numbers.
LEMMA DigitLaw ==
    \A n \in 0..MaxWord :
        Digits[n] = IF n < Base THEN <<n>>
                    ELSE Append(Digits[n \div Base], n % Base)
<1>. DEFINE Good(f, k) ==
                f = [n \in 0..k |-> IF n < Base THEN <<n>>
                                    ELSE Append(f[n \div Base], n % Base)]
            Law(f) == Good(f, MaxWord)
            S == {k \in Nat : \E f : Good(f, k)}
<1>1. MaxWord \in Nat /\ Base \in Nat /\ Base >= 2
  BY AmountAssumption
<1>2. 0 \in S
  <2>. DEFINE f == [n \in 0..0 |-> <<0>>]
  <2>1. Good(f, 0)
    BY <1>1
  <2>. HIDE DEF f, Good
  <2>. QED
    BY <2>1
<1>3. ASSUME NEW k \in Nat, k \in S PROVE k + 1 \in S
  <2>1. PICK f : Good(f, k)
    BY <1>3
  <2>. DEFINE last == IF k + 1 < Base THEN <<k + 1>>
                      ELSE Append(f[(k + 1) \div Base], (k + 1) % Base)
              g == [n \in 0..(k + 1) |-> IF n = k + 1 THEN last ELSE f[n]]
  <2>2. \A n \in 0..k : f[n] = IF n < Base THEN <<n>>
                               ELSE Append(f[n \div Base], n % Base)
    BY <2>1
  <2>3. g[k + 1] = last /\ \A n \in 0..k : g[n] = f[n]
    <3>. HIDE DEF last
    <3>. QED
      OBVIOUS
  <2>4. ASSUME NEW n \in 0..(k + 1)
        PROVE  g[n] = IF n < Base THEN <<n>>
                      ELSE Append(g[n \div Base], n % Base)
    <3>. HIDE DEF g
    <3>1. CASE n = k + 1
      <4>1. ASSUME ~(n < Base) PROVE g[n \div Base] = f[n \div Base]
        <5>1. n \div Base \in 0..(n - 1)
          BY <4>1, Smaller
        <5>2. n \div Base \in 0..k
          BY <3>1, <5>1
        <5>. QED
          BY <2>3, <5>2
      <4>. QED
        BY <2>3, <3>1, <4>1, Zenon DEF last
    <3>2. CASE n # k + 1
      <4>1. n \in 0..k /\ n \in Nat
        BY <3>2
      <4>2. n \div Base \in 0..n
        BY <4>1, Smaller
      <4>3. n \div Base \in 0..k
        BY <4>1, <4>2
      <4>4. g[n] = f[n] /\ g[n \div Base] = f[n \div Base]
        BY <2>3, <4>1, <4>3
      <4>. QED
        BY <2>2, <4>1, <4>4, Zenon
    <3>. QED
      BY <3>1, <3>2
  <2>5. g = [n \in 0..(k + 1) |-> g[n]]
    <3>. HIDE DEF last
    <3>. QED
      OBVIOUS
  <2>. HIDE DEF g, last
  <2>6. Good(g, k + 1)
    BY <2>4, <2>5, Zenon
  <2>. HIDE DEF Good
  <2>. QED
    BY <2>6
<1>4. \E f : Law(f)
  <2>1. Nat \subseteq S
    <3>. HIDE DEF S
    <3>. QED
      BY <1>2, <1>3, NumberInduction
  <2>. HIDE DEF Good
  <2>. QED
    BY <1>1, <2>1
<1>5. Digits = CHOOSE f : Law(f)
  BY Zenon DEF Digits
<1>6. Law(Digits)
  <2>. HIDE DEF Law
  <2>. QED
    BY <1>4, <1>5
<1>. QED
  BY <1>6

\* Digits are numbers.
LEMMA DigitsAreNumbers ==
    /\ \A d \in Digit : d \in Nat /\ d < Base /\ d # Point /\ d \in 0..Other
    /\ \A s \in Seq(Digit) : s \in Seq(Nat) /\ s \in Seq(0..Other)
    /\ \A s \in Seq(0..Other) : s \in Seq(Nat)
<1>1. Base \in Nat /\ Base >= 2
  BY AmountAssumption
<1>2. \A d \in Digit : d \in Nat /\ d < Base /\ d # Point /\ d \in 0..Other
  BY <1>1 DEF Digit, Point, Other
<1>3. 0..Other \subseteq Nat
  BY <1>1 DEF Other
<1>4. ASSUME NEW A, NEW B, A \subseteq B, NEW s \in Seq(A) PROVE s \in Seq(B)
  BY <1>4
<1>. QED
  BY <1>2, <1>3, <1>4

\* One digit more.
LEMMA ValueAppended ==
    ASSUME NEW s \in Seq(Nat), NEW d \in Nat
    PROVE  Value(<<d>>) = d /\ Value(Append(s, d)) = Value(s) * Base + d
<1>. DEFINE t == <<d>>
<1>1. t \in Seq(Nat) /\ Len(t) = 1 /\ t[1] = d
  OBVIOUS
<1>2. Append(s, d) = s \o t
  BY AppendAt
<1>. HIDE DEF t
<1>3. Base \in Nat /\ MaxDecimals \in Nat
  BY AmountAssumption
<1>4. Value(t) = d
  <2>1. PICK r : Reads(t, r) /\ Value(t) = r[1]
    BY <1>1, ValueReads
  <2>2. r[1] = r[1 - 1] * Base + t[1] /\ r[0] = 0
    BY <1>1, <2>1 DEF Reads
  <2>. QED
    BY <1>1, <1>3, <2>1, <2>2
<1>5. Power[1] = Base
  <2>1. 0 \in 0..MaxDecimals /\ 0 + 1 = 1
    BY <1>3
  <2>2. Power[0 + 1] = Base * Power[0] /\ Power[0] = 1
    BY <2>1, Powers
  <2>. QED
    BY <1>3, <2>1, <2>2
<1>6. Len(t) <= MaxDecimals + 1
  BY <1>1, <1>3
<1>7. Value(s \o t) = Value(s) * Power[1] + Value(t)
  BY <1>1, <1>6, ValueJoined, Zenon
<1>. QED
  BY <1>2, <1>4, <1>5, <1>7 DEF t

\* A number, printed.
Prints(s, n) == s \in Seq(Digit) /\ s # <<>> /\ Value(s) = n

\* The digits of a number have its value.
LEMMA DigitsPrint ==
    ASSUME NEW n \in 0..MaxWord
    PROVE  Prints(Digits[n], n)
<1>1. MaxWord \in Nat /\ Base \in Nat /\ Base >= 2
  BY AmountAssumption
<1>. DEFINE T == {k \in Nat : \A j \in 0..k :
                     j <= MaxWord => Prints(Digits[j], j)}
<1>2. ASSUME NEW j \in 0..MaxWord,
             \A i \in 0..(j - 1) : Prints(Digits[i], i)
      PROVE  Prints(Digits[j], j)
  <2>1. Digits[j] = IF j < Base THEN <<j>>
                    ELSE Append(Digits[j \div Base], j % Base)
    BY DigitLaw
  <2>2. CASE j < Base
    <3>1. j \in Digit /\ j \in Nat /\ <<>> \in Seq(Nat)
      BY <1>1, <2>2 DEF Digit
    <3>2. <<j>> \in Seq(Digit) /\ <<j>> # <<>>
      BY <3>1
    <3>3. Value(<<j>>) = j
      BY <3>1, ValueAppended
    <3>. QED
      BY <2>1, <2>2, <3>2, <3>3, Zenon DEF Prints
  <2>3. CASE ~(j < Base)
    <3>. DEFINE q == j \div Base
                r == j % Base
    <3>1. /\ q \in 0..(j - 1) /\ q \in Nat /\ r \in Digit /\ r \in Nat
          /\ j = Base * q + r
      <4>1. j \in Nat
        BY <1>1
      <4>2. q \in 0..(j - 1) /\ r \in Digit /\ j = Base * q + r
        BY <2>3, <4>1, Smaller
      <4>. HIDE DEF q, r
      <4>. QED
        BY <4>1, <4>2, DigitsAreNumbers
    <3>. HIDE DEF q, r
    <3>. DEFINE s == Digits[q]
    <3>2. s \in Seq(Digit) /\ Value(s) = q
      BY <1>2, <3>1 DEF Prints
    <3>. HIDE DEF s
    <3>3. s \in Seq(Nat)
      BY <3>2, DigitsAreNumbers
    <3>4. Append(s, r) \in Seq(Digit) /\ Append(s, r) # <<>>
      <4>1. s \in Seq(Digit) /\ r \in Digit
        BY <3>1, <3>2
      <4>. QED
        BY <4>1, AppendAt
    <3>5. Value(Append(s, r)) = q * Base + r
      BY <3>1, <3>2, <3>3, ValueAppended
    <3>6. q * Base + r = j
      BY <1>1, <3>1
    <3>7. Digits[j] = Append(s, r)
      BY <2>1, <2>3, Zenon DEF s, q, r
    <3>. QED
      BY <3>4, <3>5, <3>6, <3>7, Zenon DEF Prints
  <2>. QED
    BY <2>2, <2>3
<1>3. 0 \in T
  <2>1. \A j \in 0..0 : j = 0 /\ j \in 0..MaxWord /\ 0..(j - 1) = {}
    BY <1>1
  <2>. QED
    BY <1>2, <2>1
<1>4. ASSUME NEW k \in Nat, k \in T PROVE k + 1 \in T
  <2>1. SUFFICES ASSUME NEW j \in 0..(k + 1), j <= MaxWord
                 PROVE  Prints(Digits[j], j)
    OBVIOUS
  <2>2. \A i \in 0..(j - 1) : i \in 0..k /\ i <= MaxWord
    BY <1>1, <2>1
  <2>3. j \in 0..MaxWord
    BY <2>1
  <2>. QED
    BY <1>2, <1>4, <2>2, <2>3
<1>5. Nat \subseteq T
  <2>. HIDE DEF T
  <2>. QED
    BY <1>3, <1>4, NumberInduction
<1>. QED
  BY <1>1, <1>5

\* A number, printed with leading zeros.
PrintsPadded(n, width) ==
    /\ Padded(n, width) \in Seq(Digit) /\ Len(Padded(n, width)) = width
    /\ Value(Padded(n, width)) = n

\* The digits of a number below a power of the base, with leading zeros, have
\* its value.
LEMMA PaddedPrints ==
    \A width \in 0..(MaxDecimals + 1) :
        \A n \in 0..(Power[width] - 1) : PrintsPadded(n, width)
<1>. DEFINE N == {k \in Nat : k <= MaxDecimals + 1 =>
                     \A n \in 0..(Power[k] - 1) : PrintsPadded(n, k)}
<1>1. Base \in Nat \ {0} /\ MaxDecimals \in Nat
  BY AmountAssumption
<1>2. 0 \in N
  <2>1. ASSUME NEW n \in 0..(Power[0] - 1) PROVE PrintsPadded(n, 0)
    <3>1. n = 0
      BY Powers
    <3>2. Padded(n, 0) = <<>>
      BY DEF Padded
    <3>3. <<>> \in Seq(Digit) /\ Len(<<>>) = 0
      OBVIOUS
    <3>. QED
      BY <3>1, <3>2, <3>3, ValueType, Zenon DEF PrintsPadded
  <2>. QED
    BY <2>1
<1>3. ASSUME NEW k \in Nat, k \in N PROVE k + 1 \in N
  <2>1. SUFFICES ASSUME k + 1 <= MaxDecimals + 1,
                        NEW n \in 0..(Power[k + 1] - 1)
                 PROVE  PrintsPadded(n, k + 1)
    OBVIOUS
  <2>2. k \in 0..MaxDecimals /\ k + 1 \in 0..(MaxDecimals + 1)
        /\ k <= MaxDecimals + 1 /\ k \in 0..(MaxDecimals + 1)
    BY <1>1, <2>1
  <2>3. /\ Power[k + 1] = Base * Power[k] /\ Power[k] \in Nat \ {0}
        /\ Power[k + 1] \in Nat \ {0}
    BY <2>2, Powers
  <2>4. n \in Nat
    BY <2>1, <2>3
  <2>. DEFINE q == n \div Base
              r == n % Base
              s == Padded(q, k)
              t == Append(s, r)
  <2>5. q \in Nat /\ r \in Digit /\ n = Base * q + r /\ q \in 0..(Power[k] - 1)
    <3>1. q \in 0..n /\ r \in Digit /\ n = Base * q + r
      BY <2>4, Smaller
    <3>. DEFINE p == Power[k]
    <3>2. n < Base * p /\ p \in Nat
      BY <2>1, <2>3, <2>4
    <3>. HIDE DEF q, r, p
    <3>3. r \in 0..(Base - 1)
      BY <3>1 DEF Digit
    <3>4. q \in Nat
      BY <2>4, <3>1
    <3>5. ~(q >= p)
      <4>1. SUFFICES ASSUME q >= p PROVE FALSE
        OBVIOUS
      <4>2. Base * q >= Base * p
        BY <1>1, <3>2, <3>4, <4>1
      <4>. DEFINE a == Base * q
                  c == Base * p
      <4>3. a \in Nat /\ c \in Nat
        BY <1>1, <3>2, <3>4
      <4>4. a >= c /\ n < c /\ n = a + r
        BY <3>1, <3>2, <4>2
      <4>. HIDE DEF a, c
      <4>. QED
        BY <1>1, <2>4, <3>3, <4>3, <4>4
    <3>. QED
      BY <3>1, <3>2, <3>4, <3>5 DEF p
  <2>6. s \in Seq(Digit) /\ Len(s) = k /\ Value(s) = q
    BY <1>3, <2>2, <2>5 DEF PrintsPadded
  <2>7. \A i \in 1..k : s[i] = (q \div Power[k - i]) % Base
    BY DEF Padded
  <2>. HIDE DEF s
  <2>8. /\ t \in Seq(Digit) /\ Len(t) = k + 1 /\ t[k + 1] = r
        /\ \A i \in 1..k : t[i] = s[i]
    BY <2>5, <2>6, AppendAt
  <2>. HIDE DEF t
  <2>9. Padded(n, k + 1) = t
    <3>. DEFINE z == Padded(n, k + 1)
                y == [i \in 1..(k + 1) |-> t[i]]
    <3>1. t = y
      BY <2>8
    <3>2. ASSUME NEW i \in 1..(k + 1)
          PROVE  (n \div Power[(k + 1) - i]) % Base = t[i]
      <4>1. CASE i = k + 1
        <5>1. (k + 1) - i = 0 /\ Power[0] = 1 /\ n \div 1 = n
          BY <2>4, <4>1, Powers
        <5>. QED
          BY <2>8, <4>1, <5>1
      <4>2. CASE i # k + 1
        <5>1. /\ i \in 1..k /\ (k + 1) - i = (k - i) + 1
              /\ k - i \in 0..MaxDecimals /\ k - i \in 0..(MaxDecimals + 1)
          BY <1>1, <2>2, <4>2
        <5>2. Power[(k - i) + 1] = Base * Power[k - i]
              /\ Power[k - i] \in Nat \ {0}
          BY <5>1, Powers
        <5>3. n \div (Base * Power[k - i]) = q \div Power[k - i]
          BY <1>1, <2>4, <5>2, DividedTwice
        <5>4. t[i] = (q \div Power[k - i]) % Base
          BY <2>7, <2>8, <5>1
        <5>. QED
          BY <5>1, <5>2, <5>3, <5>4, Zenon
      <4>. QED
        BY <4>1, <4>2
    <3>3. z = y
      BY <3>2, Zenon DEF Padded
    <3>. QED
      BY <3>1, <3>3, Zenon
  <2>10. Value(t) = n
    <3>1. s \in Seq(Nat) /\ r \in Nat
      BY <2>5, <2>6, DigitsAreNumbers
    <3>2. Value(t) = q * Base + r
      BY <2>6, <3>1, ValueAppended DEF t
    <3>3. q * Base = Base * q
      <4>. HIDE DEF q
      <4>. QED
        BY <1>1, <2>5
    <3>. QED
      BY <2>5, <3>2, <3>3
  <2>. QED
    BY <2>8, <2>9, <2>10, Zenon DEF PrintsPadded
<1>4. Nat \subseteq N
  <2>. HIDE DEF N
  <2>. QED
    BY <1>2, <1>3, NumberInduction
<1>. QED
  BY <1>1, <1>4

\* Digits, cut apart.
Numbered == Seq(Digit)
LEMMA NumberedCut ==
    ASSUME NEW s \in Numbered, NEW i \in 0..Len(s)
    PROVE  /\ SubSeq(s, 1, i) \in Seq(Digit)
           /\ SubSeq(s, i + 1, Len(s)) \in Seq(Digit)
           /\ Len(SubSeq(s, 1, i)) = i
           /\ Len(SubSeq(s, i + 1, Len(s))) = Len(s) - i
           /\ \A k \in 1..(Len(s) - i) :
                 SubSeq(s, i + 1, Len(s))[k] = s[i + k]
           /\ s = SubSeq(s, 1, i) \o SubSeq(s, i + 1, Len(s))
<1>. DEFINE p == SubSeq(s, 1, i)
            q == SubSeq(s, i + 1, Len(s))
<1>1. s \in Seq(Digit)
  BY DEF Numbered
<1>2. IsCut(Digit, s, i, p, q)
  BY <1>1, CutParts, Zenon
<1>. HIDE DEF p, q
<1>3. /\ p \in Seq(Digit) /\ q \in Seq(Digit) /\ Len(p) = i
      /\ Len(q) = Len(s) - i /\ \A k \in 1..(Len(s) - i) : q[k] = s[i + k]
      /\ s = p \o q
  BY <1>2, Zenon DEF IsCut
<1>. QED
  BY <1>3, Zenon DEF p, q

\* Digits without trailing zeros.
LEMMA TrimmedFilled ==
    ASSUME NEW s \in Seq(Digit)
    PROVE  /\ Trimmed(s) \in Seq(Digit) /\ Len(s) - Len(Trimmed(s)) \in Nat
           /\ Len(Trimmed(s)) \in Nat
           /\ Trimmed(s) \o Zeros(Len(s) - Len(Trimmed(s))) = s
<1>. DEFINE n == Len(s)
            Z == {0} \cup {i \in DOMAIN s : s[i] # 0}
            x == Max(Z)
            t == SubSeq(s, 1, x)
            u == SubSeq(s, x + 1, n)
            z == Zeros(n - x)
<1>1. n \in Nat /\ DOMAIN s = 1..n
  OBVIOUS
<1>2. Z \in SUBSET (0..n) /\ Z # {}
  BY <1>1
<1>3. x \in Z /\ \A y \in Z : y <= x
  <2>. HIDE DEF Z, n
  <2>. QED
    BY <1>1, <1>2, Greatest
<1>4. Trimmed(s) = t
  BY DEF Trimmed
<1>. HIDE DEF x
<1>5. x \in 0..n
  BY <1>2, <1>3
<1>6. ASSUME NEW i \in 1..n, i > x PROVE s[i] = 0
  <2>1. s[i] # 0 => i \in Z
    BY <1>1
  <2>. HIDE DEF Z
  <2>. QED
    BY <1>3, <1>5, <1>6, <2>1
<1>. HIDE DEF Z
<1>7. /\ t \in Seq(Digit) /\ u \in Seq(Digit) /\ Len(t) = x /\ Len(u) = n - x
      /\ \A k \in 1..(n - x) : u[k] = s[x + k]
      /\ s = t \o u
  <2>1. s \in Numbered /\ x \in 0..Len(s)
    BY <1>5 DEF Numbered
  <2>. QED
    BY <2>1, NumberedCut, Zenon DEF t, u
<1>. HIDE DEF t, u
<1>8. u = z
  <2>1. z \in Seq(Nat) /\ Len(z) = n - x /\ \A k \in 1..(n - x) : z[k] = 0
    BY <1>1, <1>5 DEF Zeros
  <2>2. u \in Seq(Nat)
    BY <1>7, DigitsAreNumbers
  <2>3. ASSUME NEW k \in 1..(n - x) PROVE u[k] = 0
    <3>1. x + k \in 1..n /\ x + k > x
      BY <1>1, <1>5
    <3>. QED
      BY <1>6, <1>7, <3>1
  <2>. DEFINE m == n - x
  <2>4. /\ u \in Seq(Nat) /\ z \in Seq(Nat) /\ Len(u) = m /\ Len(z) = m
        /\ m \in Nat /\ \A k \in 1..m : u[k] = z[k]
    BY <1>1, <1>5, <1>7, <2>1, <2>2, <2>3
  <2>. HIDE DEF z, m
  <2>. QED
    BY <2>4
<1>9. Len(s) - Len(t) = n - x /\ n - x \in Nat /\ Len(t) \in Nat
  BY <1>1, <1>5, <1>7
<1>. QED
  BY <1>4, <1>7, <1>8, <1>9, Zenon DEF z, n

-----------------------------------------------------------------------------
(* format_amount.                                                          *)

\* Digits without a point are split in none.
LEMMA SplitNoPoint ==
    ASSUME NEW p \in Seq(Digit)
    PROVE  Whole(p) = p /\ Fractional(p) = <<>>
<1>1. \A i \in DOMAIN p : p[i] \in Digit
  OBVIOUS
<1>2. Points(p) = {}
  BY <1>1, DigitsAreNumbers DEF Points
<1>. QED
  BY <1>2 DEF Whole, Fractional

\* Digits, a point and digits again are split where the point is.
LEMMA SplitAtPoint ==
    ASSUME NEW p \in Seq(Digit), NEW q \in Seq(Digit)
    PROVE  /\ (p \o <<Point>>) \o q \in Seq(0..Other)
           /\ Whole((p \o <<Point>>) \o q) = p
           /\ Fractional((p \o <<Point>>) \o q) = q
<1>. DEFINE S == 0..Other
            pp == p \o <<Point>>
            s == pp \o q
            n == Len(p)
            m == Len(q)
<1>1. Point \in S /\ p \in Seq(S) /\ q \in Seq(S)
  BY DigitsAreNumbers, AmountAssumption DEF Point, Other
<1>. HIDE DEF S
<1>2. <<Point>> \in Seq(S) /\ <<Point>> \o q \in Seq(S)
  BY <1>1
<1>3. /\ pp = Append(p, Point) /\ pp \in Seq(S) /\ Len(pp) = n + 1
      /\ pp[n + 1] = Point /\ \A k \in 1..n : pp[k] = p[k]
  BY <1>1, AppendAt
<1>4. s = p \o (<<Point>> \o q)
  BY <1>1, <1>2, JoinedInAnyOrder
<1>5. SubSeq(s, 1, n) = p
  BY <1>1, <1>2, <1>4, CutJoined
<1>. HIDE DEF pp
<1>6. SubSeq(s, (n + 1) + 1, Len(s)) = q
  BY <1>1, <1>3, CutJoined
<1>7. /\ s \in Seq(S) /\ Len(s) = (n + 1) + m /\ n \in Nat /\ m \in Nat
      /\ \A k \in 1..((n + 1) + m) :
            s[k] = IF k <= n + 1 THEN pp[k] ELSE q[k - (n + 1)]
  BY <1>1, <1>3, ConcatAt
<1>8. \A k \in 1..n : p[k] \in Digit
  OBVIOUS
<1>9. \A k \in 1..m : q[k] \in Digit
  OBVIOUS
<1>. HIDE DEF s, n, m
<1>10. Points(s) = {n + 1}
  <2>1. DOMAIN s = 1..((n + 1) + m)
    BY <1>7
  <2>2. n + 1 \in DOMAIN s /\ s[n + 1] = Point
    BY <1>3, <1>7, <2>1
  <2>3. ASSUME NEW k \in DOMAIN s, k # n + 1 PROVE s[k] # Point
    <3>1. CASE k < n + 1
      <4>1. k \in 1..n /\ k <= n + 1 /\ k \in 1..((n + 1) + m)
        BY <1>7, <2>1, <3>1
      <4>2. s[k] = p[k]
        BY <1>3, <1>7, <4>1
      <4>. QED
        BY <1>8, <4>1, <4>2, DigitsAreNumbers
    <3>2. CASE k > n + 1
      <4>1. k - (n + 1) \in 1..m /\ ~(k <= n + 1) /\ k \in 1..((n + 1) + m)
        BY <1>7, <2>1, <3>2
      <4>2. s[k] = q[k - (n + 1)]
        BY <1>7, <4>1
      <4>. QED
        BY <1>9, <4>1, <4>2, DigitsAreNumbers
    <3>. QED
      BY <1>7, <2>1, <2>3, <3>1, <3>2
  <2>. QED
    BY <2>2, <2>3 DEF Points
<1>11. Min({n + 1}) = n + 1 /\ {n + 1} # {}
  BY <1>7 DEF Min
<1>12. Whole(s) = p /\ Fractional(s) = q
  <2>1. (n + 1) - 1 = n
    BY <1>7
  <2>. QED
    BY <1>5, <1>6, <1>10, <1>11, <2>1, Zenon DEF Whole, Fractional
<1>. QED
  BY <1>7, <1>12 DEF s, pp, S

\* Digits that are split are well-formed.
LEMMA DigitsWellFormed ==
    ASSUME NEW s, Whole(s) \in Seq(Digit), Whole(s) # <<>>,
           Fractional(s) \in Seq(Digit)
    PROVE  WellFormed(s)
<1>. DEFINE w == Whole(s)
            f == Fractional(s)
<1>1. /\ \A i \in DOMAIN w : w[i] \in Digit
      /\ \A i \in DOMAIN f : f[i] \in Digit
  <2>. HIDE DEF w, f
  <2>1. \A a \in Seq(Digit) : \A i \in DOMAIN a : a[i] \in Digit
    OBVIOUS
  <2>. QED
    BY <2>1, Zenon DEF w, f
<1>. QED
  BY <1>1, DigitsAreNumbers, Zenon DEF WellFormed, IsDigit

\* What is meant by digits before and behind the point: the digits of the
\* units above the scale, and below it, filled up.
LEMMA ShownExact ==
    ASSUME NEW n \in 0..MaxWord, NEW places \in 0..MaxDecimals, NEW s,
           Whole(s) = Digits[n \div Power[places]],
           Fractional(s) = Trimmed(Padded(n % Power[places], places))
    PROVE  Exact(s, places) = {n}
<1>. DEFINE p == Power[places]
            h == n \div p
            r == n % p
            w == Digits[h]
            g == Padded(r, places)
            f == Trimmed(g)
            m == places - Len(f)
            z == Zeros(m)
<1>1. /\ p \in Nat \ {0} /\ n \in Nat /\ n <= MaxWord /\ MaxWord \in Nat
      /\ places \in 0..(MaxDecimals + 1) /\ MaxDecimals \in Nat
  BY Powers, AmountAssumption
<1>2. h \in Nat /\ r \in 0..(p - 1) /\ n = p * h + r
  BY <1>1, Divided
<1>3. h \in 0..MaxWord
  <2>. HIDE DEF p, h, r
  <2>1. p * h >= h
    BY <1>1, <1>2
  <2>. DEFINE c == p * h
  <2>2. c \in Nat /\ c >= h /\ n = c + r
    BY <1>1, <1>2, <2>1
  <2>. HIDE DEF c
  <2>. QED
    BY <1>1, <1>2, <2>2
<1>. HIDE DEF h
<1>4. w \in Seq(Digit) /\ w # <<>> /\ Value(w) = h
  BY <1>3, DigitsPrint DEF Prints
<1>5. g \in Seq(Digit) /\ Len(g) = places /\ Value(g) = r
  BY <1>1, <1>2, PaddedPrints DEF PrintsPadded
<1>. HIDE DEF w, g, r
<1>6. f \in Seq(Digit) /\ m \in Nat /\ f \o z = g
  BY <1>5, TrimmedFilled
<1>. HIDE DEF f
<1>7. w \in Seq(Nat) /\ g \in Seq(Nat) /\ f \in Seq(Nat) /\ z \in Seq(Nat)
  BY <1>4, <1>5, <1>6, DigitsAreNumbers, ZerosValue
<1>8. Whole(s) = w /\ Fractional(s) = f
  BY DEF w, h, p, f, g, r
<1>9. WellFormed(s)
  BY <1>4, <1>6, <1>8, DigitsWellFormed, Zenon
<1>10. Exact(s, places) = {Value((w \o f) \o z)}
  <2>1. ~(m < 0)
    BY <1>6
  <2>. QED
    BY <1>8, <1>9, <2>1 DEF Exact, Zeros
<1>. HIDE DEF z, m
<1>11. (w \o f) \o z = w \o g
  <2>1. w \in Numerals /\ f \in Numerals /\ z \in Numerals
    BY <1>7 DEF Numerals
  <2>2. (w \o f) \o z = w \o (f \o z)
    BY <2>1, NumeralsJoined, Zenon
  <2>. QED
    BY <1>6, <2>2, Zenon
<1>12. Value(w \o g) = Value(w) * Power[Len(g)] + Value(g)
  <2>1. Len(g) <= MaxDecimals + 1
    BY <1>1, <1>5
  <2>. QED
    BY <1>7, <2>1, ValueJoined, Zenon
<1>13. Value(w \o g) = h * p + r
  BY <1>4, <1>5, <1>12, Zenon DEF p
<1>14. h * p + r = n
  <2>. HIDE DEF p
  <2>. QED
    BY <1>1, <1>2
<1>. QED
  BY <1>10, <1>11, <1>13, <1>14, Zenon

\* What is shown for an amount means that amount.
LEMMA ShownMeans ==
    ASSUME NEW n \in 0..MaxWord, NEW places \in 0..MaxDecimals
    PROVE  /\ FormatAmount(n, places) \in Seq(0..Other)
           /\ Exact(FormatAmount(n, places), places) = {n}
<1>. DEFINE p == Power[places]
            h == n \div p
            g == Padded(n % p, places)
            f == Trimmed(g)
            s == FormatAmount(n, places)
<1>1. /\ p \in Nat \ {0} /\ n \in Nat /\ n <= MaxWord /\ MaxWord \in Nat
      /\ places \in 0..(MaxDecimals + 1) /\ MaxDecimals \in Nat
  BY Powers, AmountAssumption
<1>2. h \in 0..MaxWord /\ n % p \in 0..(p - 1)
  <2>1. h \in Nat /\ n % p \in 0..(p - 1) /\ n = p * h + (n % p)
    BY <1>1, Divided
  <2>. DEFINE r == n % p
              c == p * h
  <2>2. c \in Nat /\ c >= h
    <3>. HIDE DEF p, h
    <3>. QED
      BY <1>1, <2>1
  <2>. HIDE DEF p, h, r, c
  <2>3. r \in Nat /\ n = c + r /\ h \in Nat
    BY <1>1, <2>1 DEF r, c
  <2>4. h \in 0..MaxWord
    BY <1>1, <2>2, <2>3
  <2>. QED
    BY <2>1, <2>4
<1>3. Digits[h] \in Seq(Digit)
  BY <1>2, DigitsPrint DEF Prints
<1>4. g \in Seq(Digit) /\ Len(g) = places
  BY <1>1, <1>2, PaddedPrints DEF PrintsPadded
<1>. HIDE DEF g
<1>5. f \in Seq(Digit)
  BY <1>4, TrimmedFilled
<1>6. CASE f = <<>>
  <2>1. s = Digits[h]
    <3>1. CASE places = 0
      <4>1. s = Digits[n]
        BY <1>1, <3>1 DEF FormatAmount
      <4>2. h = n
        BY <1>1, <3>1, Powers
      <4>. QED
        BY <4>1, <4>2, Zenon
    <3>2. CASE places # 0
      <4>1. ~(places > MaxDecimals)
        BY <1>1
      <4>. QED
        BY <1>6, <3>2, <4>1 DEF FormatAmount, g
    <3>. QED
      BY <3>1, <3>2
  <2>2. Whole(s) = Digits[h] /\ Fractional(s) = f
    BY <1>3, <1>6, <2>1, SplitNoPoint, Zenon
  <2>3. Exact(s, places) = {n}
    BY <2>2, ShownExact, Zenon DEF h, f, g, p
  <2>4. s \in Seq(0..Other)
    BY <1>3, <2>1, DigitsAreNumbers, Zenon
  <2>. QED
    BY <2>3, <2>4, Zenon
<1>7. CASE f # <<>>
  <2>1. places # 0 /\ ~(places > MaxDecimals)
    <3>1. SUFFICES ASSUME places = 0 PROVE FALSE
      BY <1>1
    <3>2. g = <<>>
      BY <3>1 DEF g, Padded
    <3>3. f = <<>>
      <4>1. Len(g) - Len(f) \in Nat /\ Len(f) \in Nat /\ Len(g) = 0
        BY <1>4, <3>1, TrimmedFilled
      <4>. DEFINE k == Len(f)
      <4>2. k = 0
        <5>. HIDE DEF k, f
        <5>. QED
          BY <4>1 DEF k
      <4>. HIDE DEF f
      <4>. QED
        BY <1>5, <4>2
    <3>. QED
      BY <1>7, <3>3
  <2>2. s = (Digits[h] \o <<Point>>) \o f
    BY <1>7, <2>1 DEF FormatAmount, g
  <2>3. /\ s \in Seq(0..Other)
        /\ Whole(s) = Digits[h] /\ Fractional(s) = f
    <3>. HIDE DEF f, s, h
    <3>. QED
      BY <1>3, <1>5, <2>2, SplitAtPoint, Zenon
  <2>4. Exact(s, places) = {n}
    BY <2>3, ShownExact, Zenon DEF h, f, g, p
  <2>. QED
    BY <2>3, <2>4, Zenon
<1>. QED
  BY <1>6, <1>7, Zenon

-----------------------------------------------------------------------------
(* The amounts that are typed and shown.                                   *)

\* A text is one that is typed, or the one that shows the units.
AmountInv ==
    /\ decimals \in 0..(MaxDecimals + 1) /\ units \in 0..MaxWord
    /\ text \in Seq(0..Other) /\ printed \in BOOLEAN
    /\ printed => text = FormatAmount(units, decimals)

\* What is shown is a text, also with the remark.
LEMMA ShownTyped ==
    ASSUME NEW n \in 0..MaxWord, NEW places \in 0..(MaxDecimals + 1)
    PROVE  FormatAmount(n, places) \in Seq(0..Other)
<1>1. CASE places \in 0..MaxDecimals
  BY <1>1, ShownMeans
<1>2. CASE places > MaxDecimals
  <2>1. FormatAmount(n, places) = Append(Digits[n], Other)
    BY <1>2 DEF FormatAmount
  <2>2. Digits[n] \in Seq(0..Other) /\ Other \in 0..Other
    <3>1. Digits[n] \in Seq(Digit)
      BY DigitsPrint DEF Prints
    <3>. QED
      BY <3>1, DigitsAreNumbers, AmountAssumption DEF Other
  <2>3. Append(Digits[n], Other) \in Seq(0..Other)
    BY <2>2, AppendAt
  <2>. QED
    BY <2>1, <2>3
<1>. QED
  BY <1>1, <1>2, AmountAssumption

\* Whatever is typed or shown, the text is one that parse_amount can be given,
\* and the one that format_amount has made of the units once it is printed.
THEOREM AmountInvariant == AmountSpec => []AmountInv
<1>1. AmountInit => AmountInv
  <2>1. <<>> \in Seq(0..Other) /\ 0 \in 0..MaxWord
    BY AmountAssumption
  <2>. QED
    BY <2>1, Zenon DEF AmountInit, AmountInv
<1>2. AmountInv /\ [AmountNext]_amountVars => AmountInv'
  <2>. SUFFICES ASSUME AmountInv, [AmountNext]_amountVars PROVE AmountInv'
    OBVIOUS
  <2>1. CASE Type
    <3>1. PICK c \in Symbols : text' = Append(text, c)
      BY <2>1 DEF Type
    <3>2. c \in 0..Other /\ text \in Seq(0..Other)
      BY AmountAssumption DEF AmountInv
    <3>3. text' \in Seq(0..Other)
      BY <3>1, <3>2, AppendAt
    <3>. QED
      BY <2>1, <3>3 DEF Type, AmountInv
  <2>2. CASE Show
    <3>1. /\ units' \in 0..MaxWord /\ text' = FormatAmount(units', decimals)
          /\ printed' = TRUE /\ decimals' = decimals
          /\ decimals \in 0..(MaxDecimals + 1)
      BY <2>2 DEF Show, AmountInv
    <3>2. text' \in Seq(0..Other)
      BY <3>1, ShownTyped
    <3>. QED
      BY <3>1, <3>2 DEF AmountInv
  <2>3. CASE UNCHANGED amountVars
    BY <2>3 DEF AmountInv, amountVars
  <2>. QED
    BY <2>1, <2>2, <2>3 DEF AmountNext
<1>. QED
  BY <1>1, <1>2, PTL DEF AmountSpec

\* parse_amount returns exactly what was typed, or an error: no amount is
\* rounded, cut off or wrapped around.
THEOREM ParsesExactly == AmountSpec => []ParseExact
<1>1. AmountInv => ParseExact
  <2>. SUFFICES ASSUME AmountInv PROVE ParseExact
    OBVIOUS
  <2>1. text \in Seq(Nat) /\ decimals \in Nat
    BY DigitsAreNumbers DEF AmountInv
  <2>. QED
    BY <2>1, ParsedExactly, Zenon DEF ParseExact
<1>. QED
  BY <1>1, AmountInvariant, PTL

\* The text that format_amount shows is parsed to the very amount it was made
\* from: no two amounts look the same to the user who approves one.
THEOREM ShowsWhatIsMeant == AmountSpec => []ShownIsMeant
<1>1. AmountInv => ShownIsMeant
  <2>. SUFFICES ASSUME AmountInv, printed
                PROVE  ParseAmount(text, decimals)
                          = IF decimals > MaxDecimals THEN {} ELSE {units}
    BY DEF ShownIsMeant
  <2>1. /\ text \in Seq(Nat) /\ decimals \in Nat /\ units \in 0..MaxWord
        /\ decimals \in 0..(MaxDecimals + 1)
        /\ text = FormatAmount(units, decimals)
    BY DigitsAreNumbers DEF AmountInv
  <2>2. ParseAmount(text, decimals)
           = IF decimals > MaxDecimals THEN {}
             ELSE {n \in Exact(text, decimals) : n <= MaxWord}
    BY <2>1, ParsedExactly, Zenon
  <2>3. CASE decimals > MaxDecimals
    BY <2>2, <2>3
  <2>4. CASE ~(decimals > MaxDecimals)
    <3>1. decimals \in 0..MaxDecimals
      BY <2>1, <2>4, AmountAssumption
    <3>2. Exact(text, decimals) = {units}
      BY <2>1, <3>1, ShownMeans, Zenon
    <3>3. units <= MaxWord
      BY <2>1, AmountAssumption
    <3>. QED
      BY <2>2, <2>4, <3>2, <3>3
  <2>. QED
    BY <2>3, <2>4
<1>. QED
  BY <1>1, AmountInvariant, PTL
=============================================================================
