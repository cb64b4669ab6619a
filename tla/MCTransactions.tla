---------------------------- MODULE MCTransactions --------------------------
(* Transactions on small instances.                                        *)
EXTENDS Transactions

CONSTANTS a1, a2, none, t1

TwoAddresses == {a1, a2}
OneTarget == {t1}
TwoFees == {1, 2}
TwoRents == {0, 3}
TwoBalances == {1, 4}
OneFee == {1}
OneRent == {0}
OneAddress == {a1}
OneBalance == {4}
=============================================================================
