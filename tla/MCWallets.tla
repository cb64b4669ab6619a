------------------------------ MODULE MCWallets -----------------------------
(* Wallets on small instances.                                             *)
EXTENDS Wallets, TLC

CONSTANTS p1, p2, n1, n2, n3, e1, e2, r1

OneProc == {p1}
TwoProcs == {p1, p2}
TwoNames == {n1, n2}
ThreeNames == {n1, n2, n3}
TwoEntropies == {e1, e2}

\* The private key of a derived wallet, exported and imported again.
ExportedKey == {<<e1, 1>>}
NoRecipients == {}
OneRecipient == {r1}

\* No action tells names or processes apart.
Symmetry == Permutations(Names) \cup Permutations(Procs)
=============================================================================
