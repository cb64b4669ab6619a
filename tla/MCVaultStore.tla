---------------------------- MODULE MCVaultStore ----------------------------
(* VaultStore on small instances.                                          *)
EXTENDS VaultStore, TLC

CONSTANTS p1, p2, p3, default, other, none

TwoProcs == {p1, p2}
ThreeProcs == {p1, p2, p3}
OneSetting == {default}
TwoSettings == {default, other}

\* The protocol treats processes alike; used with safety properties only.
Symmetry == Permutations(Procs)
=============================================================================
