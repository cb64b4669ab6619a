---------------------------- MODULE MCCloseBatches --------------------------
(* CloseBatches on small instances.                                        *)
EXTENDS CloseBatches

CONSTANTS a, b, w, x

FourAccounts == {a, b, w, x}
ThreeAssociated == {a, b, w}
WrappedSol == {w}
=============================================================================
