------------------------------ MODULE MCAmounts -----------------------------
(* Amounts in words of eight bits.                                         *)
EXTENDS Amounts

SomeSymbols == {0, 1, 2, 5, 6, Point, Other}
=============================================================================
