--------------------------- MODULE MCSecretMemory ---------------------------
(* SecretMemory with limits below, at and above the allowance.             *)
EXTENDS SecretMemory

TenSlots == 1..10
Sizes == [r \in Owners |-> IF r = "scratch" THEN 5 ELSE 1]
NoLimit == -1
AroundRequired == {3, 11, 12, 15, NoLimit}
=============================================================================
