----------------------------- MODULE MCSessions -----------------------------
(* Sessions on a small instance: one alias, and drafts that can outgrow    *)
(* each limit.                                                             *)
EXTENDS Sessions

CONSTANTS hash, none, w1, w2, mine

TwoFlags == {"Cache", "Fetch"}
OnePin == {hash}
TwoIntervals == {1, 2}
TwoWallets == {w1, w2}
OneAlias == {mine}
AllWords == {"lock", "init", "config", "show", "read", "change"}
AliasedWords == {"lock", "config"}
CachingElsewhere ==
    {[Default EXCEPT !.flags = {"Cache"}, !.interval = 2, !.wallets = <<w1>>]}
=============================================================================
