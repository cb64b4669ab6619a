---------------------------- MODULE MCLineEditor ----------------------------
(* LineEditor on a small instance: a character of two bytes, a command and *)
(* an option that make a line secret.                                      *)
EXTENDS LineEditor

ThreeChars == {"e", "x", "y"}
Widths == [c \in ThreeChars |-> IF c = "e" THEN 2 ELSE 1]
Command == {"x"}
Option == {"y"}
Interruptions == {"enter", "left"}
=============================================================================
