-------------------------------- MODULE Line --------------------------------
(***************************************************************************)
(* What the user of the solx prompt may rely on: a line of characters with *)
(* a cursor between two of them, and above it the commands given before,   *)
(* the line being typed at the bottom.  LineEditor implements it on bytes. *)
(***************************************************************************)
EXTENDS Integers, SequencesExt

CONSTANTS
    Chars, Width,      \* characters, and how many bytes each of them takes
    First, Anywhere,   \* those that make a line secret, standing for the
                       \* words import and export (and aliases of them), and
                       \* for the options --base58 and --mnemonic
    MaxLine,           \* bytes of a line
    MaxHistory         \* commands remembered

VARIABLES
    before, after,   \* the characters on both sides of the cursor
    entries,         \* the commands remembered, the latest last
    back,            \* how many of them the user has gone back
    draft,           \* the line left for them
    over             \* the prompt is closed for good

vars == <<before, after, entries, back, draft, over>>

Init ==
    /\ before = <<>> /\ after = <<>> /\ entries = <<>>
    /\ back = 0 /\ draft = <<>> /\ over = FALSE

Bytes(text) == FoldLeft(LAMBDA n, c : n + Width[c], 0, text)

Secret(text) ==
    \/ text[1] \in First
    \/ \E i \in DOMAIN text : text[i] \in Anywhere

\* The commands remembered after text has been given.
Kept(text) ==
    IF \/ text = <<>> \/ Secret(text)
       \/ entries # <<>> /\ Last(entries) = text
    THEN entries
    ELSE Append(IF Len(entries) = MaxHistory THEN Tail(entries) ELSE entries,
                text)

NewLine == before' = <<>> /\ after' = <<>> /\ back' = 0 /\ draft' = <<>>

Insert ==
    /\ \E c \in Chars :
          /\ Bytes(before \o after) + Width[c] <= MaxLine
          /\ before' = Append(before, c)
    /\ UNCHANGED <<after, entries, back, draft, over>>

MoveLeft ==
    /\ before # <<>>
    /\ before' = Front(before) /\ after' = <<Last(before)>> \o after
    /\ UNCHANGED <<entries, back, draft, over>>

MoveRight ==
    /\ after # <<>>
    /\ before' = Append(before, Head(after)) /\ after' = Tail(after)
    /\ UNCHANGED <<entries, back, draft, over>>

Erase ==
    /\ \/ before # <<>> /\ before' = Front(before) /\ UNCHANGED after
       \/ after # <<>> /\ after' = Tail(after) /\ UNCHANGED before
    /\ UNCHANGED <<entries, back, draft, over>>

\* To the command before, the oldest staying where it is.
Older ==
    /\ entries # <<>>
    /\ back' = IF back < Len(entries) THEN back + 1 ELSE back
    /\ before' = entries[Len(entries) + 1 - back'] /\ after' = <<>>
    /\ draft' = IF back = 0 THEN before \o after ELSE draft
    /\ UNCHANGED <<entries, over>>

\* To the command after, and at last to the line that was left.
Newer ==
    /\ back > 0
    /\ back' = back - 1
    /\ before' = IF back = 1 THEN draft ELSE entries[Len(entries) + 1 - back']
    /\ after' = <<>>
    /\ draft' = IF back = 1 THEN <<>> ELSE draft
    /\ UNCHANGED <<entries, over>>

Submit ==
    /\ entries' = Kept(before \o after)
    /\ NewLine /\ UNCHANGED over

Discard == NewLine /\ UNCHANGED <<entries, over>>

Close == NewLine /\ over' = TRUE /\ UNCHANGED entries

Next ==
    /\ ~over
    /\ \/ Insert \/ MoveLeft \/ MoveRight \/ Erase \/ Older \/ Newer
       \/ Submit \/ Discard \/ Close

Spec == Init /\ [][Next]_vars
=============================================================================
