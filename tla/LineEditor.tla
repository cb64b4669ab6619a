------------------------------ MODULE LineEditor ----------------------------
(***************************************************************************)
(* The line editor and the command history (src/src/line_editor.rs), with  *)
(* the loop of the shell that reads from them (src/src/main.rs), and the   *)
(* plain reader used when solx is not on a terminal.                       *)
(*                                                                         *)
(* A byte is a pair of a character and the place of the byte in it.  What  *)
(* arrives is one key at a time; the reader reads on by itself only inside *)
(* a character of several bytes and an escape sequence, for 50 ms a byte.  *)
(* The settings editor uses the same code on a history of its own, which   *)
(* stays empty.                                                            *)
(***************************************************************************)
EXTENDS Integers, SequencesExt

CONSTANTS Chars, Width, First, Anywhere, MaxLine, MaxHistory
CONSTANT Interrupting   \* keys that come in the middle of a character

VARIABLES
    bytes, cursor,   \* EditLine
    entries,         \* CommandHistory.entries
    position,        \* CommandHistory.position, 0 for None
    draft,           \* CommandHistory.draft
    pending,         \* a key that has interrupted a character
    oversized,       \* the plain reader has met too long a line
    tty,             \* standard input and output are a terminal
    closed,          \* the input has ended
    over             \* the shell has ended

lineVars == <<bytes, cursor>>
historyVars == <<entries, position, draft>>
vars == <<lineVars, historyVars, pending, oversized, tty, closed, over>>

NoKey == "none"
Escapes == {"up", "down", "right", "left", "delete", "unknown"}
Controls == Escapes \cup {"backspace", "enter", "ctrl-c", "ctrl-d"}
Keys == Chars \cup Controls

ASSUME EditorAssumption ==
    /\ Width \in [Chars -> 1..4]
    /\ First \subseteq Chars /\ Anywhere \subseteq Chars
    /\ MaxLine \in Nat \ {0} /\ MaxHistory \in Nat \ {0}
    /\ Chars \cap (Controls \cup {NoKey}) = {} /\ Interrupting \subseteq Keys

Encoded(c) == [i \in 1..Width[c] |-> <<c, i>>]
IsStart(byte) == byte[2] = 1

\* str::from_utf8: whole characters only.
Utf8(s) ==
    \A i \in DOMAIN s :
        LET c == s[i][1] IN
        IF IsStart(s[i])
        THEN /\ i + Width[c] - 1 <= Len(s)
             /\ SubSeq(s, i, i + Width[c] - 1) = Encoded(c)
        ELSE /\ i > 1 /\ s[i][2] <= Width[c]
             /\ s[i - 1] = <<c, s[i][2] - 1>>

\* Slicing a str anywhere else panics.
Boundary(s, i) == i \in 0..Len(s) /\ (i < Len(s) => IsStart(s[i + 1]))

\* The characters that s spells.
Text(s) ==
    FoldLeft(LAMBDA text, byte : IF IsStart(byte) THEN Append(text, byte[1])
                                                  ELSE text,
             <<>>, s)

\* The line is always valid UTF-8 within its buffer, the cursor between two
\* characters of it; so is everything in the history, and the position in it
\* is that of an entry.
TypeOK ==
    /\ Utf8(bytes) /\ Len(bytes) <= MaxLine /\ Boundary(bytes, cursor)
    /\ Len(entries) <= MaxHistory
    /\ \A i \in DOMAIN entries :
          Utf8(entries[i]) /\ Len(entries[i]) \in 1..MaxLine
    /\ position \in 0..Len(entries)
    /\ Utf8(draft) /\ Len(draft) <= MaxLine
    /\ pending \in Keys \cup {NoKey}
    /\ {oversized, tty, closed, over} \subseteq BOOLEAN

Init ==
    /\ bytes = <<>> /\ cursor = 0
    /\ entries = <<>> /\ position = 0 /\ draft = <<>>
    /\ pending = NoKey /\ oversized = FALSE
    /\ tty \in BOOLEAN /\ closed = FALSE /\ over = FALSE

-----------------------------------------------------------------------------
(* EditLine.                                                               *)

\* Mutation of Fits: the limit is taken to be one of characters.
FitsInCharacters(s, added) == Len(Text(s)) + Len(Text(added)) <= MaxLine

Fits(s, added) == Len(s) + Len(added) <= MaxLine

InsertBytes(added) ==
    /\ Fits(bytes, added)
    /\ bytes' = SubSeq(bytes, 1, cursor) \o added
                  \o SubSeq(bytes, cursor + 1, Len(bytes))
    /\ cursor' = cursor + Len(added)

ReplaceLine(s) == bytes' = s /\ cursor' = Len(s)

\* Where the character that ends at i begins, and where the one that begins
\* there ends.
CharBefore(s, i) == IF i = 0 THEN 0 ELSE i - Width[s[i][1]]
CharAfter(s, i) == IF i = Len(s) THEN i ELSE i + Width[s[i + 1][1]]

DeleteAt(i) ==
    /\ bytes' = SubSeq(bytes, 1, i)
                  \o SubSeq(bytes, CharAfter(bytes, i) + 1, Len(bytes))
    /\ cursor' = i

-----------------------------------------------------------------------------
(* CommandHistory.                                                         *)

\* The words that remember looks for, in the line as it was typed and after
\* its alias is expanded.
Secret(s) ==
    LET text == Text(s) IN
    \/ text # <<>> /\ text[1] \in First
    \/ \E i \in DOMAIN text : text[i] \in Anywhere

Remember(s) ==
    entries' =
        IF \/ s = <<>> \/ Secret(s)
           \/ entries # <<>> /\ entries[Len(entries)] = s
        THEN entries
        ELSE Append(IF Len(entries) = MaxHistory THEN Tail(entries)
                                                 ELSE entries, s)

\* Mutation of Older: the draft is taken from the line every time.
OlderForgetsDraft ==
    IF entries = <<>>
    THEN UNCHANGED <<lineVars, historyVars>>
    ELSE /\ position' = CASE position = 0 -> Len(entries)
                          [] position = 1 -> 1
                          [] OTHER        -> position - 1
         /\ draft' = bytes
         /\ ReplaceLine(entries[position'])
         /\ UNCHANGED entries

Older ==
    IF entries = <<>>
    THEN UNCHANGED <<lineVars, historyVars>>
    ELSE /\ position' = CASE position = 0 -> Len(entries)
                          [] position = 1 -> 1
                          [] OTHER        -> position - 1
         /\ draft' = IF position = 0 THEN bytes ELSE draft
         /\ ReplaceLine(entries[position'])
         /\ UNCHANGED entries

Newer ==
    /\ CASE position = 0 ->
              UNCHANGED <<position, lineVars>>
         [] position \in 1..(Len(entries) - 1) ->
              position' = position + 1 /\ ReplaceLine(entries[position'])
         [] OTHER ->
              position' = 0 /\ ReplaceLine(draft)
    /\ UNCHANGED <<entries, draft>>

-----------------------------------------------------------------------------
(* read_tty_line, and what the shell does with its result.                 *)

\* The next call, which begins with an empty line and forgets the draft.
NextLine == ReplaceLine(<<>>) /\ position' = 0 /\ draft' = <<>>
            /\ pending' = NoKey /\ oversized' = FALSE

\* Ok(Some(line)): the shell remembers and runs it, or leaves for exit.
Return ==
    /\ \/ Remember(bytes) /\ UNCHANGED over
       \/ bytes # <<>> /\ over' = TRUE /\ UNCHANGED entries
    /\ NextLine

\* Ok(None): the shell ends.
ReturnNone == over' = TRUE /\ NextLine /\ UNCHANGED entries

\* Err, which the shell reports, and an interrupted line, which is empty.
ReturnNothing == NextLine /\ UNCHANGED <<entries, over>>

Escape(key) ==
    /\ CASE key = "up"   -> Older
         [] key = "down" -> Newer
         [] OTHER        ->
              /\ CASE key = "left"   -> cursor' = CharBefore(bytes, cursor)
                                         /\ UNCHANGED bytes
                   [] key = "right"  -> cursor' = CharAfter(bytes, cursor)
                                         /\ UNCHANGED bytes
                   [] key = "delete" -> DeleteAt(cursor)
                   [] OTHER          -> UNCHANGED lineVars
              /\ UNCHANGED historyVars
    /\ pending' = NoKey /\ UNCHANGED <<oversized, over>>

\* insert_character: the whole of it, or a part and then another key, or
\* nothing for 50 ms or at the end of the input.  Only a full character is
\* inserted, if there is room.
Character(c) ==
    /\ \/ /\ IF Fits(bytes, Encoded(c)) THEN InsertBytes(Encoded(c))
                                        ELSE UNCHANGED lineVars
          /\ pending' = NoKey
       \/ /\ Width[c] > 1
          /\ pending' \in Interrupting \cup {NoKey}
          /\ UNCHANGED lineVars
    /\ UNCHANGED <<historyVars, oversized, over>>

\* The match in read_tty_line.
Handle(key) ==
    /\ CASE key \in Chars   -> Character(key)
         [] key \in Escapes -> Escape(key)
         [] key = "backspace" ->
              /\ IF cursor = 0 THEN UNCHANGED lineVars
                               ELSE DeleteAt(CharBefore(bytes, cursor))
              /\ pending' = NoKey
              /\ UNCHANGED <<historyVars, oversized, over>>
         [] key = "enter"   -> Return
         [] key = "ctrl-c"  -> ReturnNothing
         [] key = "ctrl-d" /\ bytes = <<>> -> ReturnNone
         [] OTHER -> /\ pending' = NoKey
                     /\ UNCHANGED <<lineVars, historyVars, oversized, over>>
    /\ UNCHANGED <<tty, closed>>

Type ==
    /\ ~over /\ tty /\ pending = NoKey /\ ~closed
    /\ \E key \in Keys : Handle(key)

HandlePending == ~over /\ tty /\ pending # NoKey /\ Handle(pending)

\* Mutation of EndOfTerminal: an unfinished line is kept for the next read.
EndOfTerminalIgnored ==
    IF bytes = <<>> THEN ReturnNone
                    ELSE UNCHANGED <<lineVars, historyVars, pending,
                                     oversized, over>>

\* The end of the input: the end of the shell, or an error, after which the
\* shell reads again.
EndOfTerminal == IF bytes = <<>> THEN ReturnNone ELSE ReturnNothing

-----------------------------------------------------------------------------
(* read_bounded_line, which counts the newline too.                        *)

ReadChunk ==
    /\ ~over /\ ~tty /\ ~closed
    /\ \E c \in Chars :
          IF ~oversized /\ Fits(bytes, Encoded(c))
          THEN InsertBytes(Encoded(c)) /\ UNCHANGED oversized
          ELSE oversized' = TRUE /\ UNCHANGED lineVars
    /\ UNCHANGED <<historyVars, pending, tty, closed, over>>

ReadNewline ==
    /\ ~over /\ ~tty /\ ~closed
    /\ IF oversized \/ Len(bytes) = MaxLine THEN ReturnNothing ELSE Return
    /\ UNCHANGED <<tty, closed>>

\* The end of the input ends a line like a newline.
EndOfFile ==
    IF oversized THEN ReturnNothing
    ELSE IF bytes = <<>> THEN ReturnNone ELSE Return

-----------------------------------------------------------------------------

ReadEnd ==
    /\ ~over /\ closed /\ pending = NoKey
    /\ IF tty THEN EndOfTerminal ELSE EndOfFile
    /\ UNCHANGED <<tty, closed>>

\* A call of the system fails once, in reading or writing.
ReadFails ==
    /\ ~over /\ ~closed
    /\ ReturnNothing
    /\ UNCHANGED <<tty, closed>>

CloseInput ==
    /\ ~over /\ ~closed /\ closed' = TRUE
    /\ UNCHANGED <<lineVars, historyVars, pending, oversized, tty, over>>

Next == Type \/ HandlePending \/ ReadChunk \/ ReadNewline \/ ReadEnd
        \/ ReadFails \/ CloseInput

Spec == Init /\ [][Next]_vars

\* The reader goes on by itself where it need not wait for the user.
FairSpec == Spec /\ WF_vars(HandlePending) /\ WF_vars(ReadEnd)

-----------------------------------------------------------------------------
(* What is expected of it.                                                 *)

LineOfChars == INSTANCE Line WITH
    before <- Text(SubSeq(bytes, 1, cursor)),
    after <- Text(SubSeq(bytes, cursor + 1, Len(bytes))),
    entries <- [i \in DOMAIN entries |-> Text(entries[i])],
    back <- IF position = 0 THEN 0 ELSE Len(entries) + 1 - position,
    draft <- IF position = 0 THEN <<>> ELSE Text(draft)

\* The editor of bytes is an editor of characters: every key moves, inserts
\* or erases one character whatever its width, a part of one changes nothing,
\* browsing keeps the unfinished line, and no secret line is remembered.
LineSpec == LineOfChars!Spec

\* When the input ends the shell comes to its end, whatever has been typed:
\* an unfinished line is an error first, and the end of the input is met
\* again by the next read.
ShellEnds == closed ~> over
=============================================================================
