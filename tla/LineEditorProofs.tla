-------------------------- MODULE LineEditorProofs --------------------------
(***************************************************************************)
(* Proofs about LineEditor, for any characters of one to four bytes and    *)
(* any limits of the line and the history: every string in it is whole     *)
(* characters, and the editor of bytes implements the one of characters.   *)
(* The first part is about strings: what Text makes of a string that is    *)
(* joined, cut between two characters, or one character longer, and that   *)
(* valid strings of the same characters are the same bytes.                *)
(***************************************************************************)
EXTENDS LineEditor, DataTheorems

-----------------------------------------------------------------------------
(* What a string spells.                                                   *)

ByteSet == Chars \X (1..4)
ByteStrings == Seq(ByteSet)

\* The strings that are valid UTF-8.
Strings == {s \in ByteStrings : Utf8(s)}

\* r gives what the first bytes of s spell.
Spells(s, r) ==
    /\ r[0] = <<>> /\ \A k \in 0..Len(s) : r[k] \in Seq(Chars)
    /\ \A k \in 1..Len(s) :
          r[k] = IF IsStart(s[k]) THEN Append(r[k - 1], s[k][1]) ELSE r[k - 1]

\* Text takes the bytes one after the other.
LEMMA TextSpells ==
    ASSUME NEW s \in ByteStrings
    PROVE  \E r : Spells(s, r) /\ Text(s) = r[Len(s)]
<1>. DEFINE len == Len(s)
            V == Seq(Chars)
            apply == [k \in 1..len |->
                        [t \in V |-> IF IsStart(s[k]) THEN Append(t, s[k][1])
                                                      ELSE t]]
            Law(g) == g = [u \in SUBSET (1..len) |->
                             IF u = {} THEN <<>>
                             ELSE IF IsStart(s[Max(u)])
                                  THEN Append(g[u \ {Max(u)}], s[Max(u)][1])
                                  ELSE g[u \ {Max(u)}]]
            chosen == CHOOSE g : Law(g)
<1>1. len \in Nat /\ DOMAIN s = 1..len /\ \A i \in 1..len : s[i][1] \in Chars
  BY DEF ByteStrings, ByteSet
<1>2. Text(s) = chosen[1..len]
  BY <1>1 DEF Text, FoldLeft, MapThenFoldSet
<1>3. <<>> \in V
  OBVIOUS
<1>4. ASSUME NEW t \in V, NEW c \in Chars PROVE Append(t, c) \in V
  OBVIOUS
<1>. HIDE DEF V
<1>5. apply \in [1..len -> [V -> V]]
  BY <1>1, <1>4
<1>6. \A k \in 1..len : \A t \in V :
         apply[k][t] = IF IsStart(s[k]) THEN Append(t, s[k][1]) ELSE t
  OBVIOUS
<1>. HIDE DEF apply, len
<1>7. PICK f \in [SUBSET (1..len) -> V] : IsFold(len, <<>>, apply, f)
  BY <1>1, <1>3, <1>5, FoldExists
<1>8. ASSUME NEW u \in SUBSET (1..len), u # {}
      PROVE  apply[Max(u)][f[u \ {Max(u)}]]
                = IF IsStart(s[Max(u)])
                  THEN Append(f[u \ {Max(u)}], s[Max(u)][1])
                  ELSE f[u \ {Max(u)}]
  <2>1. u \in SUBSET (0..len)
    BY <1>1
  <2>2. Max(u) \in u
    BY <1>1, <1>8, <2>1, Greatest
  <2>3. Max(u) \in 1..len /\ f[u \ {Max(u)}] \in V
    BY <2>2
  <2>. QED
    BY <1>6, <2>3
<1>9. Law(f)
  BY <1>7, <1>8 DEF IsFold
<1>10. Law(chosen)
  <2>. HIDE DEF Law
  <2>. QED
    BY <1>9
<1>. HIDE DEF chosen
<1>11. \A u \in SUBSET (1..len) :
          chosen[u] = IF u = {} THEN <<>>
                      ELSE IF IsStart(s[Max(u)])
                           THEN Append(chosen[u \ {Max(u)}], s[Max(u)][1])
                           ELSE chosen[u \ {Max(u)}]
  BY <1>10
<1>. DEFINE r == [k \in 0..len |-> chosen[1..k]]
<1>12. r[0] = <<>>
  <2>1. 1..0 = {}
    OBVIOUS
  <2>2. 0 \in 0..len /\ {} \in SUBSET (1..len)
    BY <1>1
  <2>. QED
    BY <1>11, <2>1, <2>2
<1>13. ASSUME NEW k \in 1..len
       PROVE  r[k] = IF IsStart(s[k]) THEN Append(r[k - 1], s[k][1])
                                      ELSE r[k - 1]
  <2>1. 1..k # {} /\ Max(1..k) = k /\ (1..k) \ {k} = 1..(k - 1)
    <3>1. k \in Nat /\ k # 0
      BY <1>1
    <3>. QED
      BY <3>1, FirstPositions
  <2>2. 1..k \in SUBSET (1..len) /\ k \in 0..len /\ k - 1 \in 0..len
    BY <1>1
  <2>. QED
    BY <1>11, <2>1, <2>2
<1>. DEFINE N == {k \in Nat : k <= len => r[k] \in V}
<1>14. 0 \in N
  BY <1>3, <1>12
<1>15. ASSUME NEW k \in Nat, k \in N PROVE k + 1 \in N
  <2>1. SUFFICES ASSUME k + 1 <= len PROVE r[k + 1] \in V
    OBVIOUS
  <2>2. k + 1 \in 1..len /\ (k + 1) - 1 = k /\ k <= len
    BY <1>1, <2>1
  <2>. HIDE DEF r
  <2>3. r[k] \in V
    BY <1>15, <2>2
  <2>4. r[k + 1] = IF IsStart(s[k + 1]) THEN Append(r[k], s[k + 1][1])
                                        ELSE r[k]
    BY <1>13, <2>2
  <2>5. s[k + 1][1] \in Chars
    BY <1>1, <2>2
  <2>. QED
    BY <1>4, <2>3, <2>4, <2>5
<1>16. \A k \in 0..len : r[k] \in V
  <2>. HIDE DEF r
  <2>1. Nat \subseteq N
    <3>. HIDE DEF N
    <3>. QED
      BY <1>14, <1>15, NumberInduction
  <2>. QED
    BY <1>1, <2>1
<1>17. Text(s) = r[len]
  BY <1>1, <1>2
<1>. HIDE DEF r
<1>18. Spells(s, r)
  BY <1>12, <1>13, <1>16 DEF Spells, V, len
<1>. QED
  BY <1>17, <1>18 DEF len

\* Nothing is spelled by no bytes.
LEMMA TextEmpty == Text(<<>>) = <<>> /\ <<>> \in ByteStrings
<1>1. <<>> \in ByteStrings /\ Len(<<>>) = 0
  BY DEF ByteStrings
<1>. QED
  BY <1>1, TextSpells DEF Spells

\* The characters of a string.
LEMMA TextType ==
    ASSUME NEW s \in ByteStrings
    PROVE  Text(s) \in Seq(Chars)
<1>1. Len(s) \in 0..Len(s)
  BY DEF ByteStrings
<1>. QED
  BY <1>1, TextSpells DEF Spells

\* The same first bytes spell the same.
LEMMA SameStart ==
    ASSUME NEW s \in ByteStrings, NEW t \in ByteStrings,
           NEW r, Spells(s, r), NEW q, Spells(t, q),
           NEW n \in Nat, n <= Len(s), n <= Len(t),
           \A k \in 1..n : s[k] = t[k]
    PROVE  r[n] = q[n]
<1>1. Len(s) \in Nat /\ Len(t) \in Nat
  BY DEF ByteStrings
<1>. DEFINE N == {k \in Nat : k <= n => r[k] = q[k]}
<1>2. 0 \in N
  BY DEF Spells
<1>3. ASSUME NEW k \in Nat, k \in N PROVE k + 1 \in N
  <2>1. SUFFICES ASSUME k + 1 <= n PROVE r[k + 1] = q[k + 1]
    OBVIOUS
  <2>2. /\ k + 1 \in 1..n /\ k + 1 \in 1..Len(s) /\ k + 1 \in 1..Len(t)
        /\ (k + 1) - 1 = k
    BY <1>1, <2>1
  <2>3. r[k] = q[k] /\ s[k + 1] = t[k + 1]
    BY <1>3, <2>1, <2>2
  <2>. QED
    BY <2>2, <2>3 DEF Spells
<1>4. Nat \subseteq N
  <2>. HIDE DEF N
  <2>. QED
    BY <1>2, <1>3, NumberInduction
<1>. QED
  BY <1>4

\* What is joined spells the one and then the other.
LEMMA TextJoined ==
    ASSUME NEW p \in ByteStrings, NEW q \in ByteStrings
    PROVE  /\ p \o q \in ByteStrings
           /\ Text(p \o q) = Text(p) \o Text(q)
<1>. DEFINE n == Len(p)
            m == Len(q)
            s == p \o q
<1>1. /\ s \in ByteStrings /\ Len(s) = n + m /\ n \in Nat /\ m \in Nat
      /\ \A k \in 1..(n + m) : s[k] = IF k <= n THEN p[k] ELSE q[k - n]
  BY ConcatAt DEF ByteStrings
<1>. HIDE DEF s, n, m
<1>2. PICK u : Spells(p, u) /\ Text(p) = u[n]
  BY TextSpells DEF n
<1>3. PICK v : Spells(q, v) /\ Text(q) = v[m]
  BY TextSpells DEF m
<1>4. PICK r : Spells(s, r) /\ Text(s) = r[n + m]
  BY <1>1, TextSpells
<1>5. r[n] = u[n]
  <2>1. \A k \in 1..n : s[k] = p[k]
    BY <1>1
  <2>. QED
    BY <1>1, <1>2, <1>4, <2>1, SameStart DEF n
<1>6. /\ u[n] \in Seq(Chars) /\ v[0] = <<>>
      /\ \A k \in 0..m : v[k] \in Seq(Chars)
  BY <1>1, <1>2, <1>3 DEF Spells, n, m
<1>. DEFINE g == [k \in 0..m |-> u[n] \o v[k]]
<1>7. \A k \in 0..m : g[k] = u[n] \o v[k]
  OBVIOUS
<1>. HIDE DEF g
<1>. DEFINE N == {k \in Nat : k <= m => r[n + k] = g[k]}
<1>8. 0 \in N
  <2>1. 0 \in 0..m /\ n + 0 = n
    BY <1>1
  <2>2. g[0] = u[n] \o <<>>
    BY <1>6, <1>7, <2>1
  <2>3. u[n] \o <<>> = u[n]
    BY <1>6
  <2>. QED
    BY <1>5, <2>1, <2>2, <2>3
<1>9. ASSUME NEW k \in Nat, k \in N PROVE k + 1 \in N
  <2>1. SUFFICES ASSUME k + 1 <= m PROVE r[n + (k + 1)] = g[k + 1]
    OBVIOUS
  <2>2. /\ k + 1 \in 1..m /\ (k + 1) - 1 = k /\ k \in 0..m
        /\ n + (k + 1) \in 1..(n + m) /\ (n + (k + 1)) - 1 = n + k
        /\ ~(n + (k + 1) <= n) /\ (n + (k + 1)) - n = k + 1
    BY <1>1, <2>1
  <2>3. s[n + (k + 1)] = q[k + 1] /\ r[n + k] = g[k]
    <3>1. s[n + (k + 1)] = q[(n + (k + 1)) - n]
      BY <1>1, <2>2
    <3>2. r[n + k] = g[k]
      BY <1>9, <2>2
    <3>. QED
      BY <2>2, <3>1, <3>2
  <2>4. r[n + (k + 1)] = IF IsStart(q[k + 1])
                         THEN Append(g[k], q[k + 1][1]) ELSE g[k]
    BY <1>1, <1>4, <2>2, <2>3 DEF Spells
  <2>5. v[k + 1] = IF IsStart(q[k + 1]) THEN Append(v[k], q[k + 1][1])
                                        ELSE v[k]
    BY <1>3, <2>2 DEF Spells, m
  <2>6. q[k + 1][1] \in Chars
    BY <2>2 DEF ByteStrings, ByteSet, m
  <2>7. ASSUME NEW a \in Seq(Chars), NEW b \in Seq(Chars), NEW c \in Chars
        PROVE  Append(a \o b, c) = a \o Append(b, c)
    OBVIOUS
  <2>8. Append(u[n] \o v[k], q[k + 1][1]) = u[n] \o Append(v[k], q[k + 1][1])
    BY <1>6, <2>2, <2>6, <2>7
  <2>9. g[k] = u[n] \o v[k] /\ g[k + 1] = u[n] \o v[k + 1]
    <3>1. k + 1 \in 0..m
      BY <1>1, <2>2
    <3>. QED
      BY <1>7, <2>2, <3>1
  <2>. QED
    BY <2>4, <2>5, <2>8, <2>9
<1>10. Nat \subseteq N
  <2>. HIDE DEF N
  <2>. QED
    BY <1>8, <1>9, NumberInduction
<1>11. r[n + m] = u[n] \o v[m]
  <2>1. m \in 0..m
    BY <1>1
  <2>2. r[n + m] = g[m]
    BY <1>1, <1>10
  <2>. QED
    BY <1>7, <2>1, <2>2
<1>12. Text(s) = Text(p) \o Text(q)
  BY <1>2, <1>3, <1>4, <1>11
<1>. QED
  BY <1>1, <1>12 DEF s

\* A character is spelled by its bytes.
LEMMA TextEncoded ==
    ASSUME NEW c \in Chars
    PROVE  /\ Encoded(c) \in ByteStrings /\ Len(Encoded(c)) = Width[c]
           /\ \A k \in 1..Width[c] : Encoded(c)[k] = <<c, k>>
           /\ Width[c] \in 1..4 /\ Text(Encoded(c)) = <<c>>
<1>1. Width[c] \in 1..4
  BY EditorAssumption
<1>. DEFINE s == Encoded(c)
            w == Width[c]
<1>2. /\ s \in ByteStrings /\ Len(s) = w
      /\ \A k \in 1..w : s[k] = <<c, k>>
  BY <1>1 DEF Encoded, ByteStrings, ByteSet
<1>. HIDE DEF s
<1>3. PICK r : Spells(s, r) /\ Text(s) = r[Len(s)]
  BY <1>2, TextSpells
<1>4. r[1] = <<c>>
  <2>1. 1 \in 1..Len(s) /\ s[1] = <<c, 1>>
    BY <1>1, <1>2
  <2>2. r[1] = IF IsStart(s[1]) THEN Append(r[1 - 1], s[1][1]) ELSE r[1 - 1]
    BY <1>3, <2>1 DEF Spells
  <2>3. r[1] = Append(<<>>, c)
    BY <1>3, <2>1, <2>2 DEF Spells, IsStart
  <2>. QED
    BY <2>3
<1>5. ASSUME NEW k \in 2..4, k <= w PROVE r[k] = r[k - 1]
  <2>1. k \in 1..Len(s) /\ s[k] = <<c, k>>
    BY <1>1, <1>2, <1>5
  <2>2. ~IsStart(s[k])
    BY <2>1 DEF IsStart
  <2>. QED
    BY <1>3, <2>1, <2>2 DEF Spells
<1>6. r[w] = <<c>>
  <2>1. 2 <= w => r[2] = <<c>>
    BY <1>4, <1>5
  <2>2. 3 <= w => r[3] = <<c>>
    BY <1>1, <1>5, <2>1
  <2>3. 4 <= w => r[4] = <<c>>
    BY <1>1, <1>5, <2>2
  <2>. QED
    BY <1>1, <1>4, <2>1, <2>2, <2>3
<1>. QED
  BY <1>1, <1>2, <1>3, <1>6 DEF s

-----------------------------------------------------------------------------
(* Valid strings.                                                          *)

\* Utf8, byte by byte.
Marked(s) ==
    \A i \in 1..Len(s) :
        IF s[i][2] = 1
        THEN /\ i + Width[s[i][1]] - 1 <= Len(s)
             /\ \A j \in 1..Width[s[i][1]] : s[i + j - 1] = <<s[i][1], j>>
        ELSE /\ i > 1 /\ s[i][2] <= Width[s[i][1]]
             /\ s[i - 1] = <<s[i][1], s[i][2] - 1>>

\* It says the same.
LEMMA Utf8Marked ==
    ASSUME NEW s \in ByteStrings
    PROVE  Utf8(s) <=> Marked(s)
<1>1. Len(s) \in Nat /\ DOMAIN s = 1..Len(s) /\ s \in Seq(ByteSet)
  BY DEF ByteStrings
<1>2. ASSUME NEW i \in 1..Len(s), NEW c \in Chars, i + Width[c] - 1 <= Len(s)
      PROVE  SubSeq(s, i, i + Width[c] - 1) = Encoded(c)
                <=> \A j \in 1..Width[c] : s[i + j - 1] = <<c, j>>
  <2>. DEFINE w == Width[c]
              t == SubSeq(s, i, i + w - 1)
  <2>1. /\ Encoded(c) \in Seq(ByteSet) /\ Len(Encoded(c)) = w
        /\ \A k \in 1..w : Encoded(c)[k] = <<c, k>> /\ w \in 1..4
    BY TextEncoded DEF ByteStrings
  <2>2. w \in 1..4
    BY TextEncoded
  <2>. HIDE DEF w
  <2>3. t \in Seq(ByteSet) /\ Len(t) = w /\ \A j \in 1..w : t[j] = s[i + j - 1]
    BY <1>1, <1>2, <2>2 DEF w
  <2>. HIDE DEF t
  <2>. DEFINE e == Encoded(c)
  <2>4. e \in Seq(ByteSet) /\ Len(e) = w /\ \A k \in 1..w : e[k] = <<c, k>>
    BY <2>1
  <2>. HIDE DEF e
  <2>5. t = e <=> \A j \in 1..w : t[j] = e[j]
    BY <2>2, <2>3, <2>4
  <2>6. t = e <=> \A j \in 1..w : s[i + j - 1] = <<c, j>>
    BY <2>3, <2>4, <2>5
  <2>. QED
    BY <2>6 DEF t, w, e
<1>3. \A i \in 1..Len(s) : s[i][1] \in Chars
  BY <1>1 DEF ByteSet
<1>. QED
  BY <1>1, <1>2, <1>3 DEF Utf8, Marked, IsStart

\* Valid strings that are joined are a valid string, cut at a character.
LEMMA ValidJoined ==
    ASSUME NEW p \in Strings, NEW q \in Strings
    PROVE  p \o q \in Strings /\ Boundary(p \o q, Len(p))
<1>. DEFINE n == Len(p)
            m == Len(q)
            s == p \o q
<1>1. p \in ByteStrings /\ q \in ByteStrings /\ Marked(p) /\ Marked(q)
  BY Utf8Marked DEF Strings
<1>2. /\ s \in ByteStrings /\ Len(s) = n + m /\ n \in Nat /\ m \in Nat
      /\ \A k \in 1..(n + m) : s[k] = IF k <= n THEN p[k] ELSE q[k - n]
  BY <1>1, ConcatAt DEF ByteStrings
<1>. HIDE DEF s
<1>3. /\ \A k \in 1..n : p[k] \in ByteSet /\ Width[p[k][1]] \in 1..4
      /\ \A k \in 1..m : q[k] \in ByteSet /\ Width[q[k][1]] \in 1..4
  BY <1>1, EditorAssumption DEF ByteStrings, ByteSet
<1>. HIDE DEF n, m
<1>4. ASSUME NEW i \in 1..(n + m)
      PROVE  IF s[i][2] = 1
             THEN /\ i + Width[s[i][1]] - 1 <= n + m
                  /\ \A j \in 1..Width[s[i][1]] : s[i + j - 1] = <<s[i][1], j>>
             ELSE /\ i > 1 /\ s[i][2] <= Width[s[i][1]]
                  /\ s[i - 1] = <<s[i][1], s[i][2] - 1>>
  <2>1. CASE i <= n
    <3>1. i \in 1..n /\ s[i] = p[i] /\ Width[p[i][1]] \in 1..4
      BY <1>2, <1>3, <2>1
    <3>2. CASE p[i][2] = 1
      <4>1. /\ i + Width[p[i][1]] - 1 <= n
            /\ \A j \in 1..Width[p[i][1]] : p[i + j - 1] = <<p[i][1], j>>
        BY <1>1, <3>1, <3>2 DEF Marked, n
      <4>2. ASSUME NEW j \in 1..Width[p[i][1]]
            PROVE  s[i + j - 1] = p[i + j - 1]
        <5>. DEFINE w == Width[p[i][1]]
                    k == i + j - 1
        <5>1. i \in 1..n /\ j \in 1..w /\ w \in 1..4 /\ i + w - 1 <= n
          BY <3>1, <4>1
        <5>2. n \in Nat /\ m \in Nat
          BY <1>2
        <5>. HIDE DEF w
        <5>3. k \in 1..(n + m) /\ k <= n
          BY <5>1, <5>2
        <5>. HIDE DEF k
        <5>4. s[k] = p[k]
          BY <1>2, <5>3
        <5>. QED
          BY <5>4, Zenon DEF k
      <4>. QED
        BY <1>2, <3>1, <3>2, <4>1, <4>2
    <3>3. CASE p[i][2] # 1
      <4>1. /\ i > 1 /\ p[i][2] <= Width[p[i][1]]
            /\ p[i - 1] = <<p[i][1], p[i][2] - 1>>
        BY <1>1, <3>1, <3>3 DEF Marked, n
      <4>2. s[i - 1] = p[i - 1]
        BY <1>2, <2>1, <4>1
      <4>. QED
        BY <3>1, <3>3, <4>1, <4>2
    <3>. QED
      BY <3>2, <3>3
  <2>2. CASE ~(i <= n)
    <3>. DEFINE h == i - n
    <3>1. h \in 1..m /\ i = n + h
      BY <1>2, <2>2
    <3>2. s[i] = q[h]
      BY <1>2, <2>2
    <3>. HIDE DEF h
    <3>3. Width[q[h][1]] \in 1..4
      BY <1>3, <3>1
    <3>4. CASE q[h][2] = 1
      <4>. DEFINE w == Width[q[h][1]]
      <4>1. /\ h + w - 1 <= m
            /\ \A j \in 1..w : q[h + j - 1] = <<q[h][1], j>>
        BY <1>1, <3>1, <3>4 DEF Marked, m
      <4>2. w \in 1..4
        BY <3>3
      <4>. HIDE DEF w
      <4>3. i + w - 1 <= n + m
        BY <1>2, <3>1, <4>1, <4>2
      <4>4. ASSUME NEW j \in 1..w
            PROVE  s[i + j - 1] = q[h + j - 1]
        <5>1. i + j - 1 \in 1..(n + m) /\ ~(i + j - 1 <= n)
              /\ (i + j - 1) - n = h + j - 1
          BY <1>2, <3>1, <4>1, <4>2
        <5>. QED
          BY <1>2, <5>1
      <4>. QED
        BY <3>2, <3>4, <4>1, <4>3, <4>4 DEF w
    <3>5. CASE q[h][2] # 1
      <4>1. /\ h > 1 /\ q[h][2] <= Width[q[h][1]]
            /\ q[h - 1] = <<q[h][1], q[h][2] - 1>>
        BY <1>1, <3>1, <3>5 DEF Marked, m
      <4>2. i - 1 \in 1..(n + m) /\ ~(i - 1 <= n) /\ (i - 1) - n = h - 1
        BY <1>2, <3>1, <4>1
      <4>3. s[i - 1] = q[h - 1]
        BY <1>2, <4>2
      <4>. QED
        BY <1>2, <3>1, <3>2, <3>5, <4>1, <4>3
    <3>. QED
      BY <3>4, <3>5
  <2>. QED
    BY <2>1, <2>2
<1>5. s \in Strings
  BY <1>2, <1>4, Utf8Marked DEF Marked, Strings
<1>6. Boundary(s, n)
  <2>1. SUFFICES ASSUME m # 0 PROVE s[n + 1][2] = 1
    BY <1>2 DEF Boundary, IsStart
  <2>2. 1 \in 1..m /\ s[n + 1] = q[1]
    BY <1>2, <2>1
  <2>. QED
    BY <1>1, <2>2 DEF Marked, m
<1>. QED
  BY <1>5, <1>6 DEF s, n

\* A valid string that is cut between two characters makes two of them.
LEMMA ValidParts ==
    ASSUME NEW s \in Strings, NEW i, Boundary(s, i)
    PROVE  /\ SubSeq(s, 1, i) \in Strings
           /\ SubSeq(s, i + 1, Len(s)) \in Strings
<1>. DEFINE n == Len(s)
            p == SubSeq(s, 1, i)
            q == SubSeq(s, i + 1, Len(s))
<1>1. /\ s \in Seq(ByteSet) /\ Marked(s) /\ n \in Nat /\ i \in 0..n
      /\ (i < n => s[i + 1][2] = 1)
  BY Utf8Marked DEF Strings, ByteStrings, Boundary, IsStart
<1>2. /\ p \in Seq(ByteSet) /\ Len(p) = i /\ \A k \in 1..i : p[k] = s[k]
      /\ q \in Seq(ByteSet) /\ Len(q) = n - i
      /\ \A k \in 1..(n - i) : q[k] = s[i + k]
  BY <1>1, Cut
<1>. HIDE DEF p, q
<1>3. \A k \in 1..n : s[k] \in ByteSet /\ Width[s[k][1]] \in 1..4
  BY <1>1, EditorAssumption DEF ByteSet
<1>. HIDE DEF n
<1>4. ASSUME NEW k \in 1..i
      PROVE  IF p[k][2] = 1
             THEN /\ k + Width[p[k][1]] - 1 <= i
                  /\ \A j \in 1..Width[p[k][1]] : p[k + j - 1] = <<p[k][1], j>>
             ELSE /\ k > 1 /\ p[k][2] <= Width[p[k][1]]
                  /\ p[k - 1] = <<p[k][1], p[k][2] - 1>>
  <2>1. p[k] = s[k] /\ k \in 1..n /\ Width[s[k][1]] \in 1..4
    BY <1>1, <1>2, <1>3
  <2>2. CASE s[k][2] = 1
    <3>. DEFINE w == Width[s[k][1]]
    <3>1. /\ k + w - 1 <= n
          /\ \A j \in 1..w : s[k + j - 1] = <<s[k][1], j>>
      BY <1>1, <2>1, <2>2 DEF Marked, n
    <3>2. w \in 1..4
      BY <2>1
    <3>. HIDE DEF w
    <3>3. k + w - 1 <= i
      <4>1. SUFFICES ASSUME k + w - 1 > i PROVE FALSE
        BY <1>1, <3>2
      <4>. DEFINE j == i + 2 - k
      <4>2. j \in 1..w /\ k + j - 1 = i + 1 /\ j # 1 /\ i < n
        BY <1>1, <3>1, <3>2, <4>1
      <4>3. s[i + 1] = <<s[k][1], j>>
        BY <3>1, <4>2
      <4>. QED
        BY <1>1, <4>2, <4>3
    <3>4. ASSUME NEW j \in 1..w PROVE p[k + j - 1] = s[k + j - 1]
      BY <1>1, <1>2, <3>2, <3>3
    <3>. QED
      BY <2>1, <2>2, <3>1, <3>3, <3>4 DEF w
  <2>3. CASE s[k][2] # 1
    <3>1. /\ k > 1 /\ s[k][2] <= Width[s[k][1]]
          /\ s[k - 1] = <<s[k][1], s[k][2] - 1>>
      BY <1>1, <2>1, <2>3 DEF Marked, n
    <3>2. p[k - 1] = s[k - 1]
      BY <1>1, <1>2, <3>1
    <3>. QED
      BY <2>1, <2>3, <3>1, <3>2
  <2>. QED
    BY <2>2, <2>3
<1>5. p \in Strings
  BY <1>2, <1>4, Utf8Marked DEF Marked, Strings, ByteStrings
<1>6. ASSUME NEW k \in 1..(n - i)
      PROVE  IF q[k][2] = 1
             THEN /\ k + Width[q[k][1]] - 1 <= n - i
                  /\ \A j \in 1..Width[q[k][1]] : q[k + j - 1] = <<q[k][1], j>>
             ELSE /\ k > 1 /\ q[k][2] <= Width[q[k][1]]
                  /\ q[k - 1] = <<q[k][1], q[k][2] - 1>>
  <2>1. q[k] = s[i + k] /\ i + k \in 1..n /\ Width[s[i + k][1]] \in 1..4
    BY <1>1, <1>2, <1>3
  <2>2. CASE s[i + k][2] = 1
    <3>. DEFINE w == Width[s[i + k][1]]
    <3>1. /\ (i + k) + w - 1 <= n
          /\ \A j \in 1..w : s[(i + k) + j - 1] = <<s[i + k][1], j>>
      BY <1>1, <2>1, <2>2 DEF Marked, n
    <3>2. w \in 1..4
      BY <2>1
    <3>. HIDE DEF w
    <3>3. k + w - 1 <= n - i
      BY <1>1, <3>1, <3>2
    <3>4. ASSUME NEW j \in 1..w PROVE q[k + j - 1] = s[(i + k) + j - 1]
      <4>1. k + j - 1 \in 1..(n - i) /\ i + (k + j - 1) = (i + k) + j - 1
        BY <1>1, <3>2, <3>3
      <4>. QED
        BY <1>2, <4>1
    <3>. QED
      BY <2>1, <2>2, <3>1, <3>3, <3>4 DEF w
  <2>3. CASE s[i + k][2] # 1
    <3>1. /\ s[i + k][2] <= Width[s[i + k][1]]
          /\ s[(i + k) - 1] = <<s[i + k][1], s[i + k][2] - 1>>
      BY <1>1, <2>1, <2>3 DEF Marked, n
    <3>2. k > 1
      BY <1>1, <2>3
    <3>3. k - 1 \in 1..(n - i) /\ i + (k - 1) = (i + k) - 1
      BY <1>1, <3>2
    <3>4. q[k - 1] = s[(i + k) - 1]
      BY <1>2, <3>3
    <3>. QED
      BY <2>1, <2>3, <3>1, <3>2, <3>4
  <2>. QED
    BY <2>2, <2>3
<1>7. q \in Strings
  BY <1>2, <1>6, Utf8Marked DEF Marked, Strings, ByteStrings
<1>. QED
  BY <1>5, <1>7 DEF p, q, n

\* They are as long as the line is on that side, and make it up.
LEMMA StringsCut ==
    ASSUME NEW s \in Strings, NEW i, Boundary(s, i)
    PROVE  /\ SubSeq(s, 1, i) \in Strings
           /\ SubSeq(s, i + 1, Len(s)) \in Strings
           /\ Len(SubSeq(s, 1, i)) = i
           /\ Len(SubSeq(s, i + 1, Len(s))) = Len(s) - i
           /\ s = SubSeq(s, 1, i) \o SubSeq(s, i + 1, Len(s))
<1>1. s \in Seq(ByteSet) /\ i \in 0..Len(s)
  BY DEF Strings, ByteStrings, Boundary
<1>. DEFINE p == SubSeq(s, 1, i)
            q == SubSeq(s, i + 1, Len(s))
<1>2. IsCut(ByteSet, s, i, p, q)
  BY <1>1, CutParts, Zenon
<1>3. p \in Strings /\ q \in Strings
  BY ValidParts, Zenon
<1>. HIDE DEF p, q
<1>4. Len(p) = i /\ Len(q) = Len(s) - i /\ s = p \o q
  BY <1>2, Zenon DEF IsCut
<1>. QED
  BY <1>3, <1>4, Zenon DEF p, q

\* It is of no account which two of three are joined first.
LEMMA BytesJoined ==
    ASSUME NEW a \in ByteStrings, NEW b \in ByteStrings, NEW c \in ByteStrings
    PROVE  (a \o b) \o c = a \o (b \o c)
  BY JoinedInAnyOrder DEF ByteStrings

\* The last character of a valid string, and a valid string before it.
LEMMA LastCharacter ==
    ASSUME NEW s \in Strings, NEW i \in 1..Len(s), Boundary(s, i)
    PROVE  /\ s[i][1] \in Chars /\ Width[s[i][1]] \in 1..4
           /\ i - Width[s[i][1]] \in 0..(i - 1)
           /\ Boundary(s, i - Width[s[i][1]])
           /\ SubSeq(s, 1, i)
                = SubSeq(s, 1, i - Width[s[i][1]]) \o Encoded(s[i][1])
<1>. DEFINE n == Len(s)
            c == s[i][1]
            w == Width[c]
            h == i - w
<1>1. /\ s \in Seq(ByteSet) /\ Marked(s) /\ n \in Nat /\ i \in 1..n
      /\ (i < n => s[i + 1][2] = 1)
  BY Utf8Marked DEF Strings, ByteStrings, Boundary, IsStart
<1>2. \A k \in 1..n : /\ s[k] \in ByteSet /\ s[k][1] \in Chars
                      /\ s[k][2] \in 1..4 /\ Width[s[k][1]] \in 1..4
                      /\ s[k] = <<s[k][1], s[k][2]>>
  BY <1>1, EditorAssumption DEF ByteSet
<1>3. \A k \in 1..n :
         IF s[k][2] = 1
         THEN /\ k + Width[s[k][1]] - 1 <= n
              /\ \A j \in 1..Width[s[k][1]] : s[k + j - 1] = <<s[k][1], j>>
         ELSE /\ k > 1 /\ s[k][2] <= Width[s[k][1]]
              /\ s[k - 1] = <<s[k][1], s[k][2] - 1>>
  BY <1>1 DEF Marked
<1>4. c \in Chars /\ w \in 1..4
  BY <1>1, <1>2
<1>. DEFINE k == s[i][2]
<1>5. k \in 1..4 /\ k <= w /\ s[i] = <<c, k>>
  BY <1>1, <1>2, <1>3, <1>4
<1>. HIDE DEF n, w, c, k
<1>6. ASSUME NEW j \in 0..3, j + 1 < k, i - j \in 1..n,
             s[i - j] = <<c, k - j>>
      PROVE  i - (j + 1) \in 1..n /\ s[i - (j + 1)] = <<c, k - (j + 1)>>
  <2>1. s[i - j][1] = c /\ s[i - j][2] = k - j /\ k - j # 1
    BY <1>5, <1>6
  <2>2. /\ i - j > 1 /\ s[(i - j) - 1] = <<s[i - j][1], s[i - j][2] - 1>>
    BY <1>3, <1>6, <2>1
  <2>3. (i - j) - 1 = i - (j + 1) /\ (k - j) - 1 = k - (j + 1)
    BY <1>1, <1>5
  <2>. QED
    BY <1>1, <1>6, <2>1, <2>2, <2>3
<1>7. i - (k - 1) \in 1..n /\ s[i - (k - 1)] = <<c, 1>>
  <2>1. i - 0 \in 1..n /\ s[i - 0] = <<c, k - 0>>
    BY <1>1, <1>5
  <2>2. 1 < k => i - 1 \in 1..n /\ s[i - 1] = <<c, k - 1>>
    BY <1>6, <2>1
  <2>3. 2 < k => i - 2 \in 1..n /\ s[i - 2] = <<c, k - 2>>
    BY <1>5, <1>6, <2>2
  <2>4. 3 < k => i - 3 \in 1..n /\ s[i - 3] = <<c, k - 3>>
    BY <1>5, <1>6, <2>3
  <2>. QED
    BY <1>1, <1>5, <2>1, <2>2, <2>3, <2>4
<1>. DEFINE f == i - (k - 1)
<1>8. /\ f + w - 1 <= n /\ \A j \in 1..w : s[f + j - 1] = <<c, j>>
  <2>1. f \in 1..n /\ s[f] = <<c, 1>>
    BY <1>7
  <2>. HIDE DEF f
  <2>2. s[f][1] = c /\ s[f][2] = 1
    BY <2>1
  <2>. QED
    BY <1>3, <2>1, <2>2 DEF w
<1>9. k = w
  <2>1. SUFFICES ASSUME k < w PROVE FALSE
    BY <1>4, <1>5
  <2>2. i < n /\ k + 1 \in 1..w /\ f + (k + 1) - 1 = i + 1
    BY <1>1, <1>4, <1>5, <1>8, <2>1
  <2>3. s[i + 1] = <<c, k + 1>>
    BY <1>8, <2>2
  <2>. QED
    BY <1>1, <1>5, <2>2, <2>3 DEF n
<1>10. h \in 0..(i - 1) /\ h + 1 = f /\ h + w = i
  BY <1>1, <1>4, <1>7, <1>9
<1>11. Boundary(s, h)
  <2>1. s[h + 1] = <<c, 1>> /\ h \in 0..n
    BY <1>1, <1>7, <1>10
  <2>. QED
    BY <2>1 DEF Boundary, IsStart, n
<1>. HIDE DEF h, f
<1>12. SubSeq(s, 1, i) = SubSeq(s, 1, h) \o Encoded(c)
  <2>. DEFINE p == SubSeq(s, 1, i)
              a == SubSeq(s, 1, h)
              e == Encoded(c)
              t == a \o e
  <2>1. p \in Seq(ByteSet) /\ Len(p) = i /\ \A j \in 1..i : p[j] = s[j]
    <3>1. i \in 0..Len(s)
      BY <1>1 DEF n
    <3>. QED
      BY <1>1, <3>1, Cut
  <2>2. a \in Seq(ByteSet) /\ Len(a) = h /\ \A j \in 1..h : a[j] = s[j]
    <3>1. h \in 0..Len(s)
      BY <1>1, <1>10 DEF n
    <3>. QED
      BY <1>1, <3>1, Cut
  <2>3. e \in Seq(ByteSet) /\ Len(e) = w /\ \A j \in 1..w : e[j] = <<c, j>>
    BY <1>4, TextEncoded DEF ByteStrings, w
  <2>. HIDE DEF p, a, e
  <2>4. /\ t \in Seq(ByteSet) /\ Len(t) = h + w
        /\ \A j \in 1..(h + w) : t[j] = IF j <= h THEN a[j] ELSE e[j - h]
    BY <2>2, <2>3, ConcatAt
  <2>. HIDE DEF t
  <2>5. ASSUME NEW j \in 1..i PROVE t[j] = p[j]
    <3>1. CASE j <= h
      <4>1. j \in 1..h /\ j \in 1..(h + w)
        BY <1>1, <1>10, <3>1
      <4>. QED
        BY <2>1, <2>2, <2>4, <3>1, <4>1
    <3>2. CASE ~(j <= h)
      <4>1. /\ j - h \in 1..w /\ j \in 1..(h + w)
            /\ f + (j - h) - 1 = j
        BY <1>1, <1>4, <1>10, <3>2
      <4>2. s[j] = <<c, j - h>>
        BY <1>8, <4>1 DEF f
      <4>. QED
        BY <2>1, <2>3, <2>4, <3>2, <4>1, <4>2
    <3>. QED
      BY <3>1, <3>2
  <2>6. p = t
    BY <1>10, <2>1, <2>4, <2>5
  <2>. QED
    BY <2>6 DEF p, a, e, t
<1>. QED
  BY <1>4, <1>10, <1>11, <1>12 DEF h, w, c

\* The first character of a valid string, and a valid string behind it.
LEMMA FirstCharacter ==
    ASSUME NEW s \in Strings, NEW i \in 0..(Len(s) - 1), Boundary(s, i)
    PROVE  /\ s[i + 1][1] \in Chars /\ Width[s[i + 1][1]] \in 1..4
           /\ i + Width[s[i + 1][1]] \in (i + 1)..Len(s)
           /\ Boundary(s, i + Width[s[i + 1][1]])
           /\ SubSeq(s, 1, i + Width[s[i + 1][1]])
                = SubSeq(s, 1, i) \o Encoded(s[i + 1][1])
<1>. DEFINE n == Len(s)
            c == s[i + 1][1]
            w == Width[c]
            e == i + w
<1>1. /\ s \in Seq(ByteSet) /\ Marked(s) /\ n \in Nat /\ i \in 0..(n - 1)
      /\ i + 1 \in 1..n /\ s[i + 1][2] = 1 /\ s[i + 1] \in ByteSet
  BY Utf8Marked DEF Strings, ByteStrings, Boundary, IsStart
<1>2. c \in Chars /\ w \in 1..4
  BY <1>1, EditorAssumption DEF ByteSet
<1>3. /\ (i + 1) + w - 1 <= n
      /\ \A j \in 1..w : s[(i + 1) + j - 1] = <<c, j>>
  BY <1>1 DEF Marked
<1>. HIDE DEF n, w, c
<1>4. e \in (i + 1)..n /\ e - w = i /\ e \in 1..n
  BY <1>1, <1>2, <1>3
<1>5. s[e] = <<c, w>>
  <2>1. w \in 1..w /\ (i + 1) + w - 1 = e
    BY <1>1, <1>2
  <2>. QED
    BY <1>3, <2>1
<1>. HIDE DEF e
<1>6. Boundary(s, e)
  <2>1. SUFFICES ASSUME e < n, s[e + 1][2] # 1 PROVE FALSE
    BY <1>1, <1>4 DEF Boundary, IsStart, n
  <2>2. e + 1 \in 1..n /\ (e + 1) - 1 = e
    BY <1>1, <1>4, <2>1
  <2>3. /\ s[e + 1][2] <= Width[s[e + 1][1]]
        /\ s[e] = <<s[e + 1][1], s[e + 1][2] - 1>>
    BY <1>1, <2>1, <2>2 DEF Marked, n
  <2>4. s[e + 1][1] = c /\ s[e + 1][2] - 1 = w
    BY <1>5, <2>3
  <2>5. s[e + 1][2] \in 1..4
    BY <1>1, <2>2 DEF ByteSet, n
  <2>. QED
    BY <1>2, <2>3, <2>4, <2>5 DEF w
<1>7. s[e][1] = c /\ e \in 1..Len(s)
  BY <1>4, <1>5 DEF n
<1>8. SubSeq(s, 1, e) = SubSeq(s, 1, e - w) \o Encoded(c)
  BY <1>6, <1>7, LastCharacter DEF w
<1>9. SubSeq(s, 1, e) = SubSeq(s, 1, i) \o Encoded(c)
  BY <1>4, <1>8
<1>. QED
  BY <1>2, <1>4, <1>6, <1>9 DEF e, w, c, n

\* The bytes of a character are a valid string, and so are none.
LEMMA ValidEncoded ==
    /\ \A c \in Chars : Encoded(c) \in Strings
    /\ <<>> \in Strings /\ Boundary(<<>>, 0)
<1>1. ASSUME NEW c \in Chars PROVE Encoded(c) \in Strings
  <2>. DEFINE s == Encoded(c)
              w == Width[c]
  <2>1. /\ s \in ByteStrings /\ Len(s) = w /\ w \in 1..4
        /\ \A k \in 1..w : s[k] = <<c, k>>
    BY TextEncoded
  <2>. HIDE DEF s
  <2>2. ASSUME NEW k \in 1..w
        PROVE  IF s[k][2] = 1
               THEN /\ k + Width[s[k][1]] - 1 <= w
                    /\ \A j \in 1..Width[s[k][1]] :
                          s[k + j - 1] = <<s[k][1], j>>
               ELSE /\ k > 1 /\ s[k][2] <= Width[s[k][1]]
                    /\ s[k - 1] = <<s[k][1], s[k][2] - 1>>
    <3>. HIDE DEF w
    <3>1. s[k] = <<c, k>> /\ s[k][1] = c /\ s[k][2] = k
      BY <2>1
    <3>2. ASSUME k = 1, NEW j \in 1..w PROVE s[k + j - 1] = <<c, j>>
      BY <2>1, <3>2
    <3>3. k # 1 => s[k - 1] = <<c, k - 1>>
      BY <2>1
    <3>. QED
      BY <2>1, <3>1, <3>2, <3>3 DEF w
  <2>3. Marked(s)
    BY <2>1, <2>2 DEF Marked
  <2>4. s \in Strings
    BY <2>1, <2>3, Utf8Marked DEF Strings
  <2>. QED
    BY <2>4 DEF s
<1>2. <<>> \in ByteStrings /\ Len(<<>>) = 0
  BY DEF ByteStrings
<1>3. Marked(<<>>)
  BY <1>2 DEF Marked
<1>4. <<>> \in Strings
  BY <1>2, <1>3, Utf8Marked DEF Strings
<1>. QED
  BY <1>1, <1>2, <1>4 DEF Boundary

\* A valid string that is not empty ends in a character.
LEMMA StringEnds ==
    ASSUME NEW s \in Strings, s # <<>>
    PROVE  \E p \in Strings, c \in Chars :
              s = p \o Encoded(c) /\ Len(s) = Len(p) + Width[c]
<1>. DEFINE n == Len(s)
            c == s[n][1]
            h == n - Width[c]
            p == SubSeq(s, 1, h)
<1>1. s \in Seq(ByteSet) /\ n \in 1..n /\ Boundary(s, n)
  BY DEF Strings, ByteStrings, Boundary
<1>2. /\ c \in Chars /\ Width[c] \in 1..4 /\ h \in 0..(n - 1)
      /\ Boundary(s, h) /\ SubSeq(s, 1, n) = p \o Encoded(c)
  BY <1>1, LastCharacter
<1>3. p \in Strings /\ Len(p) = h
  BY <1>2, StringsCut, Zenon
<1>4. SubSeq(s, 1, n) = s
  BY <1>1
<1>. HIDE DEF p
<1>5. s = p \o Encoded(c)
  BY <1>2, <1>4
<1>6. Len(s) = Len(p) + Width[c]
  <2>1. Len(s) = h + Width[c]
    BY <1>1, <1>2
  <2>. QED
    BY <1>3, <2>1
<1>. QED
  BY <1>2, <1>3, <1>5, <1>6

\* Induction over the characters of a valid string.
LEMMA StringInduction ==
    ASSUME NEW T, <<>> \in T,
           \A p \in Strings : p \in T =>
              \A c \in Chars : p \o Encoded(c) \in T
    PROVE  Strings \subseteq T
<1>. DEFINE N == {n \in Nat : \A s \in Strings : Len(s) <= n => s \in T}
<1>1. \A s \in Strings : Len(s) \in Nat /\ (Len(s) = 0 => s = <<>>)
  BY DEF Strings, ByteStrings
<1>2. 0 \in N
  BY <1>1
<1>3. ASSUME NEW n \in Nat, n \in N PROVE n + 1 \in N
  <2>1. SUFFICES ASSUME NEW s \in Strings, Len(s) <= n + 1 PROVE s \in T
    OBVIOUS
  <2>2. CASE s = <<>>
    BY <2>2
  <2>3. CASE s # <<>>
    <3>1. PICK p \in Strings, c \in Chars :
             s = p \o Encoded(c) /\ Len(s) = Len(p) + Width[c]
      BY <2>3, StringEnds
    <3>2. Width[c] \in 1..4 /\ Len(p) \in Nat
      BY <1>1, EditorAssumption
    <3>3. Len(p) <= n
      BY <2>1, <3>1, <3>2
    <3>4. p \in T
      BY <1>3, <3>3
    <3>. QED
      BY <3>1, <3>4
  <2>. QED
    BY <2>2, <2>3
<1>4. Nat \subseteq N
  <2>. HIDE DEF N
  <2>. QED
    BY <1>2, <1>3, NumberInduction
<1>. QED
  BY <1>1, <1>4

\* One character more is spelled by its bytes.
LEMMA TextLonger ==
    ASSUME NEW p \in Strings, NEW c \in Chars
    PROVE  /\ p \o Encoded(c) \in Strings
           /\ Text(p \o Encoded(c)) = Append(Text(p), c)
<1>1. p \in ByteStrings /\ Encoded(c) \in ByteStrings /\ Text(p) \in Seq(Chars)
  BY TextEncoded, TextType DEF Strings
<1>2. Text(p \o Encoded(c)) = Text(p) \o <<c>>
  BY <1>1, TextJoined, TextEncoded
<1>3. Text(p) \o <<c>> = Append(Text(p), c)
  BY <1>1
<1>. QED
  BY <1>2, <1>3, ValidEncoded, ValidJoined

\* Only the empty string spells nothing.
LEMMA NothingSpelled ==
    ASSUME NEW s \in Strings
    PROVE  Text(s) = <<>> <=> s = <<>>
<1>1. ASSUME s # <<>> PROVE Text(s) # <<>>
  <2>1. PICK p \in Strings, c \in Chars :
           s = p \o Encoded(c) /\ Len(s) = Len(p) + Width[c]
    BY <1>1, StringEnds
  <2>2. Text(s) = Append(Text(p), c) /\ Text(p) \in Seq(Chars)
    BY <2>1, TextLonger, TextType DEF Strings
  <2>. QED
    BY <2>2
<1>. QED
  BY <1>1, TextEmpty

\* Valid strings of the same characters are the same.
LEMMA SameText ==
    ASSUME NEW s \in Strings, NEW t \in Strings
    PROVE  Text(s) = Text(t) <=> s = t
<1>. DEFINE T == {a \in Strings : \A b \in Strings : Text(a) = Text(b) => a = b}
<1>1. <<>> \in T
  BY TextEmpty, NothingSpelled, ValidEncoded
<1>2. ASSUME NEW p \in Strings, p \in T, NEW c \in Chars
      PROVE  p \o Encoded(c) \in T
  <2>1. p \o Encoded(c) \in Strings /\ Text(p \o Encoded(c)) = Append(Text(p), c)
    BY TextLonger
  <2>2. ASSUME NEW b \in Strings, Text(p \o Encoded(c)) = Text(b)
        PROVE  p \o Encoded(c) = b
    <3>1. Text(p) \in Seq(Chars)
      BY TextType DEF Strings
    <3>2. b # <<>>
      <4>1. Append(Text(p), c) # <<>>
        BY <3>1, AppendAt
      <4>. QED
        BY <2>1, <2>2, <4>1, TextEmpty
    <3>3. PICK q \in Strings, d \in Chars :
             b = q \o Encoded(d) /\ Len(b) = Len(q) + Width[d]
      BY <3>2, StringEnds
    <3>4. Text(b) = Append(Text(q), d) /\ Text(q) \in Seq(Chars)
      BY <3>3, TextLonger, TextType DEF Strings
    <3>5. Append(Text(p), c) = Append(Text(q), d)
      BY <2>1, <2>2, <3>4
    <3>6. Text(p) = Text(q) /\ c = d
      <4>1. ASSUME NEW u \in Seq(Chars), NEW v \in Seq(Chars),
                   NEW x \in Chars, NEW y \in Chars,
                   Append(u, x) = Append(v, y)
            PROVE  u = v /\ x = y
        <5>1. Len(u) + 1 = Len(v) + 1 /\ Len(u) \in Nat /\ Len(v) \in Nat
          BY <4>1, AppendAt
        <5>2. x = y
          BY <4>1, <5>1, AppendAt
        <5>3. \A k \in 1..Len(u) : u[k] = v[k]
          BY <4>1, <5>1, AppendAt
        <5>. QED
          BY <5>1, <5>2, <5>3
      <4>. QED
        BY <3>1, <3>4, <3>5, <4>1
    <3>7. p = q
      BY <1>2, <3>6
    <3>. QED
      BY <3>3, <3>6, <3>7
  <2>. QED
    BY <2>1, <2>2
<1>3. Strings \subseteq T
  <2>. HIDE DEF T
  <2>. QED
    BY <1>1, <1>2, StringInduction
<1>. QED
  BY <1>3

\* Bytes adds up the widths of the characters.
LEMMA BytesTotal ==
    ASSUME NEW t \in Seq(Chars)
    PROVE  \E r : /\ IsTotal([k \in 1..Len(t) |-> Width[t[k]]], Len(t), r)
                  /\ LineOfChars!Bytes(t) = r[Len(t)]
<1>. DEFINE len == Len(t)
            add == [k \in 1..len |-> TRUE]
            w == [k \in 1..len |-> Width[t[k]]]
            Law(g) == g = [s \in SUBSET (1..len) |->
                             IF s = {} THEN 0
                             ELSE g[s \ {Max(s)}] + Width[t[Max(s)]]]
            chosen == CHOOSE g : Law(g)
<1>1. len \in Nat /\ DOMAIN t = 1..len /\ \A k \in 1..len : t[k] \in Chars
  OBVIOUS
<1>2. LineOfChars!Bytes(t) = chosen[1..len]
  BY <1>1 DEF LineOfChars!Bytes, LineOfChars!FoldLeft,
              LineOfChars!MapThenFoldSet, LineOfChars!Max, Max
<1>3. w \in [1..len -> Nat]
  BY <1>1, EditorAssumption
<1>4. ASSUME NEW g PROVE Law(g) <=> NumberFold(len, add, w, g)
  <2>1. ASSUME NEW s \in SUBSET (1..len), s # {}
        PROVE  add[Max(s)] /\ w[Max(s)] = Width[t[Max(s)]]
    <3>1. s \in SUBSET (0..len)
      BY <1>1
    <3>2. Max(s) \in s
      BY <1>1, <2>1, <3>1, Greatest
    <3>3. Max(s) \in 1..len
      BY <3>2
    <3>4. add[Max(s)]
      BY <3>3, Zenon
    <3>5. w[Max(s)] = Width[t[Max(s)]]
      BY <3>3
    <3>. QED
      BY <3>4, <3>5, Zenon
  <2>. HIDE DEF add, w
  <2>2. \A s \in SUBSET (1..len) :
           (IF s = {} THEN 0 ELSE g[s \ {Max(s)}] + Width[t[Max(s)]])
           = (IF s = {} THEN 0
              ELSE IF add[Max(s)] THEN g[s \ {Max(s)}] + w[Max(s)]
                   ELSE g[s \ {Max(s)}])
    BY <2>1
  <2>. QED
    BY <2>2 DEF NumberFold
<1>5. Terms(len, add, w, w)
  <2>1. \A k \in 1..len : add[k]
    OBVIOUS
  <2>. HIDE DEF add, w
  <2>. QED
    BY <2>1 DEF Terms
<1>. HIDE DEF add, w, Law
<1>6. \E g : NumberFold(len, add, w, g)
  BY <1>1, <1>3, NumberFoldExists
<1>7. Law(chosen)
  BY <1>4, <1>6
<1>. HIDE DEF chosen
<1>8. NumberFold(len, add, w, chosen)
  BY <1>4, <1>7
<1>9. PICK r : IsTotal(w, len, r) /\ chosen[1..len] = r[len]
  BY <1>1, <1>3, <1>5, <1>8, NumberFoldTotal
<1>10. IsTotal(w, len, r) /\ LineOfChars!Bytes(t) = r[len]
  BY <1>2, <1>9
<1>. QED
  BY <1>10 DEF w

\* A character adds its width.
LEMMA BytesLonger ==
    ASSUME NEW t \in Seq(Chars), NEW c \in Chars
    PROVE  LineOfChars!Bytes(Append(t, c)) = LineOfChars!Bytes(t) + Width[c]
<1>. DEFINE n == Len(t)
            u == Append(t, c)
            w == [k \in 1..n |-> Width[t[k]]]
            v == [k \in 1..(n + 1) |-> Width[u[k]]]
<1>1. /\ n \in Nat /\ u \in Seq(Chars) /\ Len(u) = n + 1 /\ u[n + 1] = c
      /\ \A k \in 1..n : u[k] = t[k]
  BY AppendAt
<1>2. PICK r : IsTotal(w, n, r) /\ LineOfChars!Bytes(t) = r[n]
  BY BytesTotal
<1>3. PICK q : IsTotal(v, n + 1, q) /\ LineOfChars!Bytes(u) = q[n + 1]
  <2>. HIDE DEF u, n
  <2>. QED
    BY <1>1, BytesTotal
<1>4. /\ \A k \in 1..n : v[k] = w[k] /\ v[n + 1] = Width[c]
      /\ v[n + 1] \in Nat
  <2>1. n + 1 \in 1..(n + 1) /\ \A k \in 1..n : k \in 1..(n + 1)
    BY <1>1
  <2>2. v[n + 1] = Width[c]
    BY <1>1, <2>1
  <2>3. ASSUME NEW k \in 1..n PROVE v[k] = w[k]
    BY <1>1, <2>1
  <2>4. Width[c] \in Nat
    BY EditorAssumption
  <2>. HIDE DEF v
  <2>. QED
    BY <2>2, <2>3, <2>4
<1>. HIDE DEF v, w, n, u
<1>5. PICK p : IsTotal(v, n + 1, p) /\ p[n + 1] = r[n] + v[n + 1]
  <2>1. v[n + 1] \in Nat /\ \A k \in 1..n : v[k] = w[k]
    BY <1>4
  <2>. QED
    BY <1>1, <1>2, <2>1, TotalLonger
<1>6. p[n + 1] = q[n + 1]
  <2>1. n + 1 \in Nat
    BY <1>1
  <2>. QED
    BY <1>3, <1>5, <2>1, TotalUnique
<1>7. v[n + 1] = Width[c]
  <2>1. n + 1 \in 1..(n + 1)
    BY <1>1
  <2>. QED
    BY <1>1, <2>1 DEF v
<1>8. LineOfChars!Bytes(u) = LineOfChars!Bytes(t) + Width[c]
  BY <1>2, <1>3, <1>5, <1>6, <1>7
<1>. QED
  BY <1>8 DEF u

\* and what a valid string spells takes as many bytes as the string has.
LEMMA BytesOfText ==
    ASSUME NEW s \in Strings
    PROVE  LineOfChars!Bytes(Text(s)) = Len(s)
<1>. DEFINE T == {a \in Strings : LineOfChars!Bytes(Text(a)) = Len(a)}
<1>1. <<>> \in T
  <2>1. <<>> \in Seq(Chars) /\ Len(<<>>) = 0
    OBVIOUS
  <2>2. LineOfChars!Bytes(<<>>) = 0
    BY <2>1, BytesTotal DEF IsTotal
  <2>. QED
    BY <2>1, <2>2, TextEmpty, ValidEncoded
<1>2. ASSUME NEW p \in Strings, p \in T, NEW c \in Chars
      PROVE  p \o Encoded(c) \in T
  <2>1. /\ p \o Encoded(c) \in Strings
        /\ Text(p \o Encoded(c)) = Append(Text(p), c)
    BY TextLonger
  <2>2. /\ p \in Seq(ByteSet) /\ Encoded(c) \in Seq(ByteSet)
        /\ Len(Encoded(c)) = Width[c] /\ Text(p) \in Seq(Chars)
    BY TextEncoded, TextType DEF Strings, ByteStrings
  <2>3. Len(p \o Encoded(c)) = Len(p) + Width[c]
    BY <2>2, ConcatAt
  <2>4. LineOfChars!Bytes(Append(Text(p), c))
           = LineOfChars!Bytes(Text(p)) + Width[c]
    BY <2>2, BytesLonger
  <2>5. LineOfChars!Bytes(Text(p)) = Len(p)
    BY <1>2
  <2>. QED
    BY <2>1, <2>3, <2>4, <2>5
<1>3. Strings \subseteq T
  <2>. HIDE DEF T
  <2>. QED
    BY <1>1, <1>2, StringInduction
<1>. QED
  BY <1>3

-----------------------------------------------------------------------------
(* The characters on both sides of the cursor.                             *)

Before(s, i) == Text(SubSeq(s, 1, i))
After(s, i) == Text(SubSeq(s, i + 1, Len(s)))

\* s with the character c put in at i, and without what is between i and j,
\* where the character c may be.
With(s, i, c) == SubSeq(s, 1, i) \o Encoded(c) \o SubSeq(s, i + 1, Len(s))
Without(s, i, j) == SubSeq(s, 1, i) \o SubSeq(s, j + 1, Len(s))
Between(s, i, j, c) == SubSeq(s, 1, j) = SubSeq(s, 1, i) \o Encoded(c)

\* They make up the line, and there are none where the cursor can go no
\* farther.
LEMMA BothSides ==
    ASSUME NEW s \in Strings, NEW i, Boundary(s, i)
    PROVE  /\ i \in 0..Len(s) /\ Len(s) \in Nat
           /\ Before(s, i) \in Seq(Chars) /\ After(s, i) \in Seq(Chars)
           /\ Text(s) = Before(s, i) \o After(s, i)
           /\ Before(s, i) = <<>> <=> i = 0
           /\ After(s, i) = <<>> <=> i = Len(s)
<1>. DEFINE p == SubSeq(s, 1, i)
            q == SubSeq(s, i + 1, Len(s))
<1>1. s \in Seq(ByteSet) /\ i \in 0..Len(s) /\ Len(s) \in Nat
  BY DEF Strings, ByteStrings, Boundary
<1>2. /\ p \in Strings /\ q \in Strings /\ s = p \o q
      /\ Len(p) = i /\ Len(q) = Len(s) - i
  BY StringsCut, Zenon
<1>3. p \in ByteStrings /\ q \in ByteStrings
  BY <1>2 DEF Strings
<1>4. Before(s, i) = Text(p) /\ After(s, i) = Text(q)
  BY DEF Before, After
<1>. HIDE DEF p, q
<1>5. (p = <<>> <=> i = 0) /\ (q = <<>> <=> i = Len(s))
  BY <1>1, <1>2, <1>3 DEF ByteStrings
<1>6. Text(s) = Text(p) \o Text(q)
  BY <1>2, <1>3, TextJoined
<1>. QED
  BY <1>1, <1>2, <1>3, <1>4, <1>5, <1>6, TextType, NothingSpelled

\* A line that is put together from two.
LEMMA SidesJoined ==
    ASSUME NEW p \in Strings, NEW q \in Strings
    PROVE  /\ p \o q \in Strings /\ Boundary(p \o q, Len(p))
           /\ Len(p \o q) = Len(p) + Len(q)
           /\ Before(p \o q, Len(p)) = Text(p)
           /\ After(p \o q, Len(p)) = Text(q)
<1>1. p \in Seq(ByteSet) /\ q \in Seq(ByteSet)
  BY DEF Strings, ByteStrings
<1>2. /\ SubSeq(p \o q, 1, Len(p)) = p
      /\ SubSeq(p \o q, Len(p) + 1, Len(p \o q)) = q
  BY <1>1, CutJoined
<1>3. Len(p \o q) = Len(p) + Len(q)
  BY <1>1, ConcatAt
<1>. QED
  BY <1>2, <1>3, ValidJoined DEF Before, After

\* The ends of a line.
LEMMA SidesAtEnd ==
    ASSUME NEW s \in Strings
    PROVE  /\ Boundary(s, Len(s))
           /\ Before(s, Len(s)) = Text(s) /\ After(s, Len(s)) = <<>>
<1>1. s \in Seq(ByteSet) /\ Len(s) \in 0..Len(s)
  BY DEF Strings, ByteStrings
<1>2. Boundary(s, Len(s))
  BY <1>1 DEF Boundary
<1>3. SubSeq(s, 1, Len(s)) = s
  BY <1>1
<1>. QED
  BY <1>2, <1>3, BothSides DEF Before

\* A character that is put in at the cursor, which ends up behind it.
LEMMA SidesInserted ==
    ASSUME NEW s \in Strings, NEW i, Boundary(s, i), NEW c \in Chars
    PROVE  /\ With(s, i, c) \in Strings
           /\ Len(With(s, i, c)) = Len(s) + Width[c]
           /\ Boundary(With(s, i, c), i + Width[c])
           /\ Before(With(s, i, c), i + Width[c]) = Append(Before(s, i), c)
           /\ After(With(s, i, c), i + Width[c]) = After(s, i)
<1>. DEFINE t == With(s, i, c)
            j == i + Width[c]
<1>. DEFINE p == SubSeq(s, 1, i)
            q == SubSeq(s, i + 1, Len(s))
            a == p \o Encoded(c)
<1>1. s \in Seq(ByteSet) /\ i \in 0..Len(s) /\ Len(s) \in Nat
  BY DEF Strings, ByteStrings, Boundary
<1>2. p \in Strings /\ q \in Strings /\ Len(p) = i /\ Len(q) = Len(s) - i
  BY StringsCut, Zenon
<1>3. Before(s, i) = Text(p) /\ After(s, i) = Text(q) /\ t = a \o q
  BY DEF Before, After, With
<1>. HIDE DEF p, q, t
<1>4. a \in Strings /\ Text(a) = Append(Text(p), c)
  BY <1>2, TextLonger
<1>5. Len(a) = Len(p) + Len(Encoded(c)) /\ Len(Encoded(c)) = Width[c]
  <2>1. p \in Seq(ByteSet) /\ Encoded(c) \in Seq(ByteSet)
    BY <1>2, TextEncoded DEF Strings, ByteStrings
  <2>. QED
    BY <2>1, ConcatAt, TextEncoded
<1>6. Len(a) = j /\ Width[c] \in Nat
  BY <1>2, <1>5, EditorAssumption
<1>. HIDE DEF a, j
<1>7. /\ a \o q \in Strings /\ Boundary(a \o q, Len(a))
      /\ Len(a \o q) = Len(a) + Len(q)
      /\ Before(a \o q, Len(a)) = Text(a)
      /\ After(a \o q, Len(a)) = Text(q)
  BY <1>2, <1>4, SidesJoined
<1>8. Len(t) = Len(s) + Width[c]
  <2>1. Len(t) = (i + Width[c]) + (Len(s) - i)
    BY <1>2, <1>3, <1>5, <1>7, Zenon
  <2>. DEFINE n == Len(s)
              m == Len(t)
              w == Width[c]
  <2>2. n \in Nat /\ i \in 0..n /\ w \in Nat /\ m = (i + w) + (n - i)
    BY <1>1, <1>6, <2>1, Zenon
  <2>. HIDE DEF n, m, w
  <2>3. m = n + w
    BY <2>2
  <2>. QED
    BY <2>3 DEF n, m, w
<1>. QED
  BY <1>3, <1>4, <1>6, <1>7, <1>8, Zenon DEF t, j

\* A character c from i to j, with the cursor before it, behind it, and
\* after it has been erased.
LEMMA SidesOfCharacter ==
    ASSUME NEW s \in Strings, NEW i, Boundary(s, i), NEW j, Boundary(s, j),
           NEW c \in Chars, Between(s, i, j, c)
    PROVE  /\ Before(s, j) = Append(Before(s, i), c)
           /\ After(s, i) = <<c>> \o After(s, j)
           /\ Without(s, i, j) \in Strings /\ Len(Without(s, i, j)) <= Len(s)
           /\ Boundary(Without(s, i, j), i)
           /\ Before(Without(s, i, j), i) = Before(s, i)
           /\ After(Without(s, i, j), i) = After(s, j)
<1>. DEFINE t == Without(s, i, j)
<1>. DEFINE p == SubSeq(s, 1, i)
            r == SubSeq(s, j + 1, Len(s))
            e == Encoded(c)
<1>1. /\ s \in Seq(ByteSet) /\ Len(s) \in Nat
      /\ i \in 0..Len(s) /\ j \in 0..Len(s)
  BY DEF Strings, ByteStrings, Boundary
<1>2. /\ p \in Strings /\ Len(p) = i
      /\ SubSeq(s, i + 1, Len(s)) \in Strings
      /\ s = p \o SubSeq(s, i + 1, Len(s))
  BY StringsCut, Zenon
<1>3. /\ r \in Strings /\ Len(r) = Len(s) - j /\ s = SubSeq(s, 1, j) \o r
      /\ Len(SubSeq(s, 1, j)) = j
  BY StringsCut, Zenon
<1>4. /\ Before(s, i) = Text(p) /\ Before(s, j) = Text(p \o e)
      /\ After(s, j) = Text(r) /\ t = p \o r
      /\ SubSeq(s, 1, j) = p \o e
  BY DEF Before, After, Between, Without
<1>5. After(s, i) = Text(SubSeq(s, i + 1, Len(s)))
  BY DEF After
<1>. HIDE DEF p, r, t
<1>6. /\ p \in Seq(ByteSet) /\ r \in Seq(ByteSet) /\ e \in Seq(ByteSet)
      /\ Len(e) = Width[c] /\ Width[c] \in 1..4
      /\ e \in Strings /\ Text(e) = <<c>>
  BY <1>2, <1>3, TextEncoded, ValidEncoded DEF Strings, ByteStrings
<1>. HIDE DEF e
<1>7. s = p \o (e \o r) /\ e \o r \in Strings /\ e \o r \in Seq(ByteSet)
  <2>1. s = (p \o e) \o r
    BY <1>3, <1>4
  <2>2. (p \o e) \o r = p \o (e \o r)
    <3>1. p \in ByteStrings /\ e \in ByteStrings /\ r \in ByteStrings
      BY <1>6 DEF ByteStrings
    <3>. QED
      BY <3>1, BytesJoined, Zenon
  <2>3. e \o r \in Strings
    BY <1>3, <1>6, ValidJoined
  <2>. QED
    BY <2>1, <2>2, <2>3 DEF Strings, ByteStrings
<1>8. After(s, i) = Text(e \o r)
  <2>1. SubSeq(p \o (e \o r), Len(p) + 1, Len(p \o (e \o r))) = e \o r
    BY <1>6, <1>7, CutJoined
  <2>. QED
    BY <1>2, <1>5, <1>7, <2>1
<1>9. Text(e \o r) = <<c>> \o Text(r)
  BY <1>6, TextJoined DEF ByteStrings
<1>10. Before(s, j) = Append(Before(s, i), c)
  BY <1>2, <1>4, TextLonger, Zenon DEF e
<1>11. /\ t \in Strings /\ Boundary(t, i) /\ Len(t) = Len(p) + Len(r)
       /\ Before(t, i) = Text(p) /\ After(t, i) = Text(r)
  <2>1. /\ p \o r \in Strings /\ Boundary(p \o r, Len(p))
        /\ Len(p \o r) = Len(p) + Len(r)
        /\ Before(p \o r, Len(p)) = Text(p)
        /\ After(p \o r, Len(p)) = Text(r)
    BY <1>2, <1>3, SidesJoined
  <2>2. t = p \o r /\ Len(p) = i
    BY <1>2, <1>4
  <2>. QED
    BY <2>1, <2>2, Zenon
<1>12. Len(t) <= Len(s)
  <2>1. Len(p \o e) = Len(p) + Len(e)
    BY <1>6, ConcatAt
  <2>2. Len(p \o e) = j
    BY <1>3, <1>4, Zenon
  <2>3. /\ Len(t) = Len(p) + Len(r) /\ Len(p) = i /\ Len(r) = Len(s) - j
        /\ Len(e) = Width[c]
    BY <1>2, <1>3, <1>6, <1>11
  <2>4. Len(t) = i + (Len(s) - j) /\ j = i + Width[c]
    BY <2>1, <2>2, <2>3, Zenon
  <2>. DEFINE n == Len(s)
              m == Len(t)
              w == Width[c]
  <2>5. /\ n \in Nat /\ i \in 0..n /\ j \in 0..n /\ w \in 1..4
        /\ m = i + (n - j) /\ j = i + w
    BY <1>1, <1>6, <2>4, Zenon
  <2>. HIDE DEF n, m, w
  <2>6. m <= n
    BY <2>5
  <2>. QED
    BY <2>6 DEF m, n
<1>. QED
  BY <1>4, <1>8, <1>9, <1>10, <1>11, <1>12, Zenon DEF t

-----------------------------------------------------------------------------
(* The inductive invariant.                                                *)

\* The line is valid and fits its buffer, the cursor is between two
\* characters,
LineInv == bytes \in Strings /\ Len(bytes) <= MaxLine /\ Boundary(bytes, cursor)

\* the history holds valid lines, and the user is at one of them or at none.
HistoryInv ==
    /\ entries \in Seq(Strings) /\ Len(entries) <= MaxHistory
    /\ \A i \in 1..Len(entries) : Len(entries[i]) \in 1..MaxLine
    /\ position \in 0..Len(entries)
    /\ draft \in Strings /\ Len(draft) <= MaxLine

FlagInv ==
    /\ pending \in Keys \cup {NoKey}
    /\ oversized \in BOOLEAN /\ tty \in BOOLEAN
    /\ closed \in BOOLEAN /\ over \in BOOLEAN

EditorInv == LineInv /\ HistoryInv /\ FlagInv

\* The cursor and what is on its sides, when a character is put in,
LEMMA Inserted ==
    ASSUME LineInv, NEW c \in Chars, Fits(bytes, Encoded(c)),
           InsertBytes(Encoded(c))
    PROVE  /\ LineInv'
           /\ Before(bytes, cursor)' = Append(Before(bytes, cursor), c)
           /\ After(bytes, cursor)' = After(bytes, cursor)
<1>1. Len(bytes) + Width[c] <= MaxLine /\ Len(Encoded(c)) = Width[c]
  BY TextEncoded DEF Fits
<1>2. bytes' = With(bytes, cursor, c) /\ cursor' = cursor + Width[c]
  BY <1>1 DEF InsertBytes, With
<1>3. /\ bytes' \in Strings /\ Len(bytes') = Len(bytes) + Width[c]
      /\ Boundary(bytes', cursor')
      /\ Before(bytes', cursor') = Append(Before(bytes, cursor), c)
      /\ After(bytes', cursor') = After(bytes, cursor)
  BY <1>2, SidesInserted DEF LineInv
<1>. QED
  BY <1>1, <1>3 DEF LineInv

\* when it moves to the left,
LEMMA MovedLeft ==
    ASSUME LineInv, cursor' = CharBefore(bytes, cursor), UNCHANGED bytes
    PROVE  /\ LineInv'
           /\ \/ cursor = 0 /\ UNCHANGED cursor
              \/ \E c \in Chars :
                    /\ Before(bytes, cursor) = Append(Before(bytes, cursor)', c)
                    /\ After(bytes, cursor)' = <<c>> \o After(bytes, cursor)
<1>1. cursor \in 0..Len(bytes) /\ Len(bytes) \in Nat
  BY BothSides DEF LineInv
<1>2. CASE cursor = 0
  <2>1. UNCHANGED cursor
    BY <1>2 DEF CharBefore
  <2>. QED
    BY <1>2, <2>1 DEF LineInv
<1>3. CASE cursor # 0
  <2>. DEFINE c == bytes[cursor][1]
  <2>1. cursor \in 1..Len(bytes) /\ cursor' = cursor - Width[c]
    BY <1>1, <1>3 DEF CharBefore
  <2>2. /\ c \in Chars /\ Boundary(bytes, cursor')
        /\ Between(bytes, cursor', cursor, c)
    BY <2>1, LastCharacter DEF LineInv, Between
  <2>. HIDE DEF c
  <2>3. /\ Before(bytes, cursor) = Append(Before(bytes, cursor'), c)
        /\ After(bytes, cursor') = <<c>> \o After(bytes, cursor)
    BY <2>2, SidesOfCharacter DEF LineInv
  <2>. QED
    BY <2>2, <2>3 DEF LineInv
<1>. QED
  BY <1>2, <1>3

\* to the right,
LEMMA MovedRight ==
    ASSUME LineInv, cursor' = CharAfter(bytes, cursor), UNCHANGED bytes
    PROVE  /\ LineInv'
           /\ \/ UNCHANGED cursor
              \/ \E c \in Chars :
                    /\ Before(bytes, cursor)' = Append(Before(bytes, cursor), c)
                    /\ After(bytes, cursor) = <<c>> \o After(bytes, cursor)'
<1>1. cursor \in 0..Len(bytes) /\ Len(bytes) \in Nat
  BY BothSides DEF LineInv
<1>2. CASE cursor = Len(bytes)
  <2>1. UNCHANGED cursor
    BY <1>2 DEF CharAfter
  <2>. QED
    BY <1>2, <2>1 DEF LineInv
<1>3. CASE cursor # Len(bytes)
  <2>. DEFINE c == bytes[cursor + 1][1]
  <2>1. cursor \in 0..(Len(bytes) - 1) /\ cursor' = cursor + Width[c]
    BY <1>1, <1>3 DEF CharAfter
  <2>2. /\ c \in Chars /\ Boundary(bytes, cursor')
        /\ Between(bytes, cursor, cursor', c)
    BY <2>1, FirstCharacter DEF LineInv, Between
  <2>. HIDE DEF c
  <2>3. /\ Before(bytes, cursor') = Append(Before(bytes, cursor), c)
        /\ After(bytes, cursor) = <<c>> \o After(bytes, cursor')
    BY <2>2, SidesOfCharacter DEF LineInv
  <2>. QED
    BY <2>2, <2>3 DEF LineInv
<1>. QED
  BY <1>2, <1>3

\* when the character behind it is erased,
LEMMA Deleted ==
    ASSUME LineInv, DeleteAt(cursor)
    PROVE  /\ LineInv'
           /\ Before(bytes, cursor)' = Before(bytes, cursor)
           /\ \/ After(bytes, cursor)' = After(bytes, cursor)
              \/ \E c \in Chars :
                    After(bytes, cursor) = <<c>> \o After(bytes, cursor)'
<1>1. cursor \in 0..Len(bytes) /\ Len(bytes) \in Nat
  BY BothSides DEF LineInv
<1>. DEFINE j == CharAfter(bytes, cursor)
<1>2. bytes' = Without(bytes, cursor, j) /\ UNCHANGED cursor
  BY DEF DeleteAt, Without
<1>3. CASE cursor = Len(bytes)
  <2>1. j = cursor
    BY <1>3 DEF CharAfter
  <2>2. bytes' = bytes
    BY <1>1, <1>2, <2>1, Cut DEF LineInv, Strings, ByteStrings, Without
  <2>. QED
    BY <1>2, <2>2 DEF LineInv
<1>4. CASE cursor # Len(bytes)
  <2>. DEFINE c == bytes[cursor + 1][1]
  <2>1. cursor \in 0..(Len(bytes) - 1) /\ j = cursor + Width[c]
    BY <1>1, <1>4 DEF CharAfter
  <2>2. /\ c \in Chars /\ Boundary(bytes, j)
        /\ Between(bytes, cursor, j, c)
    BY <2>1, FirstCharacter DEF LineInv, Between
  <2>. HIDE DEF c, j
  <2>3. /\ After(bytes, cursor) = <<c>> \o After(bytes, j)
        /\ bytes' \in Strings /\ Len(bytes') <= Len(bytes)
        /\ Boundary(bytes', cursor)
        /\ Before(bytes', cursor) = Before(bytes, cursor)
        /\ After(bytes', cursor) = After(bytes, j)
    BY <1>2, <2>2, SidesOfCharacter DEF LineInv
  <2>4. Len(bytes') <= MaxLine
    <3>1. Len(bytes') \in Nat /\ Len(bytes) <= MaxLine /\ MaxLine \in Nat
      BY <2>3, EditorAssumption DEF LineInv, Strings, ByteStrings
    <3>. QED
      BY <1>1, <2>3, <3>1
  <2>. QED
    BY <1>2, <2>2, <2>3, <2>4 DEF LineInv
<1>. QED
  BY <1>3, <1>4

\* and when the one before it is.
LEMMA Backspaced ==
    ASSUME LineInv, cursor # 0, DeleteAt(CharBefore(bytes, cursor))
    PROVE  /\ LineInv'
           /\ \E c \in Chars :
                 Before(bytes, cursor) = Append(Before(bytes, cursor)', c)
           /\ After(bytes, cursor)' = After(bytes, cursor)
<1>1. cursor \in 0..Len(bytes) /\ Len(bytes) \in Nat
  BY BothSides DEF LineInv
<1>. DEFINE c == bytes[cursor][1]
            i == cursor - Width[c]
<1>2. cursor \in 1..Len(bytes) /\ CharBefore(bytes, cursor) = i
  BY <1>1 DEF CharBefore
<1>3. /\ c \in Chars /\ Width[c] \in 1..4 /\ i \in 0..(cursor - 1)
      /\ Boundary(bytes, i)
      /\ SubSeq(bytes, 1, cursor) = SubSeq(bytes, 1, i) \o Encoded(c)
  BY <1>2, LastCharacter DEF LineInv
<1>. HIDE DEF c
<1>4. CharAfter(bytes, i) = cursor
  <2>1. i \in 0..(Len(bytes) - 1)
    BY <1>1, <1>2, <1>3
  <2>. DEFINE d == bytes[i + 1][1]
  <2>2. SubSeq(bytes, 1, i + Width[d]) = SubSeq(bytes, 1, i) \o Encoded(d)
        /\ d \in Chars /\ i + Width[d] \in (i + 1)..Len(bytes)
    BY <1>3, <2>1, FirstCharacter DEF LineInv
  <2>3. bytes[i + 1] = <<c, 1>>
    <3>. DEFINE a == SubSeq(bytes, 1, i)
                b == Encoded(c)
    <3>1. bytes \in Seq(ByteSet) /\ i \in 0..Len(bytes)
      BY <1>1, <1>3 DEF LineInv, Strings, ByteStrings
    <3>2. a \in Seq(ByteSet) /\ Len(a) = i
      BY <3>1, Cut
    <3>3. b \in Seq(ByteSet) /\ Len(b) = Width[c] /\ b[1] = <<c, 1>>
      BY <1>3, TextEncoded DEF ByteStrings
    <3>4. \A k \in 1..cursor : SubSeq(bytes, 1, cursor)[k] = bytes[k]
      BY <1>1, <3>1, Cut
    <3>. HIDE DEF a, b
    <3>5. (a \o b)[i + 1] = b[(i + 1) - i]
      <4>1. /\ \A k \in 1..(Len(a) + Len(b)) :
                  (a \o b)[k] = IF k <= Len(a) THEN a[k] ELSE b[k - Len(a)]
        BY <3>2, <3>3, ConcatAt
      <4>2. i + 1 \in 1..(Len(a) + Len(b)) /\ ~(i + 1 <= Len(a))
        <5>. DEFINE x == Len(a)
                    y == Len(b)
        <5>1. i \in Nat /\ x = i /\ y \in 1..4
          BY <1>3, <3>2, <3>3
        <5>. HIDE DEF x, y
        <5>2. i + 1 \in 1..(x + y) /\ ~(i + 1 <= x)
          BY <5>1
        <5>. QED
          BY <5>2, Zenon DEF x, y
      <4>3. (a \o b)[i + 1] = b[(i + 1) - Len(a)]
        BY <4>1, <4>2, Zenon
      <4>. QED
        BY <3>2, <4>3, Zenon
    <3>6. (a \o b)[i + 1] = bytes[i + 1]
      <4>1. i + 1 \in 1..cursor
        BY <1>1, <1>3
      <4>2. SubSeq(bytes, 1, cursor) = a \o b
        BY <1>3 DEF a, b
      <4>3. SubSeq(bytes, 1, cursor)[i + 1] = bytes[i + 1]
        BY <3>4, <4>1, Zenon
      <4>. QED
        BY <4>2, <4>3, Zenon
    <3>7. (i + 1) - i = 1
      BY <3>1
    <3>. QED
      BY <3>3, <3>5, <3>6, <3>7
  <2>4. d = c
    BY <2>3
  <2>5. CharAfter(bytes, i) = i + Width[d]
    BY <2>1 DEF CharAfter
  <2>. HIDE DEF d
  <2>. QED
    BY <1>1, <1>2, <1>3, <2>4, <2>5
<1>5. bytes' = Without(bytes, i, cursor) /\ cursor' = i
  BY <1>2, <1>4, Zenon DEF DeleteAt, Without
<1>. HIDE DEF i
<1>6. /\ Before(bytes, cursor) = Append(Before(bytes, i), c)
      /\ bytes' \in Strings /\ Len(bytes') <= Len(bytes)
      /\ Boundary(bytes', i)
      /\ Before(bytes', i) = Before(bytes, i)
      /\ After(bytes', i) = After(bytes, cursor)
  <2>1. Between(bytes, i, cursor, c)
    BY <1>3 DEF Between
  <2>2. c \in Chars /\ Boundary(bytes, i)
    BY <1>3
  <2>3. bytes \in Strings /\ Boundary(bytes, cursor)
    BY DEF LineInv
  <2>4. /\ Before(bytes, cursor) = Append(Before(bytes, i), c)
        /\ After(bytes, i) = <<c>> \o After(bytes, cursor)
        /\ Without(bytes, i, cursor) \in Strings
        /\ Len(Without(bytes, i, cursor)) <= Len(bytes)
        /\ Boundary(Without(bytes, i, cursor), i)
        /\ Before(Without(bytes, i, cursor), i) = Before(bytes, i)
        /\ After(Without(bytes, i, cursor), i) = After(bytes, cursor)
    BY <2>1, <2>2, <2>3, SidesOfCharacter
  <2>. QED
    BY <1>5, <2>4, Zenon
<1>7. Len(bytes') <= MaxLine
  <2>1. Len(bytes') \in Nat /\ Len(bytes) <= MaxLine /\ MaxLine \in Nat
    BY <1>6, EditorAssumption DEF LineInv, Strings, ByteStrings
  <2>. QED
    BY <1>1, <1>6, <2>1
<1>. QED
  BY <1>3, <1>5, <1>6, <1>7 DEF LineInv

\* Another line is shown, with the cursor at its end.
LEMMA Replaced ==
    ASSUME NEW s \in Strings, Len(s) <= MaxLine, ReplaceLine(s)
    PROVE  /\ LineInv'
           /\ Before(bytes, cursor)' = Text(s) /\ After(bytes, cursor)' = <<>>
  BY SidesAtEnd DEF LineInv, ReplaceLine

-----------------------------------------------------------------------------
(* The history.                                                            *)

\* The commands remembered, the place in them and the draft, as the user
\* knows them.
Told == [i \in DOMAIN entries |-> Text(entries[i])]
Back == IF position = 0 THEN 0 ELSE Len(entries) + 1 - position
Draft == IF position = 0 THEN <<>> ELSE Text(draft)

\* They are those of the entries one by one.
LEMMA ToldEntries ==
    ASSUME HistoryInv
    PROVE  /\ Told \in Seq(Seq(Chars)) /\ Len(Told) = Len(entries)
           /\ Len(entries) \in Nat /\ DOMAIN entries = 1..Len(entries)
           /\ \A i \in 1..Len(entries) :
                 entries[i] \in Strings /\ Told[i] = Text(entries[i])
<1>1. /\ Len(entries) \in Nat /\ DOMAIN entries = 1..Len(entries)
      /\ \A i \in 1..Len(entries) : entries[i] \in Strings
  BY DEF HistoryInv
<1>2. \A i \in 1..Len(entries) : Text(entries[i]) \in Seq(Chars)
  BY <1>1, TextType DEF Strings
<1>3. \A i \in 1..Len(entries) : Told[i] = Text(entries[i])
  BY <1>1 DEF Told
<1>4. Told \in [1..Len(entries) -> Seq(Chars)]
  BY <1>1, <1>2 DEF Told
<1>5. Told \in Seq(Seq(Chars)) /\ Len(Told) = Len(entries)
  <2>. DEFINE t == Told
              n == Len(entries)
  <2>. HIDE DEF t, n
  <2>1. n \in Nat /\ t \in [1..n -> Seq(Chars)]
    BY <1>1, <1>4 DEF t, n
  <2>2. t \in Seq(Seq(Chars)) /\ Len(t) = n
    BY <2>1
  <2>. QED
    BY <2>2 DEF t, n
<1>. QED
  BY <1>1, <1>3, <1>5

\* A line that is given is remembered as its text is.
LEMMA Remembered ==
    ASSUME HistoryInv, NEW s \in Strings, Len(s) <= MaxLine, Remember(s)
    PROVE  /\ entries' \in Seq(Strings) /\ Len(entries') <= MaxHistory
           /\ \A i \in 1..Len(entries') : Len(entries'[i]) \in 1..MaxLine
           /\ Told' = LineOfChars!Kept(Text(s))
<1>1. /\ Told \in Seq(Seq(Chars)) /\ Len(Told) = Len(entries)
      /\ Len(entries) \in Nat /\ DOMAIN entries = 1..Len(entries)
      /\ \A i \in 1..Len(entries) :
            entries[i] \in Strings /\ Told[i] = Text(entries[i])
  BY ToldEntries
<1>2. /\ entries \in Seq(Strings) /\ Len(entries) <= MaxHistory
      /\ \A i \in 1..Len(entries) : Len(entries[i]) \in 1..MaxLine
      /\ MaxHistory \in Nat \ {0}
  BY EditorAssumption DEF HistoryInv
<1>. DEFINE text == Text(s)
            Skipped == \/ s = <<>> \/ Secret(s)
                       \/ entries # <<>> /\ entries[Len(entries)] = s
            Ignored == \/ text = <<>> \/ LineOfChars!Secret(text)
                       \/ Told # <<>> /\ Told[Len(Told)] = text
<1>3. Skipped <=> Ignored
  <2>1. s = <<>> <=> text = <<>>
    BY NothingSpelled
  <2>2. text # <<>> => (Secret(s) <=> LineOfChars!Secret(text))
    BY DEF Secret, LineOfChars!Secret
  <2>3. entries # <<>> <=> Told # <<>>
    <3>1. entries # <<>> <=> Len(entries) # 0
      BY <1>2
    <3>2. Told # <<>> <=> Len(Told) # 0
      BY <1>1
    <3>. QED
      BY <1>1, <3>1, <3>2
  <2>4. entries # <<>> => (entries[Len(entries)] = s <=> Told[Len(Told)] = text)
    <3>1. SUFFICES ASSUME entries # <<>>
                   PROVE  entries[Len(entries)] = s <=> Told[Len(Told)] = text
      OBVIOUS
    <3>2. Len(entries) \in 1..Len(entries)
      BY <1>1, <1>2, <3>1
    <3>3. /\ entries[Len(entries)] \in Strings
          /\ Told[Len(Told)] = Text(entries[Len(entries)])
      BY <1>1, <3>2
    <3>. QED
      BY <3>3, SameText
  <2>. HIDE DEF text
  <2>. QED
    BY <2>1, <2>2, <2>3, <2>4, Zenon
<1>. DEFINE shorter == IF Len(entries) = MaxHistory THEN Tail(entries)
                                                    ELSE entries
            told == IF Len(Told) = MaxHistory THEN Tail(Told) ELSE Told
<1>4. /\ entries' = IF Skipped THEN entries ELSE Append(shorter, s)
      /\ LineOfChars!Kept(text)
            = IF Ignored THEN Told ELSE Append(told, text)
  BY DEF Remember, LineOfChars!Kept, LineOfChars!Last, Told
<1>5. CASE Skipped
  <2>1. entries' = entries /\ LineOfChars!Kept(text) = Told
    BY <1>3, <1>4, <1>5
  <2>. QED
    BY <1>2, <2>1 DEF Told
<1>6. CASE ~Skipped
  <2>. HIDE DEF Ignored, text
  <2>1. /\ entries' = Append(shorter, s) /\ s # <<>>
        /\ LineOfChars!Kept(text) = Append(told, text)
    BY <1>3, <1>4, <1>6
  <2>. HIDE DEF Skipped
  <2>2. /\ shorter \in Seq(Strings) /\ Len(shorter) \in 0..(MaxHistory - 1)
        /\ told \in Seq(Seq(Chars)) /\ Len(told) = Len(shorter)
        /\ \A i \in 1..Len(shorter) :
              /\ shorter[i] \in Strings /\ Len(shorter[i]) \in 1..MaxLine
              /\ told[i] = Text(shorter[i])
    <3>1. CASE Len(entries) = MaxHistory
      <4>1. /\ shorter = Tail(entries) /\ told = Tail(Told)
            /\ entries # <<>> /\ Told # <<>>
        BY <1>1, <1>2, <3>1
      <4>2. /\ shorter \in Seq(Strings) /\ Len(shorter) = Len(entries) - 1
            /\ \A i \in 1..(Len(entries) - 1) : shorter[i] = entries[i + 1]
        BY <1>2, <4>1
      <4>3. /\ told \in Seq(Seq(Chars)) /\ Len(told) = Len(entries) - 1
            /\ \A i \in 1..(Len(entries) - 1) : told[i] = Told[i + 1]
        BY <1>1, <4>1
      <4>4. \A i \in 1..(Len(entries) - 1) : i + 1 \in 1..Len(entries)
        BY <1>1
      <4>. HIDE DEF shorter, told
      <4>. QED
        BY <1>1, <1>2, <3>1, <4>2, <4>3, <4>4
    <3>2. CASE Len(entries) # MaxHistory
      BY <1>1, <1>2, <3>2
    <3>. QED
      BY <3>1, <3>2
  <2>. HIDE DEF shorter, told
  <2>3. /\ entries' \in Seq(Strings) /\ Len(entries') = Len(shorter) + 1
        /\ entries'[Len(shorter) + 1] = s
        /\ \A i \in 1..Len(shorter) : entries'[i] = shorter[i]
    BY <2>1, <2>2, AppendAt
  <2>4. Len(s) \in 1..MaxLine
    <3>1. s \in Seq(ByteSet) /\ MaxLine \in Nat
      BY EditorAssumption DEF Strings, ByteStrings
    <3>. QED
      BY <2>1, <3>1
  <2>5. ASSUME NEW i \in 1..Len(entries')
        PROVE  Len(entries'[i]) \in 1..MaxLine
    <3>1. CASE i = Len(shorter) + 1
      BY <2>3, <2>4, <3>1
    <3>2. CASE i # Len(shorter) + 1
      <4>1. i \in 1..Len(shorter)
        BY <2>2, <2>3, <3>2
      <4>2. entries'[i] = shorter[i]
        BY <2>3, <4>1
      <4>. QED
        BY <2>2, <4>1, <4>2
    <3>. QED
      BY <3>1, <3>2
  <2>6. Told' = Append(told, text)
    <3>. DEFINE t == Append(told, text)
                u == Told'
                n == Len(shorter)
    <3>1. text \in Seq(Chars)
      BY TextType DEF Strings, text
    <3>2. /\ t \in Seq(Seq(Chars)) /\ Len(t) = n + 1 /\ t[n + 1] = text
          /\ \A i \in 1..n : t[i] = told[i]
      BY <2>2, <3>1, AppendAt
    <3>3. n \in Nat /\ DOMAIN entries' = 1..(n + 1)
      BY <2>2, <2>3
    <3>4. u = [i \in 1..(n + 1) |-> Text(entries'[i])]
      BY <3>3 DEF Told
    <3>. HIDE DEF t, u, n
    <3>5. \A i \in 1..(n + 1) : Text(entries'[i]) = t[i]
      <4>1. ASSUME NEW i \in 1..(n + 1) PROVE Text(entries'[i]) = t[i]
        <5>1. CASE i = n + 1
          BY <2>3, <3>2, <5>1 DEF n, text
        <5>2. CASE i # n + 1
          <6>1. i \in 1..n
            BY <3>3, <5>2
          <6>2. entries'[i] = shorter[i] /\ told[i] = Text(shorter[i])
            BY <2>2, <2>3, <6>1 DEF n
          <6>. QED
            BY <3>2, <6>1, <6>2
        <5>. QED
          BY <5>1, <5>2
      <4>. QED
        BY <4>1
    <3>6. u = [i \in 1..(n + 1) |-> t[i]]
      BY <3>4, <3>5
    <3>7. t = [i \in 1..(n + 1) |-> t[i]]
      BY <3>2, <3>3
    <3>. QED
      BY <3>6, <3>7 DEF t, u
  <2>7. Len(entries') <= MaxHistory
    BY <1>2, <2>2, <2>3
  <2>. QED
    BY <2>1, <2>3, <2>5, <2>6, <2>7 DEF text
<1>. QED
  BY <1>5, <1>6

-----------------------------------------------------------------------------
(* The steps of the editor of characters.                                  *)

\* What a step of the editor of bytes is for the user.
LineStep == [LineOfChars!Next]_(LineOfChars!vars)

\* What the user sees of the line, and what is above it.
Sides == <<Before(bytes, cursor), After(bytes, cursor)>>
Above == <<Told, Back, Draft, over>>

\* The two ends of a line of characters.
LEMMA LineEnds ==
    ASSUME NEW S, NEW b \in Seq(S), NEW c \in S
    PROVE  /\ Append(b, c) # <<>> /\ <<c>> \o b # <<>>
           /\ LineOfChars!Front(Append(b, c)) = b
           /\ LineOfChars!Last(Append(b, c)) = c
           /\ Head(<<c>> \o b) = c /\ Tail(<<c>> \o b) = b
<1>. DEFINE t == Append(b, c)
            u == <<c>> \o b
            n == Len(b)
<1>1. n \in Nat /\ b \in Seq(S)
  OBVIOUS
<1>2. /\ t \in Seq(S) /\ Len(t) = n + 1 /\ t[n + 1] = c
      /\ \A i \in 1..n : t[i] = b[i]
  BY AppendAt
<1>3. <<c>> \in Seq(S) /\ Len(<<c>>) = 1 /\ <<c>>[1] = c
  OBVIOUS
<1>4. /\ u \in Seq(S) /\ Len(u) = 1 + n
      /\ \A k \in 1..(1 + n) : u[k] = IF k <= 1 THEN <<c>>[k] ELSE b[k - 1]
  BY <1>3, ConcatAt
<1>5. LineOfChars!Front(t) = SubSeq(t, 1, Len(t) - 1)
  BY DEF LineOfChars!Front
<1>6. LineOfChars!Last(t) = t[Len(t)]
  BY DEF LineOfChars!Last
<1>. HIDE DEF t, u, n
<1>7. t # <<>> /\ u # <<>>
  BY <1>1, <1>2, <1>4
<1>8. SubSeq(t, 1, Len(t) - 1) = b
  <2>1. Len(t) - 1 = n
    BY <1>1, <1>2
  <2>. DEFINE w == SubSeq(t, 1, n)
  <2>2. /\ w \in Seq(S) /\ Len(w) = n
        /\ \A i \in 1..n : w[i] = t[i]
    BY <1>1, <1>2
  <2>. HIDE DEF w
  <2>3. w = b
    BY <1>1, <1>2, <2>2 DEF n
  <2>. QED
    BY <2>1, <2>3 DEF w
<1>9. Head(u) = c
  BY <1>1, <1>3, <1>4
<1>10. Tail(u) = b
  <2>. DEFINE w == Tail(u)
  <2>1. /\ w \in Seq(S) /\ Len(w) = n
        /\ \A i \in 1..n : w[i] = u[i + 1]
    BY <1>1, <1>4, <1>7
  <2>. HIDE DEF w
  <2>2. \A i \in 1..n : u[i + 1] = b[i]
    <3>1. ASSUME NEW i \in 1..n PROVE u[i + 1] = b[i]
      <4>1. i + 1 \in 1..(1 + n) /\ ~(i + 1 <= 1) /\ (i + 1) - 1 = i
        BY <1>1
      <4>. QED
        BY <1>4, <4>1
    <3>. QED
      BY <3>1
  <2>3. w = b
    BY <1>1, <2>1, <2>2 DEF n
  <2>. QED
    BY <2>3 DEF w
<1>. QED
  BY <1>2, <1>5, <1>6, <1>7, <1>8, <1>9, <1>10 DEF t, u

\* Nothing the user sees has changed;
LEMMA NothingSeen ==
    ASSUME UNCHANGED <<Sides, Above>>
    PROVE  LineStep
BY DEF LineStep, LineOfChars!vars, Sides, Above, Before, After, Told, Back,
       Draft

\* a character has been put in before the cursor,
LEMMA SeenInserted ==
    ASSUME ~over, UNCHANGED Above, NEW c \in Chars,
           LineOfChars!Bytes(Before(bytes, cursor) \o After(bytes, cursor))
              + Width[c] <= MaxLine,
           Before(bytes, cursor)' = Append(Before(bytes, cursor), c),
           After(bytes, cursor)' = After(bytes, cursor)
    PROVE  LineStep
<1>1. LineOfChars!Insert
  BY DEF LineOfChars!Insert, Above, Before, After, Told, Back, Draft
<1>. QED
  BY <1>1 DEF LineStep, LineOfChars!Next

\* the cursor is before the character it was behind,
LEMMA SeenLeft ==
    ASSUME ~over, UNCHANGED Above, NEW c \in Chars,
           Before(bytes, cursor)' \in Seq(Chars),
           Before(bytes, cursor) = Append(Before(bytes, cursor)', c),
           After(bytes, cursor)' = <<c>> \o After(bytes, cursor)
    PROVE  LineStep
<1>1. /\ Before(bytes, cursor) # <<>>
      /\ Before(bytes, cursor)' = LineOfChars!Front(Before(bytes, cursor))
      /\ LineOfChars!Last(Before(bytes, cursor)) = c
  BY LineEnds
<1>2. LineOfChars!MoveLeft
  BY <1>1
  DEF LineOfChars!MoveLeft, Above, Before, After, Told, Back, Draft
<1>. QED
  BY <1>2 DEF LineStep, LineOfChars!Next

\* or behind the one it was before;
LEMMA SeenRight ==
    ASSUME ~over, UNCHANGED Above, NEW c \in Chars,
           After(bytes, cursor)' \in Seq(Chars),
           Before(bytes, cursor)' = Append(Before(bytes, cursor), c),
           After(bytes, cursor) = <<c>> \o After(bytes, cursor)'
    PROVE  LineStep
<1>1. /\ After(bytes, cursor) # <<>>
      /\ Head(After(bytes, cursor)) = c
      /\ Tail(After(bytes, cursor)) = After(bytes, cursor)'
  BY LineEnds
<1>2. LineOfChars!MoveRight
  BY <1>1
  DEF LineOfChars!MoveRight, Above, Before, After, Told, Back, Draft
<1>. QED
  BY <1>2 DEF LineStep, LineOfChars!Next

\* the character behind the cursor is gone,
LEMMA SeenDeleted ==
    ASSUME ~over, UNCHANGED Above, NEW c \in Chars,
           After(bytes, cursor)' \in Seq(Chars),
           Before(bytes, cursor)' = Before(bytes, cursor),
           After(bytes, cursor) = <<c>> \o After(bytes, cursor)'
    PROVE  LineStep
<1>1. /\ After(bytes, cursor) # <<>>
      /\ Tail(After(bytes, cursor)) = After(bytes, cursor)'
  BY LineEnds
<1>2. LineOfChars!Erase
  BY <1>1
  DEF LineOfChars!Erase, Above, Before, After, Told, Back, Draft
<1>. QED
  BY <1>2 DEF LineStep, LineOfChars!Next

\* or the one before it.
LEMMA SeenBackspaced ==
    ASSUME ~over, UNCHANGED Above, NEW c \in Chars,
           Before(bytes, cursor)' \in Seq(Chars),
           Before(bytes, cursor) = Append(Before(bytes, cursor)', c),
           After(bytes, cursor)' = After(bytes, cursor)
    PROVE  LineStep
<1>1. /\ Before(bytes, cursor) # <<>>
      /\ Before(bytes, cursor)' = LineOfChars!Front(Before(bytes, cursor))
  BY LineEnds
<1>2. LineOfChars!Erase
  BY <1>1
  DEF LineOfChars!Erase, Above, Before, After, Told, Back, Draft
<1>. QED
  BY <1>2 DEF LineStep, LineOfChars!Next

\* The command before is shown, the line being left,
LEMMA SeenOlder ==
    ASSUME ~over, UNCHANGED <<Told, over>>, Told # <<>>,
           Back' = IF Back < Len(Told) THEN Back + 1 ELSE Back,
           Before(bytes, cursor)' = Told[Len(Told) + 1 - Back'],
           After(bytes, cursor)' = <<>>,
           Draft' = IF Back = 0
                    THEN Before(bytes, cursor) \o After(bytes, cursor)
                    ELSE Draft
    PROVE  LineStep
<1>1. LineOfChars!Older
  BY DEF LineOfChars!Older, Before, After, Told, Back, Draft
<1>. QED
  BY <1>1 DEF LineStep, LineOfChars!Next

\* the command after, or the line that was left;
LEMMA SeenNewer ==
    ASSUME ~over, UNCHANGED <<Told, over>>, Back > 0, Back' = Back - 1,
           Before(bytes, cursor)' = IF Back = 1 THEN Draft
                                    ELSE Told[Len(Told) + 1 - Back'],
           After(bytes, cursor)' = <<>>,
           Draft' = IF Back = 1 THEN <<>> ELSE Draft
    PROVE  LineStep
<1>1. LineOfChars!Newer
  BY DEF LineOfChars!Newer, Before, After, Told, Back, Draft
<1>. QED
  BY <1>1 DEF LineStep, LineOfChars!Next

\* a new line begins, the last one having been given, dropped, or having
\* been the last.
LEMMA SeenNewLine ==
    ASSUME ~over, Back' = 0, Draft' = <<>>,
           Before(bytes, cursor)' = <<>>, After(bytes, cursor)' = <<>>,
           \/ /\ Told' = LineOfChars!Kept(Before(bytes, cursor)
                                             \o After(bytes, cursor))
              /\ UNCHANGED over
           \/ UNCHANGED <<Told, over>>
           \/ over' = TRUE /\ UNCHANGED Told
    PROVE  LineStep
<1>1. LineOfChars!NewLine
  BY DEF LineOfChars!NewLine, Before, After, Back, Draft
<1>2. CASE /\ Told' = LineOfChars!Kept(Before(bytes, cursor)
                                          \o After(bytes, cursor))
           /\ UNCHANGED over
  <2>1. LineOfChars!Submit
    BY <1>1, <1>2 DEF LineOfChars!Submit, Before, After, Told
  <2>. QED
    BY <2>1 DEF LineStep, LineOfChars!Next
<1>3. CASE UNCHANGED <<Told, over>>
  <2>1. LineOfChars!Discard
    BY <1>1, <1>3 DEF LineOfChars!Discard, Told
  <2>. QED
    BY <2>1 DEF LineStep, LineOfChars!Next
<1>4. CASE over' = TRUE /\ UNCHANGED Told
  <2>1. LineOfChars!Close
    BY <1>1, <1>4 DEF LineOfChars!Close, Told
  <2>. QED
    BY <2>1 DEF LineStep, LineOfChars!Next
<1>. QED
  BY <1>2, <1>3, <1>4

-----------------------------------------------------------------------------
(* The steps of the editor of bytes.                                       *)

\* Browsing up.
LEMMA OlderSteps ==
    ASSUME LineInv, HistoryInv, ~over, Older, UNCHANGED over
    PROVE  LineInv' /\ HistoryInv' /\ LineStep
<1>1. CASE entries = <<>>
  <2>1. UNCHANGED <<lineVars, historyVars>>
    BY <1>1 DEF Older
  <2>2. UNCHANGED <<Sides, Above>>
    BY <2>1 DEF Sides, Above, Before, After, Told, Back, Draft, lineVars,
                historyVars
  <2>. QED
    BY <2>1, <2>2, NothingSeen DEF LineInv, HistoryInv, lineVars, historyVars
<1>2. CASE entries # <<>>
  <2>1. /\ position' = CASE position = 0 -> Len(entries)
                         [] position = 1 -> 1
                         [] OTHER        -> position - 1
        /\ draft' = IF position = 0 THEN bytes ELSE draft
        /\ ReplaceLine(entries[position']) /\ entries' = entries
    BY <1>2 DEF Older
  <2>2. /\ Told \in Seq(Seq(Chars)) /\ Len(Told) = Len(entries)
        /\ Len(entries) \in Nat /\ DOMAIN entries = 1..Len(entries)
        /\ \A i \in 1..Len(entries) :
              entries[i] \in Strings /\ Told[i] = Text(entries[i])
    BY ToldEntries
  <2>3. /\ entries \in Seq(Strings) /\ Len(entries) <= MaxHistory
        /\ \A i \in 1..Len(entries) : Len(entries[i]) \in 1..MaxLine
        /\ position \in 0..Len(entries)
        /\ draft \in Strings /\ Len(draft) <= MaxLine
    BY DEF HistoryInv
  <2>4. Told # <<>>
    BY <1>2, <2>2, <2>3
  <2>. DEFINE n == Len(entries)
              q == position'
  <2>5. n \in Nat \ {0} /\ position \in 0..n
    BY <1>2, <2>3
  <2>6. q = IF position = 0 THEN n
            ELSE IF position = 1 THEN 1 ELSE position - 1
    BY <2>1
  <2>7. Back = IF position = 0 THEN 0 ELSE n + 1 - position
    BY DEF Back
  <2>8. Back' = IF q = 0 THEN 0 ELSE n + 1 - q
    BY <2>1 DEF Back
  <2>. HIDE DEF n, q
  <2>9. q \in 1..n
    BY <2>5, <2>6
  <2>10. /\ Back' = IF Back < n THEN Back + 1 ELSE Back
         /\ n + 1 - Back' = q /\ (Back = 0 <=> position = 0)
    BY <2>5, <2>6, <2>7, <2>8, <2>9
  <2>11. entries[q] \in Strings /\ Len(entries[q]) \in 1..MaxLine
         /\ Told[q] = Text(entries[q])
    BY <2>2, <2>3, <2>9 DEF n
  <2>12. /\ LineInv' /\ Before(bytes, cursor)' = Text(entries[q])
         /\ After(bytes, cursor)' = <<>>
    <3>1. Len(entries[q]) <= MaxLine /\ ReplaceLine(entries[q])
      BY <2>1, <2>11, EditorAssumption DEF q
    <3>. QED
      BY <2>11, <3>1, Replaced
  <2>13. HistoryInv'
    <3>1. position' \in 0..Len(entries')
      BY <2>1, <2>9 DEF n, q
    <3>2. draft' \in Strings /\ Len(draft') <= MaxLine
      BY <2>1, <2>3 DEF LineInv
    <3>. QED
      BY <2>1, <2>3, <3>1, <3>2 DEF HistoryInv
  <2>14. Told' = Told
    BY <2>1 DEF Told
  <2>15. Draft' = IF Back = 0
                  THEN Before(bytes, cursor) \o After(bytes, cursor)
                  ELSE Draft
    <3>1. Draft' = Text(draft')
      BY <2>9 DEF Draft, q
    <3>2. Text(bytes) = Before(bytes, cursor) \o After(bytes, cursor)
      BY BothSides DEF LineInv
    <3>. QED
      BY <2>1, <2>10, <3>1, <3>2 DEF Draft
  <2>16. /\ Back' = IF Back < Len(Told) THEN Back + 1 ELSE Back
         /\ Before(bytes, cursor)' = Told[Len(Told) + 1 - Back']
    <3>1. Len(Told) = n
      BY <2>2 DEF n
    <3>. QED
      BY <2>10, <2>11, <2>12, <3>1
  <2>17. UNCHANGED <<Told, over>>
    BY <2>14
  <2>. QED
    BY <2>4, <2>12, <2>13, <2>15, <2>16, <2>17, SeenOlder
<1>. QED
  BY <1>1, <1>2

\* Browsing down.
LEMMA NewerSteps ==
    ASSUME LineInv, HistoryInv, ~over, Newer, UNCHANGED over
    PROVE  LineInv' /\ HistoryInv' /\ LineStep
<1>1. /\ Told \in Seq(Seq(Chars)) /\ Len(Told) = Len(entries)
      /\ Len(entries) \in Nat /\ DOMAIN entries = 1..Len(entries)
      /\ \A i \in 1..Len(entries) :
            entries[i] \in Strings /\ Told[i] = Text(entries[i])
  BY ToldEntries
<1>2. /\ entries \in Seq(Strings) /\ Len(entries) <= MaxHistory
      /\ \A i \in 1..Len(entries) : Len(entries[i]) \in 1..MaxLine
      /\ position \in 0..Len(entries)
      /\ draft \in Strings /\ Len(draft) <= MaxLine
  BY DEF HistoryInv
<1>3. entries' = entries /\ draft' = draft
  BY DEF Newer
<1>4. UNCHANGED <<Told, over>>
  BY <1>3 DEF Told
<1>. DEFINE n == Len(entries)
            q == position'
<1>5. Back = IF position = 0 THEN 0 ELSE n + 1 - position
  BY DEF Back
<1>6. Back' = IF q = 0 THEN 0 ELSE n + 1 - q
  BY <1>3 DEF Back
<1>7. n \in Nat /\ position \in 0..n /\ Len(Told) = n
  BY <1>1, <1>2
<1>8. CASE position = 0
  <2>1. UNCHANGED <<position, lineVars>>
    BY <1>8 DEF Newer
  <2>2. UNCHANGED <<Sides, Above>>
    BY <1>3, <2>1 DEF Sides, Above, Before, After, Told, Back, Draft, lineVars
  <2>. QED
    BY <1>3, <2>1, <2>2, NothingSeen DEF LineInv, HistoryInv, lineVars
<1>9. CASE position \in 1..(n - 1)
  <2>1. q = position + 1 /\ ReplaceLine(entries[q])
    BY <1>9 DEF Newer
  <2>. HIDE DEF n, q
  <2>2. q \in 1..n /\ q # 0 /\ position # 0
    BY <1>7, <1>9, <2>1
  <2>3. /\ Back > 0 /\ Back # 1 /\ Back' = Back - 1
        /\ n + 1 - Back' = q
    BY <1>5, <1>6, <1>7, <1>9, <2>1, <2>2
  <2>4. /\ entries[q] \in Strings /\ Len(entries[q]) \in 1..MaxLine
        /\ Told[q] = Text(entries[q])
    BY <1>1, <1>2, <2>2 DEF n
  <2>5. /\ LineInv' /\ Before(bytes, cursor)' = Text(entries[q])
        /\ After(bytes, cursor)' = <<>>
    <3>1. Len(entries[q]) <= MaxLine
      BY <2>4, EditorAssumption
    <3>. QED
      BY <2>1, <2>4, <3>1, Replaced
  <2>6. HistoryInv'
    <3>1. position' \in 0..Len(entries')
      BY <1>3, <2>2 DEF n, q
    <3>. QED
      BY <1>2, <1>3, <3>1 DEF HistoryInv
  <2>7. Draft' = Draft
    BY <1>3, <2>2 DEF Draft, q
  <2>8. Before(bytes, cursor)' = Told[Len(Told) + 1 - Back']
    BY <1>7, <2>3, <2>4, <2>5
  <2>. QED
    BY <1>4, <2>3, <2>5, <2>6, <2>7, <2>8, SeenNewer
<1>10. CASE position # 0 /\ position \notin 1..(n - 1)
  <2>1. q = 0 /\ ReplaceLine(draft)
    BY <1>10 DEF Newer
  <2>. HIDE DEF n, q
  <2>2. Back = 1 /\ Back' = 0
    BY <1>5, <1>6, <1>7, <1>10, <2>1
  <2>3. Draft = Text(draft) /\ Draft' = <<>>
    BY <1>10, <2>1 DEF Draft, q
  <2>4. /\ LineInv' /\ Before(bytes, cursor)' = Text(draft)
        /\ After(bytes, cursor)' = <<>>
    BY <1>2, <2>1, Replaced
  <2>5. HistoryInv'
    <3>1. position' \in 0..Len(entries')
      BY <1>1, <1>3, <2>1 DEF q
    <3>. QED
      BY <1>2, <1>3, <3>1 DEF HistoryInv
  <2>6. Back > 0 /\ Back' = Back - 1
    BY <2>2
  <2>. QED
    BY <1>4, <2>2, <2>3, <2>4, <2>5, <2>6, SeenNewer
<1>. QED
  BY <1>8, <1>9, <1>10

\* The next line begins empty, and at the bottom of the history.
LEMMA LineBegins ==
    ASSUME NextLine, HistoryInv, entries' \in Seq(Strings),
           Len(entries') <= MaxHistory,
           \A i \in 1..Len(entries') : Len(entries'[i]) \in 1..MaxLine
    PROVE  /\ LineInv' /\ HistoryInv'
           /\ Back' = 0 /\ Draft' = <<>>
           /\ Before(bytes, cursor)' = <<>> /\ After(bytes, cursor)' = <<>>
           /\ pending' = NoKey /\ oversized' = FALSE
<1>1. /\ ReplaceLine(<<>>) /\ position' = 0 /\ draft' = <<>>
      /\ pending' = NoKey /\ oversized' = FALSE
  BY DEF NextLine
<1>2. <<>> \in Strings /\ Text(<<>>) = <<>>
  BY ValidEncoded, TextEmpty
<1>3. Len(<<>>) <= MaxLine
  BY EditorAssumption
<1>4. /\ LineInv' /\ Before(bytes, cursor)' = <<>>
      /\ After(bytes, cursor)' = <<>>
  BY <1>1, <1>2, <1>3, Replaced
<1>5. Back' = 0 /\ Draft' = <<>>
  BY <1>1 DEF Back, Draft
<1>6. 0 \in 0..Len(entries')
  OBVIOUS
<1>7. HistoryInv'
  BY <1>1, <1>2, <1>3, <1>6 DEF HistoryInv
<1>. QED
  BY <1>1, <1>4, <1>5, <1>7

\* The line is given, or the shell is left.
LEMMA ReturnSteps ==
    ASSUME EditorInv, ~over, Return, UNCHANGED <<tty, closed>>
    PROVE  EditorInv' /\ LineStep
<1>1. LineInv /\ HistoryInv /\ FlagInv /\ NextLine
  BY DEF EditorInv, Return
<1>2. Text(bytes) = Before(bytes, cursor) \o After(bytes, cursor)
  BY <1>1, BothSides DEF LineInv
<1>3. CASE Remember(bytes) /\ UNCHANGED over
  <2>1. /\ entries' \in Seq(Strings) /\ Len(entries') <= MaxHistory
        /\ \A i \in 1..Len(entries') : Len(entries'[i]) \in 1..MaxLine
        /\ Told' = LineOfChars!Kept(Text(bytes))
    BY <1>1, <1>3, Remembered DEF LineInv
  <2>2. /\ LineInv' /\ HistoryInv'
        /\ Back' = 0 /\ Draft' = <<>>
        /\ Before(bytes, cursor)' = <<>> /\ After(bytes, cursor)' = <<>>
        /\ pending' = NoKey /\ oversized' = FALSE
    BY <1>1, <2>1, LineBegins
  <2>3. FlagInv'
    BY <1>1, <1>3, <2>2 DEF FlagInv
  <2>4. Told' = LineOfChars!Kept(Before(bytes, cursor)
                                    \o After(bytes, cursor))
    BY <1>2, <2>1
  <2>5. LineStep
    BY <1>3, <2>2, <2>4, SeenNewLine
  <2>. QED
    BY <2>2, <2>3, <2>5 DEF EditorInv
<1>4. CASE over' = TRUE /\ UNCHANGED entries
  <2>1. /\ entries' \in Seq(Strings) /\ Len(entries') <= MaxHistory
        /\ \A i \in 1..Len(entries') : Len(entries'[i]) \in 1..MaxLine
    BY <1>1, <1>4 DEF HistoryInv
  <2>2. /\ LineInv' /\ HistoryInv'
        /\ Back' = 0 /\ Draft' = <<>>
        /\ Before(bytes, cursor)' = <<>> /\ After(bytes, cursor)' = <<>>
        /\ pending' = NoKey /\ oversized' = FALSE
    BY <1>1, <2>1, LineBegins
  <2>3. FlagInv'
    BY <1>1, <1>4, <2>2 DEF FlagInv
  <2>4. UNCHANGED Told
    BY <1>4 DEF Told
  <2>5. LineStep
    BY <1>4, <2>2, <2>4, SeenNewLine
  <2>. QED
    BY <2>2, <2>3, <2>5 DEF EditorInv
<1>. QED
  BY <1>3, <1>4 DEF Return

\* It is dropped, or is the last.
LEMMA NothingGiven ==
    ASSUME EditorInv, ~over, ReturnNothing \/ ReturnNone,
           UNCHANGED <<tty, closed>>
    PROVE  EditorInv' /\ LineStep
<1>1. LineInv /\ HistoryInv /\ FlagInv /\ NextLine /\ UNCHANGED entries
  BY DEF EditorInv, ReturnNothing, ReturnNone
<1>2. UNCHANGED over \/ over' = TRUE
  BY DEF ReturnNothing, ReturnNone
<1>3. /\ entries' \in Seq(Strings) /\ Len(entries') <= MaxHistory
      /\ \A i \in 1..Len(entries') : Len(entries'[i]) \in 1..MaxLine
  BY <1>1 DEF HistoryInv
<1>4. /\ LineInv' /\ HistoryInv'
      /\ Back' = 0 /\ Draft' = <<>>
      /\ Before(bytes, cursor)' = <<>> /\ After(bytes, cursor)' = <<>>
      /\ pending' = NoKey /\ oversized' = FALSE
  BY <1>1, <1>3, LineBegins
<1>5. FlagInv'
  BY <1>1, <1>2, <1>4 DEF FlagInv
<1>6. UNCHANGED Told
  BY <1>1 DEF Told
<1>7. LineStep
  BY <1>2, <1>4, <1>6, SeenNewLine
<1>. QED
  BY <1>4, <1>5, <1>7 DEF EditorInv

\* The line and the history stay as they are.
LEMMA NothingTyped ==
    ASSUME EditorInv, UNCHANGED <<lineVars, historyVars, over>>
    PROVE  LineInv' /\ HistoryInv' /\ LineStep
<1>1. UNCHANGED <<Sides, Above>>
  BY DEF Sides, Above, Before, After, Told, Back, Draft, lineVars, historyVars
<1>. QED
  BY <1>1, NothingSeen DEF EditorInv, LineInv, HistoryInv, lineVars,
                           historyVars

\* The line changes alone.
LEMMA OnlyTheLine ==
    ASSUME HistoryInv, UNCHANGED <<historyVars, over>>
    PROVE  HistoryInv' /\ UNCHANGED Above
BY DEF HistoryInv, historyVars, Above, Told, Back, Draft

\* A character is put in.
LEMMA InsertSteps ==
    ASSUME EditorInv, ~over, NEW c \in Chars, Fits(bytes, Encoded(c)),
           InsertBytes(Encoded(c)), UNCHANGED <<historyVars, over>>
    PROVE  LineInv' /\ HistoryInv' /\ LineStep
<1>1. LineInv /\ HistoryInv
  BY DEF EditorInv
<1>2. /\ LineInv'
      /\ Before(bytes, cursor)' = Append(Before(bytes, cursor), c)
      /\ After(bytes, cursor)' = After(bytes, cursor)
  BY <1>1, Inserted
<1>3. HistoryInv' /\ UNCHANGED Above
  BY <1>1, OnlyTheLine
<1>4. LineOfChars!Bytes(Before(bytes, cursor) \o After(bytes, cursor))
         + Width[c] <= MaxLine
  <2>1. Text(bytes) = Before(bytes, cursor) \o After(bytes, cursor)
    BY <1>1, BothSides DEF LineInv
  <2>2. LineOfChars!Bytes(Text(bytes)) = Len(bytes)
    BY <1>1, BytesOfText DEF LineInv
  <2>3. Len(bytes) + Width[c] <= MaxLine
    BY TextEncoded DEF Fits
  <2>. QED
    BY <2>1, <2>2, <2>3, Zenon
<1>5. LineStep
  BY <1>2, <1>3, <1>4, SeenInserted
<1>. QED
  BY <1>2, <1>3, <1>5

\* A character is typed, or a part of one.
LEMMA CharacterSteps ==
    ASSUME EditorInv, ~over, NEW c \in Chars, Character(c),
           UNCHANGED <<tty, closed>>
    PROVE  EditorInv' /\ LineStep
<1>1. /\ UNCHANGED <<historyVars, over>> /\ oversized' = oversized
      /\ pending' \in Keys \cup {NoKey}
  BY EditorAssumption DEF Character
<1>2. \/ Fits(bytes, Encoded(c)) /\ InsertBytes(Encoded(c))
      \/ UNCHANGED lineVars
  BY DEF Character
<1>3. LineInv' /\ HistoryInv' /\ LineStep
  <2>1. CASE Fits(bytes, Encoded(c)) /\ InsertBytes(Encoded(c))
    BY <1>1, <2>1, InsertSteps
  <2>2. CASE UNCHANGED lineVars
    BY <1>1, <2>2, NothingTyped
  <2>. QED
    BY <1>2, <2>1, <2>2
<1>4. FlagInv'
  BY <1>1 DEF EditorInv, FlagInv
<1>. QED
  BY <1>3, <1>4 DEF EditorInv

\* Backspace.
LEMMA BackspaceSteps ==
    ASSUME EditorInv, ~over, UNCHANGED <<historyVars, over>>,
           IF cursor = 0 THEN UNCHANGED lineVars
                         ELSE DeleteAt(CharBefore(bytes, cursor))
    PROVE  LineInv' /\ HistoryInv' /\ LineStep
<1>1. LineInv /\ HistoryInv
  BY DEF EditorInv
<1>2. CASE cursor = 0
  BY <1>2, NothingTyped
<1>3. CASE cursor # 0
  <2>1. DeleteAt(CharBefore(bytes, cursor))
    BY <1>3
  <2>2. /\ LineInv'
        /\ \E c \in Chars :
              Before(bytes, cursor) = Append(Before(bytes, cursor)', c)
        /\ After(bytes, cursor)' = After(bytes, cursor)
    BY <1>1, <1>3, <2>1, Backspaced
  <2>3. HistoryInv' /\ UNCHANGED Above
    BY <1>1, OnlyTheLine
  <2>4. PICK c \in Chars :
           Before(bytes, cursor) = Append(Before(bytes, cursor)', c)
    BY <2>2
  <2>5. Before(bytes, cursor)' \in Seq(Chars)
    BY <2>2, BothSides DEF LineInv
  <2>6. LineStep
    BY <2>2, <2>3, <2>4, <2>5, SeenBackspaced
  <2>. QED
    BY <2>2, <2>3, <2>6
<1>. QED
  BY <1>2, <1>3

\* The key that erases the character behind the cursor.
LEMMA DeleteSteps ==
    ASSUME EditorInv, ~over, UNCHANGED <<historyVars, over>>, DeleteAt(cursor)
    PROVE  LineInv' /\ HistoryInv' /\ LineStep
<1>1. LineInv /\ HistoryInv
  BY DEF EditorInv
<1>2. /\ LineInv'
      /\ Before(bytes, cursor)' = Before(bytes, cursor)
      /\ \/ After(bytes, cursor)' = After(bytes, cursor)
         \/ \E c \in Chars :
               After(bytes, cursor) = <<c>> \o After(bytes, cursor)'
  BY <1>1, Deleted
<1>3. HistoryInv' /\ UNCHANGED Above
  BY <1>1, OnlyTheLine
<1>4. CASE After(bytes, cursor)' = After(bytes, cursor)
  <2>1. UNCHANGED <<Sides, Above>>
    BY <1>2, <1>3, <1>4 DEF Sides
  <2>. QED
    BY <1>2, <1>3, <2>1, NothingSeen
<1>5. ASSUME NEW c \in Chars,
             After(bytes, cursor) = <<c>> \o After(bytes, cursor)'
      PROVE  LineStep
  <2>1. After(bytes, cursor)' \in Seq(Chars)
    BY <1>2, BothSides DEF LineInv
  <2>. QED
    BY <1>2, <1>3, <1>5, <2>1, SeenDeleted
<1>. QED
  BY <1>2, <1>3, <1>4, <1>5

\* The arrows along the line.
LEMMA ArrowSteps ==
    ASSUME EditorInv, ~over, UNCHANGED <<historyVars, over>>, UNCHANGED bytes,
           \/ cursor' = CharBefore(bytes, cursor)
           \/ cursor' = CharAfter(bytes, cursor)
    PROVE  LineInv' /\ HistoryInv' /\ LineStep
<1>1. LineInv /\ HistoryInv
  BY DEF EditorInv
<1>2. HistoryInv' /\ UNCHANGED Above
  BY <1>1, OnlyTheLine
<1>3. UNCHANGED cursor => LineStep
  <2>1. UNCHANGED cursor => UNCHANGED <<Sides, Above>>
    BY <1>2 DEF Sides, Before, After
  <2>. QED
    BY <2>1, NothingSeen
<1>4. CASE cursor' = CharBefore(bytes, cursor)
  <2>1. /\ LineInv'
        /\ \/ cursor = 0 /\ UNCHANGED cursor
           \/ \E c \in Chars :
                 /\ Before(bytes, cursor) = Append(Before(bytes, cursor)', c)
                 /\ After(bytes, cursor)' = <<c>> \o After(bytes, cursor)
    BY <1>1, <1>4, MovedLeft
  <2>2. ASSUME NEW c \in Chars,
               Before(bytes, cursor) = Append(Before(bytes, cursor)', c),
               After(bytes, cursor)' = <<c>> \o After(bytes, cursor)
        PROVE  LineStep
    <3>1. Before(bytes, cursor)' \in Seq(Chars)
      BY <2>1, BothSides DEF LineInv
    <3>. QED
      BY <1>2, <2>2, <3>1, SeenLeft
  <2>. QED
    BY <1>2, <1>3, <2>1, <2>2
<1>5. CASE cursor' = CharAfter(bytes, cursor)
  <2>1. /\ LineInv'
        /\ \/ UNCHANGED cursor
           \/ \E c \in Chars :
                 /\ Before(bytes, cursor)' = Append(Before(bytes, cursor), c)
                 /\ After(bytes, cursor) = <<c>> \o After(bytes, cursor)'
    BY <1>1, <1>5, MovedRight
  <2>2. ASSUME NEW c \in Chars,
               Before(bytes, cursor)' = Append(Before(bytes, cursor), c),
               After(bytes, cursor) = <<c>> \o After(bytes, cursor)'
        PROVE  LineStep
    <3>1. After(bytes, cursor)' \in Seq(Chars)
      BY <2>1, BothSides DEF LineInv
    <3>. QED
      BY <1>2, <2>2, <3>1, SeenRight
  <2>. QED
    BY <1>2, <1>3, <2>1, <2>2
<1>. QED
  BY <1>4, <1>5

\* The escape sequences.
LEMMA EscapeSteps ==
    ASSUME EditorInv, ~over, NEW key \in Escapes, Escape(key),
           UNCHANGED <<tty, closed>>
    PROVE  EditorInv' /\ LineStep
<1>1. LineInv /\ HistoryInv
  BY DEF EditorInv
<1>2. pending' = NoKey /\ oversized' = oversized /\ over' = over
  BY DEF Escape
<1>3. FlagInv'
  BY <1>2 DEF EditorInv, FlagInv
<1>4. CASE key = "up"
  <2>1. Older
    BY <1>4 DEF Escape
  <2>. QED
    BY <1>1, <1>2, <1>3, <2>1, OlderSteps DEF EditorInv
<1>5. CASE key = "down"
  <2>1. Newer
    BY <1>5 DEF Escape
  <2>. QED
    BY <1>1, <1>2, <1>3, <2>1, NewerSteps DEF EditorInv
<1>6. CASE key # "up" /\ key # "down"
  <2>1. /\ CASE key = "left"   -> cursor' = CharBefore(bytes, cursor)
                                    /\ UNCHANGED bytes
              [] key = "right"  -> cursor' = CharAfter(bytes, cursor)
                                    /\ UNCHANGED bytes
              [] key = "delete" -> DeleteAt(cursor)
              [] OTHER          -> UNCHANGED lineVars
        /\ UNCHANGED historyVars
    BY <1>6 DEF Escape
  <2>2. UNCHANGED <<historyVars, over>>
    BY <1>2, <2>1
  <2>3. \/ cursor' = CharBefore(bytes, cursor) /\ UNCHANGED bytes
        \/ cursor' = CharAfter(bytes, cursor) /\ UNCHANGED bytes
        \/ DeleteAt(cursor)
        \/ UNCHANGED lineVars
    BY <2>1
  <2>4. LineInv' /\ HistoryInv' /\ LineStep
    BY <2>2, <2>3, ArrowSteps, DeleteSteps, NothingTyped
  <2>. QED
    BY <1>3, <2>4 DEF EditorInv
<1>. QED
  BY <1>4, <1>5, <1>6

\* Every key.
LEMMA HandleSteps ==
    ASSUME EditorInv, ~over, NEW key \in Keys, Handle(key)
    PROVE  EditorInv' /\ LineStep
<1>1. UNCHANGED <<tty, closed>>
  BY DEF Handle
<1>2. key \in Chars =>
         /\ key \notin Escapes /\ key # "backspace" /\ key # "enter"
         /\ key # "ctrl-c" /\ key # "ctrl-d"
  BY EditorAssumption DEF Controls
<1>3. key \in Escapes =>
         /\ key # "backspace" /\ key # "enter"
         /\ key # "ctrl-c" /\ key # "ctrl-d"
  BY DEF Escapes
<1>4. CASE key \in Chars
  <2>1. Character(key)
    BY <1>2, <1>4 DEF Handle
  <2>. QED
    BY <1>1, <1>4, <2>1, CharacterSteps
<1>5. CASE key \in Escapes
  <2>1. Escape(key)
    BY <1>2, <1>3, <1>5 DEF Handle
  <2>. QED
    BY <1>1, <1>5, <2>1, EscapeSteps
<1>6. CASE key = "backspace"
  <2>1. /\ IF cursor = 0 THEN UNCHANGED lineVars
                         ELSE DeleteAt(CharBefore(bytes, cursor))
        /\ pending' = NoKey
        /\ UNCHANGED <<historyVars, oversized, over>>
    BY <1>2, <1>3, <1>6 DEF Handle
  <2>2. LineInv' /\ HistoryInv' /\ LineStep
    BY <2>1, BackspaceSteps
  <2>3. FlagInv'
    BY <1>1, <2>1 DEF EditorInv, FlagInv
  <2>. QED
    BY <2>2, <2>3 DEF EditorInv
<1>7. CASE key = "enter"
  <2>1. Return
    BY <1>2, <1>3, <1>7 DEF Handle
  <2>. QED
    BY <1>1, <2>1, ReturnSteps
<1>8. CASE key = "ctrl-c" \/ (key = "ctrl-d" /\ bytes = <<>>)
  <2>1. ReturnNothing \/ ReturnNone
    BY <1>2, <1>3, <1>8 DEF Handle
  <2>. QED
    BY <1>1, <2>1, NothingGiven
<1>9. CASE key = "ctrl-d" /\ bytes # <<>>
  <2>1. pending' = NoKey /\ UNCHANGED <<lineVars, historyVars, oversized, over>>
    BY <1>2, <1>3, <1>9 DEF Handle
  <2>2. LineInv' /\ HistoryInv' /\ LineStep
    BY <2>1, NothingTyped
  <2>3. FlagInv'
    BY <1>1, <2>1 DEF EditorInv, FlagInv
  <2>. QED
    BY <2>2, <2>3 DEF EditorInv
<1>. QED
  BY <1>4, <1>5, <1>6, <1>7, <1>8, <1>9 DEF Keys, Controls

\* The plain reader takes a character, or the line is too long for it.
LEMMA ReadChunkSteps ==
    ASSUME EditorInv, ReadChunk
    PROVE  EditorInv' /\ LineStep
<1>1. ~over /\ UNCHANGED <<historyVars, pending, tty, closed, over>>
  BY DEF ReadChunk
<1>2. PICK c \in Chars :
         IF ~oversized /\ Fits(bytes, Encoded(c))
         THEN InsertBytes(Encoded(c)) /\ UNCHANGED oversized
         ELSE oversized' = TRUE /\ UNCHANGED lineVars
  BY DEF ReadChunk
<1>3. LineInv' /\ HistoryInv' /\ LineStep
  <2>1. CASE ~oversized /\ Fits(bytes, Encoded(c))
    BY <1>1, <1>2, <2>1, InsertSteps
  <2>2. CASE ~(~oversized /\ Fits(bytes, Encoded(c)))
    BY <1>1, <1>2, <2>2, NothingTyped
  <2>. QED
    BY <2>1, <2>2
<1>4. oversized' = oversized \/ oversized' = TRUE
  BY <1>2
<1>5. FlagInv'
  BY <1>1, <1>4 DEF EditorInv, FlagInv
<1>. QED
  BY <1>3, <1>5 DEF EditorInv

\* The lines that end with a newline.
LEMMA ReadNewlineSteps ==
    ASSUME EditorInv, ReadNewline
    PROVE  EditorInv' /\ LineStep
<1>1. ~over /\ UNCHANGED <<tty, closed>> /\ (ReturnNothing \/ Return)
  BY DEF ReadNewline
<1>. QED
  BY <1>1, NothingGiven, ReturnSteps

\* Those that the end of the input ends, and the end of the shell.
LEMMA ReadEndSteps ==
    ASSUME EditorInv, ReadEnd
    PROVE  EditorInv' /\ LineStep
<1>1. ~over /\ UNCHANGED <<tty, closed>>
  BY DEF ReadEnd
<1>2. ReturnNothing \/ ReturnNone \/ Return
  BY DEF ReadEnd, EndOfTerminal, EndOfFile
<1>. QED
  BY <1>1, <1>2, NothingGiven, ReturnSteps

\* Every step keeps the invariant, and is one of the editor of characters.
LEMMA EditorSteps ==
    ASSUME EditorInv, [Next]_vars
    PROVE  EditorInv' /\ LineStep
<1>1. CASE Type
  <2>1. ~over
    BY <1>1 DEF Type
  <2>2. PICK key \in Keys : Handle(key)
    BY <1>1 DEF Type
  <2>. QED
    BY <2>1, <2>2, HandleSteps
<1>2. CASE HandlePending
  <2>1. ~over /\ pending # NoKey /\ Handle(pending)
    BY <1>2 DEF HandlePending
  <2>2. pending \in Keys
    BY <2>1 DEF EditorInv, FlagInv
  <2>. QED
    BY <2>1, <2>2, HandleSteps
<1>3. CASE ReadChunk
  BY <1>3, ReadChunkSteps
<1>4. CASE ReadNewline
  BY <1>4, ReadNewlineSteps
<1>5. CASE ReadEnd
  BY <1>5, ReadEndSteps
<1>6. CASE ReadFails
  BY <1>6, NothingGiven DEF ReadFails
<1>7. CASE CloseInput
  <2>1. /\ UNCHANGED <<lineVars, historyVars, pending, oversized, tty, over>>
        /\ closed' = TRUE
    BY <1>7 DEF CloseInput
  <2>2. LineInv' /\ HistoryInv' /\ LineStep
    BY <2>1, NothingTyped
  <2>3. FlagInv'
    BY <2>1 DEF EditorInv, FlagInv
  <2>. QED
    BY <2>2, <2>3 DEF EditorInv
<1>8. CASE UNCHANGED vars
  <2>1. UNCHANGED <<lineVars, historyVars, pending, oversized, tty, closed,
                    over>>
    BY <1>8 DEF vars
  <2>2. LineInv' /\ HistoryInv' /\ LineStep
    BY <2>1, NothingTyped
  <2>3. FlagInv'
    BY <2>1 DEF EditorInv, FlagInv
  <2>. QED
    BY <2>2, <2>3 DEF EditorInv
<1>. QED
  BY <1>1, <1>2, <1>3, <1>4, <1>5, <1>6, <1>7, <1>8 DEF Next

-----------------------------------------------------------------------------
(* The theorems.                                                           *)

\* The editor begins with an empty line and without a history.
LEMMA EditorBegins ==
    ASSUME Init
    PROVE  EditorInv /\ LineOfChars!Init
<1>1. /\ bytes = <<>> /\ cursor = 0 /\ entries = <<>> /\ position = 0
      /\ draft = <<>> /\ over = FALSE
  BY DEF Init
<1>2. <<>> \in Strings /\ Text(<<>>) = <<>>
  BY ValidEncoded, TextEmpty
<1>3. Len(<<>>) = 0 /\ 0 <= MaxLine /\ 0 <= MaxHistory
  BY EditorAssumption
<1>4. LineInv
  BY <1>1, <1>2, <1>3 DEF LineInv, Boundary
<1>5. HistoryInv
  <2>1. entries \in Seq(Strings) /\ position \in 0..Len(entries)
    BY <1>1
  <2>2. \A i \in 1..Len(entries) : Len(entries[i]) \in 1..MaxLine
    BY <1>1
  <2>. QED
    BY <1>1, <1>2, <1>3, <2>1, <2>2 DEF HistoryInv
<1>6. FlagInv
  BY DEF Init, FlagInv
<1>7. Before(bytes, cursor) = <<>> /\ After(bytes, cursor) = <<>>
  <2>1. Boundary(bytes, cursor) /\ Len(bytes) = 0
    BY <1>1, <1>3, <1>4 DEF LineInv
  <2>. QED
    BY <1>1, <1>2, <2>1, BothSides
<1>8. Told = <<>>
  BY <1>1 DEF Told
<1>9. Back = 0 /\ Draft = <<>>
  BY <1>1 DEF Back, Draft
<1>10. LineOfChars!Init
  BY <1>1, <1>7, <1>8, <1>9
  DEF LineOfChars!Init, Before, After, Told, Back, Draft
<1>. QED
  BY <1>4, <1>5, <1>6, <1>10 DEF EditorInv

\* What the line, the history and the flags are in every state of the editor
\* (line_editor.rs): the line and all that is remembered are valid UTF-8 and
\* within their buffers, the cursor never stands inside a character.
THEOREM EditorInvariant == Spec => []EditorInv
<1>1. Init => EditorInv
  BY EditorBegins
<1>2. EditorInv /\ [Next]_vars => EditorInv'
  BY EditorSteps
<1>. QED
  BY <1>1, <1>2, PTL DEF Spec

\* No slice of the line can panic and no buffer overflows, whatever is typed,
\* however the keys interrupt each other (EditLine, CommandHistory).
THEOREM TypeCorrect == Spec => []TypeOK
<1>1. EditorInv => TypeOK
  <2>1. SUFFICES ASSUME EditorInv PROVE TypeOK
    OBVIOUS
  <2>2. LineInv /\ HistoryInv /\ FlagInv
    BY <2>1 DEF EditorInv
  <2>3. Utf8(bytes) /\ Len(bytes) <= MaxLine /\ Boundary(bytes, cursor)
    BY <2>2 DEF LineInv, Strings
  <2>4. Utf8(draft) /\ Len(draft) <= MaxLine
    BY <2>2 DEF HistoryInv, Strings
  <2>5. ASSUME NEW i \in DOMAIN entries
        PROVE  Utf8(entries[i]) /\ Len(entries[i]) \in 1..MaxLine
    <3>1. i \in 1..Len(entries) /\ entries[i] \in Strings
      BY <2>2 DEF HistoryInv
    <3>. QED
      BY <2>2, <3>1 DEF HistoryInv, Strings
  <2>6. Len(entries) <= MaxHistory /\ position \in 0..Len(entries)
    BY <2>2 DEF HistoryInv
  <2>7. /\ pending \in Keys \cup {NoKey}
        /\ {oversized, tty, closed, over} \subseteq BOOLEAN
    BY <2>2 DEF FlagInv
  <2>. QED
    BY <2>3, <2>4, <2>5, <2>6, <2>7 DEF TypeOK
<1>. QED
  BY <1>1, EditorInvariant, PTL

\* The editor of bytes is an editor of characters: a key moves, inserts or
\* erases one character, a part of one does nothing, browsing the history and
\* coming back finds the line that was left, and what is remembered is what
\* was given, without secrets and repetitions (line_editor.rs).
THEOREM ImplementsLine == Spec => LineSpec
<1>1. Init => LineOfChars!Init
  BY EditorBegins
<1>2. EditorInv /\ [Next]_vars => [LineOfChars!Next]_(LineOfChars!vars)
  BY EditorSteps DEF LineStep
<1>. QED
  BY <1>1, <1>2, EditorInvariant, PTL DEF Spec, LineSpec, LineOfChars!Spec
=============================================================================
