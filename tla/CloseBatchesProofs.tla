------------------------- MODULE CloseBatchesProofs -------------------------
(***************************************************************************)
(* The proofs that close-ata signs what it shows, one batch at a time,     *)
(* counts what it closed, and burns no token without consent.              *)
(***************************************************************************)
EXTENDS CloseBatches, DataTheorems

Instructions ==
    [do : {"burn", "close"}, account : Accounts, amount : 0..MaxAmount]

\* What one candidate and one instruction burn.
BurnOf(c, a) == IF c.account = a /\ RequiresBurn(c) THEN c.amount ELSE 0
BurnBy(k, a) == IF k.do = "burn" /\ k.account = a THEN k.amount ELSE 0

\* What a candidate is made of.
LEMMA CandidateFields ==
    ASSUME NEW c \in Candidates
    PROVE  c.account \in Accounts /\ c.amount \in 0..MaxAmount /\ c.amount \in Nat
  BY CloseAssumption DEF Candidates

\* What an instruction is made of.
LEMMA InstructionFields ==
    ASSUME NEW k \in Instructions
    PROVE  k.account \in Accounts /\ k.amount \in 0..MaxAmount /\ k.amount \in Nat
  BY CloseAssumption DEF Instructions

-----------------------------------------------------------------------------
(* The tokens of a list of candidates, and those its instructions burn.    *)

\* Tokens adds up what each candidate burns.
LEMMA TokensTotal ==
    ASSUME NEW cs \in Seq(Candidates), NEW a
    PROVE  \E r : /\ IsTotal([i \in 1..Len(cs) |-> BurnOf(cs[i], a)], Len(cs), r)
                  /\ Tokens(cs, a) = r[Len(cs)]
<1>. DEFINE len == Len(cs)
            Adds(c) == c.account = a /\ RequiresBurn(c)
            add == [i \in 1..len |-> Adds(cs[i])]
            w == [i \in 1..len |-> cs[i].amount]
            Law(g) == g = [s \in SUBSET (1..len) |->
                             IF s = {} THEN 0
                             ELSE IF Adds(cs[Max(s)])
                                  THEN g[s \ {Max(s)}] + cs[Max(s)].amount
                                  ELSE g[s \ {Max(s)}]]
            chosen == CHOOSE g : Law(g)
            burns == [i \in 1..len |-> BurnOf(cs[i], a)]
<1>1. len \in Nat /\ DOMAIN cs = 1..len /\ \A i \in 1..len : cs[i] \in Candidates
  OBVIOUS
<1>2. Tokens(cs, a) = chosen[1..len]
  BY <1>1 DEF Tokens, FoldLeft, MapThenFoldSet
<1>3. w \in [1..len -> Nat]
  BY <1>1, CandidateFields
<1>4. ASSUME NEW g PROVE Law(g) <=> NumberFold(len, add, w, g)
  <2>1. ASSUME NEW s \in SUBSET (1..len), s # {}
        PROVE  /\ add[Max(s)] <=> Adds(cs[Max(s)])
               /\ w[Max(s)] = cs[Max(s)].amount
    <3>1. s \in SUBSET (0..len)
      BY <1>1
    <3>2. Max(s) \in s
      BY <1>1, <2>1, <3>1, Greatest
    <3>3. Max(s) \in 1..len
      BY <3>2
    <3>. HIDE DEF Adds
    <3>4. add[Max(s)] <=> Adds(cs[Max(s)])
      BY <3>3, Zenon
    <3>5. w[Max(s)] = cs[Max(s)].amount
      BY <3>3
    <3>. QED
      BY <3>4, <3>5, Zenon
  <2>. HIDE DEF Adds, add, w
  <2>2. \A s \in SUBSET (1..len) :
           (IF s = {} THEN 0
            ELSE IF Adds(cs[Max(s)])
                 THEN g[s \ {Max(s)}] + cs[Max(s)].amount
                 ELSE g[s \ {Max(s)}])
           = (IF s = {} THEN 0
              ELSE IF add[Max(s)] THEN g[s \ {Max(s)}] + w[Max(s)]
                   ELSE g[s \ {Max(s)}])
    BY <2>1
  <2>. QED
    BY <2>2 DEF NumberFold
<1>. HIDE DEF add, w, Law
<1>5. \E g : NumberFold(len, add, w, g)
  BY <1>1, <1>3, NumberFoldExists
<1>6. Law(chosen)
  BY <1>4, <1>5
<1>. HIDE DEF chosen
<1>7. NumberFold(len, add, w, chosen)
  BY <1>4, <1>6
<1>8. Terms(len, add, w, burns)
  BY DEF Terms, add, w, BurnOf
<1>. HIDE DEF burns
<1>9. PICK r : IsTotal(burns, len, r) /\ chosen[1..len] = r[len]
  BY <1>1, <1>3, <1>7, <1>8, NumberFoldTotal
<1>10. IsTotal(burns, len, r) /\ Tokens(cs, a) = r[len]
  BY <1>2, <1>9
<1>. QED
  BY <1>10 DEF burns

\* Burns adds up what each instruction burns.
LEMMA BurnsTotal ==
    ASSUME NEW ins \in Seq(Instructions), NEW a
    PROVE  \E r : /\ IsTotal([i \in 1..Len(ins) |-> BurnBy(ins[i], a)],
                             Len(ins), r)
                  /\ Burns(ins, a) = r[Len(ins)]
<1>. DEFINE len == Len(ins)
            Adds(k) == k.do = "burn" /\ k.account = a
            add == [i \in 1..len |-> Adds(ins[i])]
            w == [i \in 1..len |-> ins[i].amount]
            Law(g) == g = [s \in SUBSET (1..len) |->
                             IF s = {} THEN 0
                             ELSE IF Adds(ins[Max(s)])
                                  THEN g[s \ {Max(s)}] + ins[Max(s)].amount
                                  ELSE g[s \ {Max(s)}]]
            chosen == CHOOSE g : Law(g)
            burns == [i \in 1..len |-> BurnBy(ins[i], a)]
<1>1. /\ len \in Nat /\ DOMAIN ins = 1..len
      /\ \A i \in 1..len : ins[i] \in Instructions
  OBVIOUS
<1>2. Burns(ins, a) = chosen[1..len]
  BY <1>1 DEF Burns, FoldLeft, MapThenFoldSet
<1>3. w \in [1..len -> Nat]
  BY <1>1, InstructionFields
<1>4. ASSUME NEW g PROVE Law(g) <=> NumberFold(len, add, w, g)
  <2>1. ASSUME NEW s \in SUBSET (1..len), s # {}
        PROVE  /\ add[Max(s)] <=> Adds(ins[Max(s)])
               /\ w[Max(s)] = ins[Max(s)].amount
    <3>1. s \in SUBSET (0..len)
      BY <1>1
    <3>2. Max(s) \in s
      BY <1>1, <2>1, <3>1, Greatest
    <3>3. Max(s) \in 1..len
      BY <3>2
    <3>. HIDE DEF Adds
    <3>4. add[Max(s)] <=> Adds(ins[Max(s)])
      BY <3>3, Zenon
    <3>5. w[Max(s)] = ins[Max(s)].amount
      BY <3>3
    <3>. QED
      BY <3>4, <3>5, Zenon
  <2>. HIDE DEF Adds, add, w
  <2>2. \A s \in SUBSET (1..len) :
           (IF s = {} THEN 0
            ELSE IF Adds(ins[Max(s)])
                 THEN g[s \ {Max(s)}] + ins[Max(s)].amount
                 ELSE g[s \ {Max(s)}])
           = (IF s = {} THEN 0
              ELSE IF add[Max(s)] THEN g[s \ {Max(s)}] + w[Max(s)]
                   ELSE g[s \ {Max(s)}])
    BY <2>1
  <2>. QED
    BY <2>2 DEF NumberFold
<1>. HIDE DEF add, w, Law
<1>5. \E g : NumberFold(len, add, w, g)
  BY <1>1, <1>3, NumberFoldExists
<1>6. Law(chosen)
  BY <1>4, <1>5
<1>. HIDE DEF chosen
<1>7. NumberFold(len, add, w, chosen)
  BY <1>4, <1>6
<1>8. Terms(len, add, w, burns)
  BY DEF Terms, add, w, BurnBy
<1>. HIDE DEF burns
<1>9. PICK r : IsTotal(burns, len, r) /\ chosen[1..len] = r[len]
  BY <1>1, <1>3, <1>7, <1>8, NumberFoldTotal
<1>10. IsTotal(burns, len, r) /\ Burns(ins, a) = r[len]
  BY <1>2, <1>9
<1>. QED
  BY <1>10 DEF burns

\* One more candidate burns what it asks for on top of the others.
LEMMA TokensLonger ==
    ASSUME NEW cs \in Seq(Candidates), NEW c \in Candidates, NEW a
    PROVE  /\ Tokens(cs, a) \in Nat
           /\ Tokens(Append(cs, c), a) = Tokens(cs, a) + BurnOf(c, a)
<1>. DEFINE len == Len(cs)
            ds == Append(cs, c)
            w == [i \in 1..len |-> BurnOf(cs[i], a)]
            v == [i \in 1..(len + 1) |-> BurnOf(ds[i], a)]
<1>1. /\ len \in Nat /\ ds \in Seq(Candidates) /\ Len(ds) = len + 1
      /\ ds[len + 1] = c /\ \A i \in 1..len : ds[i] = cs[i] /\ i \in 1..(len + 1)
      /\ len + 1 \in 1..(len + 1)
  OBVIOUS
<1>. HIDE DEF ds
<1>2. BurnOf(c, a) \in Nat
  BY CandidateFields DEF BurnOf
<1>3. PICK r : IsTotal(w, len, r) /\ Tokens(cs, a) = r[len]
  BY TokensTotal
<1>4. PICK q : IsTotal(v, len + 1, q) /\ Tokens(ds, a) = q[len + 1]
  BY <1>1, TokensTotal
<1>5. v[len + 1] = BurnOf(c, a) /\ \A i \in 1..len : v[i] = w[i]
  BY <1>1
<1>. HIDE DEF len, w, v
<1>6. PICK p : IsTotal(v, len + 1, p) /\ p[len + 1] = r[len] + v[len + 1]
  BY <1>1, <1>2, <1>3, <1>5, TotalLonger
<1>7. len + 1 \in Nat /\ \A i \in 1..(len + 1) : v[i] = v[i]
  BY <1>1
<1>8. p[len + 1] = q[len + 1]
  BY <1>4, <1>6, <1>7, TotalUnique
<1>9. r[len] \in Nat
  <2>1. len \in 0..len /\ r \in [0..len -> Nat]
    BY <1>1, <1>3 DEF IsTotal
  <2>. QED
    BY <2>1
<1>. QED
  BY <1>3, <1>4, <1>5, <1>6, <1>8, <1>9 DEF ds

\* A list in which no candidate needs a burn burns nothing.
LEMMA NoTokens ==
    ASSUME NEW cs \in Seq(Candidates), NEW a,
           \A i \in 1..Len(cs) : ~RequiresBurn(cs[i])
    PROVE  Tokens(cs, a) = 0
<1>. DEFINE len == Len(cs)
            w == [i \in 1..len |-> BurnOf(cs[i], a)]
            zero == [i \in 0..len |-> 0]
<1>1. len \in Nat
  OBVIOUS
<1>2. PICK r : IsTotal(w, len, r) /\ Tokens(cs, a) = r[len]
  BY TokensTotal
<1>3. \A i \in 1..len : w[i] = 0 /\ w[i] = w[i]
  BY DEF BurnOf
<1>. HIDE DEF len, w
<1>4. IsTotal(w, len, zero)
  <2>1. \A i \in 1..len : i \in 0..len /\ i - 1 \in 0..len
    BY <1>1
  <2>2. zero \in [0..len -> Nat] /\ \A i \in 0..len : zero[i] = 0
    OBVIOUS
  <2>3. 0 \in 0..len
    BY <1>1
  <2>. HIDE DEF zero
  <2>. QED
    BY <1>3, <2>1, <2>2, <2>3 DEF IsTotal
<1>5. r[len] = zero[len]
  <2>. HIDE DEF zero
  <2>1. \A i \in 1..len : w[i] = w[i]
    OBVIOUS
  <2>. QED
    BY <1>1, <1>2, <1>4, <2>1, TotalUnique
<1>6. len \in 0..len
  BY <1>1
<1>. QED
  BY <1>2, <1>5, <1>6

\* One more instruction burns its amount on top of the others.
LEMMA BurnsLonger ==
    ASSUME NEW ins \in Seq(Instructions), NEW k \in Instructions, NEW a
    PROVE  /\ Burns(ins, a) \in Nat
           /\ Burns(Append(ins, k), a) = Burns(ins, a) + BurnBy(k, a)
<1>. DEFINE len == Len(ins)
            jns == Append(ins, k)
            w == [i \in 1..len |-> BurnBy(ins[i], a)]
            v == [i \in 1..(len + 1) |-> BurnBy(jns[i], a)]
<1>1. /\ len \in Nat /\ jns \in Seq(Instructions) /\ Len(jns) = len + 1
      /\ jns[len + 1] = k
      /\ \A i \in 1..len : jns[i] = ins[i] /\ i \in 1..(len + 1)
      /\ len + 1 \in 1..(len + 1)
  OBVIOUS
<1>. HIDE DEF jns
<1>2. BurnBy(k, a) \in Nat
  BY InstructionFields DEF BurnBy
<1>3. PICK r : IsTotal(w, len, r) /\ Burns(ins, a) = r[len]
  BY BurnsTotal
<1>4. PICK q : IsTotal(v, len + 1, q) /\ Burns(jns, a) = q[len + 1]
  BY <1>1, BurnsTotal
<1>5. v[len + 1] = BurnBy(k, a) /\ \A i \in 1..len : v[i] = w[i]
  BY <1>1
<1>. HIDE DEF len, w, v
<1>6. PICK p : IsTotal(v, len + 1, p) /\ p[len + 1] = r[len] + v[len + 1]
  BY <1>1, <1>2, <1>3, <1>5, TotalLonger
<1>7. len + 1 \in Nat /\ \A i \in 1..(len + 1) : v[i] = v[i]
  BY <1>1
<1>8. p[len + 1] = q[len + 1]
  BY <1>4, <1>6, <1>7, TotalUnique
<1>9. r[len] \in Nat
  <2>1. len \in 0..len /\ r \in [0..len -> Nat]
    BY <1>1, <1>3 DEF IsTotal
  <2>. QED
    BY <2>1
<1>. QED
  BY <1>3, <1>4, <1>5, <1>6, <1>8, <1>9 DEF jns

\* Empty lists burn nothing.
LEMMA NothingBurned ==
    ASSUME NEW a
    PROVE  Tokens(<<>>, a) = 0 /\ Burns(<<>>, a) = 0
<1>1. <<>> \in Seq(Candidates) /\ <<>> \in Seq(Instructions) /\ Len(<<>>) = 0
  OBVIOUS
<1>2. PICK r : /\ IsTotal([i \in 1..0 |-> BurnOf(<<>>[i], a)], 0, r)
               /\ Tokens(<<>>, a) = r[0]
  BY <1>1, TokensTotal
<1>3. PICK q : /\ IsTotal([i \in 1..0 |-> BurnBy(<<>>[i], a)], 0, q)
               /\ Burns(<<>>, a) = q[0]
  BY <1>1, BurnsTotal
<1>. QED
  BY <1>2, <1>3 DEF IsTotal

\* The instructions of a candidate burn what it lists.
LEMMA BurnsOfCandidate ==
    ASSUME NEW ins \in Seq(Instructions), NEW c \in Candidates, NEW a
    PROVE  /\ InstructionsOf(c) \in Seq(Instructions)
           /\ ins \o InstructionsOf(c) \in Seq(Instructions)
           /\ Burns(ins \o InstructionsOf(c), a) = Burns(ins, a) + BurnOf(c, a)
<1>. DEFINE close == [do |-> "close", account |-> c.account, amount |-> 0]
            burn == [do |-> "burn", account |-> c.account, amount |-> c.amount]
<1>1. c.account \in Accounts /\ c.amount \in 0..MaxAmount /\ c.amount \in Nat
  BY CandidateFields
<1>2. close \in Instructions /\ burn \in Instructions
  BY <1>1, CloseAssumption DEF Instructions
<1>3. /\ close.do = "close" /\ burn.do = "burn" /\ burn.account = c.account
      /\ burn.amount = c.amount
  OBVIOUS
<1>4. InstructionsOf(c) = IF RequiresBurn(c) THEN <<burn, close>> ELSE <<close>>
  BY DEF InstructionsOf
<1>. HIDE DEF close, burn
<1>5. BurnBy(close, a) = 0
  BY <1>3 DEF BurnBy
<1>6. CASE RequiresBurn(c)
  <2>1. InstructionsOf(c) = <<burn, close>>
    BY <1>4, <1>6
  <2>2. /\ <<burn, close>> \in Seq(Instructions)
        /\ Append(ins, burn) \in Seq(Instructions)
        /\ ins \o <<burn, close>> = Append(Append(ins, burn), close)
        /\ ins \o <<burn, close>> \in Seq(Instructions)
    BY <1>2
  <2>3. BurnBy(burn, a) = BurnOf(c, a)
    BY <1>3, <1>6 DEF BurnBy, BurnOf
  <2>4. BurnOf(c, a) \in Nat /\ Burns(ins, a) \in Nat
    BY <1>1, <1>2, BurnsLonger DEF BurnOf
  <2>5. Burns(Append(ins, burn), a) = Burns(ins, a) + BurnOf(c, a)
    BY <1>2, <2>3, BurnsLonger
  <2>6. Burns(Append(Append(ins, burn), close), a)
           = Burns(Append(ins, burn), a) + 0
    BY <1>2, <1>5, <2>2, BurnsLonger
  <2>7. Burns(Append(Append(ins, burn), close), a)
           = Burns(ins, a) + BurnOf(c, a)
    BY <2>4, <2>5, <2>6
  <2>8. ins \o InstructionsOf(c) = Append(Append(ins, burn), close)
    BY <2>1, <2>2
  <2>. QED
    BY <2>1, <2>2, <2>7, <2>8, Zenon
<1>7. CASE ~RequiresBurn(c)
  <2>1. InstructionsOf(c) = <<close>>
    BY <1>4, <1>7
  <2>2. /\ <<close>> \in Seq(Instructions)
        /\ ins \o <<close>> = Append(ins, close)
        /\ ins \o <<close>> \in Seq(Instructions)
    BY <1>2
  <2>3. BurnOf(c, a) = 0
    BY <1>7 DEF BurnOf
  <2>4. Burns(Append(ins, close), a) = Burns(ins, a) + 0
    BY <1>2, <1>5, BurnsLonger
  <2>. QED
    BY <2>1, <2>2, <2>3, <2>4
<1>. QED
  BY <1>6, <1>7

-----------------------------------------------------------------------------
(* Lists of candidates.                                                    *)

\* The accounts of a list, and that none of them is listed twice.
Accs(cs) == {cs[i].account : i \in 1..Len(cs)}
Distinct(cs) ==
    \A i, j \in 1..Len(cs) : cs[i].account = cs[j].account => i = j

\* The accounts that CountIsTrue and OneBatchAtATime speak of.
LEMMA ListedAccounts ==
    ASSUME NEW cs \in Seq(Candidates)
    PROVE  /\ Accs(cs) = {c.account : c \in ToSet(cs)}
           /\ \A c \in ToSet(cs) : c.account \in Accs(cs)
<1>1. ToSet(cs) = {cs[i] : i \in 1..Len(cs)}
  BY DEF ToSet
<1>. QED
  BY <1>1 DEF Accs

\* A list without duplicates is as long as its accounts are many: what
\* CountIsTrue counts by is the length the code adds.
LEMMA CountListed ==
    ASSUME NEW cs \in Seq(Candidates), Distinct(cs)
    PROVE  /\ IsFiniteSet(Accs(cs)) /\ Cardinality(Accs(cs)) = Len(cs)
           /\ Len(cs) \in Nat
<1>. DEFINE f == [i \in 1..Len(cs) |-> cs[i].account]
<1>1. /\ Len(cs) \in Nat
      /\ \A i, j \in 1..Len(cs) : f[i] = f[j] => i = j
  BY DEF Distinct
<1>2. Accs(cs) = {f[i] : i \in 1..Len(cs)}
  BY DEF Accs
<1>. HIDE DEF f
<1>. QED
  BY <1>1, <1>2, CountNumbered

\* A candidate is put at the end of a batch.
LEMMA ListLonger ==
    ASSUME NEW cs \in Seq(Candidates), NEW c \in Candidates
    PROVE  /\ Append(cs, c) \in Seq(Candidates)
           /\ Accs(Append(cs, c)) = Accs(cs) \cup {c.account}
           /\ Distinct(cs) /\ c.account \notin Accs(cs) => Distinct(Append(cs, c))
<1>. DEFINE ds == Append(cs, c)
            len == Len(cs)
<1>1. /\ len \in Nat /\ ds \in Seq(Candidates) /\ Len(ds) = len + 1
      /\ ds[len + 1] = c /\ \A i \in 1..len : ds[i] = cs[i]
  OBVIOUS
<1>. HIDE DEF ds
<1>2. \A i \in 1..(len + 1) : i \in 1..len \/ i = len + 1
  BY <1>1
<1>3. len + 1 \in 1..(len + 1) /\ \A i \in 1..len : i \in 1..(len + 1)
  BY <1>1
<1>4. Accs(ds) = {ds[i].account : i \in 1..(len + 1)}
  BY <1>1 DEF Accs
<1>5. Accs(cs) = {cs[i].account : i \in 1..len}
  BY DEF Accs
<1>. HIDE DEF len
<1>6. Accs(ds) = Accs(cs) \cup {c.account}
  BY <1>1, <1>2, <1>3, <1>4, <1>5
<1>7. ASSUME Distinct(cs), c.account \notin Accs(cs) PROVE Distinct(ds)
  <2>1. ASSUME NEW i \in 1..(len + 1), NEW j \in 1..(len + 1),
               ds[i].account = ds[j].account
        PROVE  i = j
    <3>1. CASE i \in 1..len /\ j \in 1..len
      BY <1>1, <1>7, <2>1, <3>1 DEF Distinct, len
    <3>2. CASE i \in 1..len /\ j = len + 1
      BY <1>1, <1>5, <1>7, <2>1, <3>2
    <3>3. CASE i = len + 1 /\ j \in 1..len
      BY <1>1, <1>5, <1>7, <2>1, <3>3
    <3>. QED
      BY <1>2, <3>1, <3>2, <3>3
  <2>. QED
    BY <1>1, <2>1 DEF Distinct
<1>. QED
  BY <1>1, <1>6, <1>7 DEF ds

\* The loop takes the first candidate off the rest.
LEMMA ListShorter ==
    ASSUME NEW cs \in Seq(Candidates), cs # <<>>
    PROVE  /\ Head(cs) \in Candidates /\ Tail(cs) \in Seq(Candidates)
           /\ Len(Tail(cs)) = Len(cs) - 1
           /\ Accs(cs) = {Head(cs).account} \cup Accs(Tail(cs))
           /\ Distinct(cs) => /\ Distinct(Tail(cs))
                              /\ Head(cs).account \notin Accs(Tail(cs))
<1>. DEFINE ds == Tail(cs)
            c == Head(cs)
            len == Len(cs)
<1>1. /\ len \in Nat /\ len # 0 /\ ds \in Seq(Candidates) /\ Len(ds) = len - 1
      /\ c \in Candidates /\ cs[1] = c /\ \A i \in 1..(len - 1) : ds[i] = cs[i + 1]
  OBVIOUS
<1>. HIDE DEF ds, c
<1>2. /\ 1 \in 1..len /\ \A i \in 1..(len - 1) : i + 1 \in 1..len /\ i + 1 # 1
      /\ \A i, j \in 1..(len - 1) : i + 1 = j + 1 => i = j
      /\ \A i \in 1..len : i = 1 \/ (i - 1 \in 1..(len - 1) /\ (i - 1) + 1 = i)
  BY <1>1
<1>3. Accs(ds) = {ds[i].account : i \in 1..(len - 1)}
  BY <1>1 DEF Accs
<1>4. Accs(cs) = {cs[i].account : i \in 1..len}
  BY DEF Accs
<1>5. Distinct(cs) => \A i, j \in 1..len : cs[i].account = cs[j].account => i = j
  BY DEF Distinct
<1>. HIDE DEF len
<1>6. Accs(cs) = {c.account} \cup Accs(ds)
  <2>1. ASSUME NEW i \in 1..len PROVE cs[i].account \in {c.account} \cup Accs(ds)
    <3>1. CASE i = 1
      BY <1>1, <3>1
    <3>2. CASE i - 1 \in 1..(len - 1) /\ (i - 1) + 1 = i
      <4>1. ds[i - 1] = cs[i]
        BY <1>1, <3>2
      <4>2. ds[i - 1].account \in Accs(ds)
        BY <1>3, <3>2
      <4>. QED
        BY <4>1, <4>2
    <3>. QED
      BY <1>2, <3>1, <3>2
  <2>2. ASSUME NEW i \in 1..(len - 1) PROVE ds[i].account \in Accs(cs)
    <3>1. i + 1 \in 1..len
      BY <1>2
    <3>2. ds[i] = cs[i + 1]
      BY <1>1
    <3>. QED
      BY <1>4, <3>1, <3>2
  <2>3. c.account \in Accs(cs)
    BY <1>1, <1>2, <1>4
  <2>. QED
    BY <1>3, <1>4, <2>1, <2>2, <2>3
<1>7. ASSUME Distinct(cs) PROVE Distinct(ds) /\ c.account \notin Accs(ds)
  <2>1. ASSUME NEW i \in 1..(len - 1), NEW j \in 1..(len - 1),
               ds[i].account = ds[j].account
        PROVE  i = j
    <3>1. cs[i + 1].account = cs[j + 1].account
      BY <1>1, <2>1
    <3>2. i + 1 \in 1..len /\ j + 1 \in 1..len
      BY <1>2
    <3>3. i + 1 = j + 1
      BY <1>5, <1>7, <3>1, <3>2
    <3>. QED
      BY <1>2, <3>3
  <2>2. ASSUME NEW i \in 1..(len - 1) PROVE ds[i].account # c.account
    BY <1>1, <1>2, <1>5, <1>7
  <2>. QED
    BY <1>1, <1>3, <2>1, <2>2 DEF Distinct
<1>. QED
  BY <1>1, <1>6, <1>7 DEF ds, c, len

\* eligible_atas makes a list of associated accounts, each of them once.
LEMMA EligibleAreDistinct ==
    ASSUME NEW cs \in Seq(Candidates), NEW burn
    PROVE  /\ EligibleOnce(cs, burn) \in Seq(Candidates)
           /\ Distinct(EligibleOnce(cs, burn))
           /\ Accs(EligibleOnce(cs, burn)) \subseteq Associated
<1>. DEFINE len == Len(cs)
            V == {ks \in Seq(Candidates) :
                    Distinct(ks) /\ Accs(ks) \subseteq Associated}
            Joins(ks, c) == /\ Eligible(c, burn)
                            /\ \A i \in DOMAIN ks : ks[i].account # c.account
            step == [k \in 1..len |->
                       [ks \in V |-> IF Joins(ks, cs[k]) THEN Append(ks, cs[k])
                                     ELSE ks]]
            Law(g) == g = [s \in SUBSET (1..len) |->
                             IF s = {} THEN <<>>
                             ELSE IF Joins(g[s \ {Max(s)}], cs[Max(s)])
                                  THEN Append(g[s \ {Max(s)}], cs[Max(s)])
                                  ELSE g[s \ {Max(s)}]]
            chosen == CHOOSE g : Law(g)
<1>1. len \in Nat /\ DOMAIN cs = 1..len /\ \A i \in 1..len : cs[i] \in Candidates
  OBVIOUS
<1>2. EligibleOnce(cs, burn) = chosen[1..len]
  BY <1>1 DEF EligibleOnce, FoldLeft, MapThenFoldSet
<1>3. <<>> \in V
  <2>1. <<>> \in Seq(Candidates) /\ Distinct(<<>>) /\ Accs(<<>>) = {}
    BY DEF Distinct, Accs
  <2>. QED
    BY <2>1
<1>4. ASSUME NEW ks \in V, NEW c \in Candidates, Joins(ks, c)
      PROVE  Append(ks, c) \in V
  <2>1. /\ ks \in Seq(Candidates) /\ Distinct(ks) /\ Accs(ks) \subseteq Associated
        /\ DOMAIN ks = 1..Len(ks)
    OBVIOUS
  <2>2. c.account \notin Accs(ks) /\ c.account \in Associated
    BY <1>4, <2>1 DEF Accs, Eligible
  <2>3. /\ Append(ks, c) \in Seq(Candidates) /\ Distinct(Append(ks, c))
        /\ Accs(Append(ks, c)) = Accs(ks) \cup {c.account}
    BY <2>1, <2>2, ListLonger
  <2>. QED
    BY <2>1, <2>2, <2>3
<1>. HIDE DEF V, Joins
<1>5. step \in [1..len -> [V -> V]]
  BY <1>1, <1>4
<1>6. \A k \in 1..len : \A ks \in V :
         step[k][ks] = IF Joins(ks, cs[k]) THEN Append(ks, cs[k]) ELSE ks
  OBVIOUS
<1>. HIDE DEF step, len
<1>7. PICK f \in [SUBSET (1..len) -> V] : IsFold(len, <<>>, step, f)
  BY <1>1, <1>3, <1>5, FoldExists
<1>8. ASSUME NEW s \in SUBSET (1..len), s # {}
      PROVE  step[Max(s)][f[s \ {Max(s)}]]
                = IF Joins(f[s \ {Max(s)}], cs[Max(s)])
                  THEN Append(f[s \ {Max(s)}], cs[Max(s)])
                  ELSE f[s \ {Max(s)}]
  <2>1. s \in SUBSET (0..len)
    BY <1>1
  <2>2. Max(s) \in s
    BY <1>1, <1>8, <2>1, Greatest
  <2>3. Max(s) \in 1..len /\ f[s \ {Max(s)}] \in V
    BY <2>2
  <2>. QED
    BY <1>6, <2>3
<1>9. Law(f)
  BY <1>7, <1>8 DEF IsFold
<1>10. Law(chosen)
  <2>. HIDE DEF Law
  <2>. QED
    BY <1>9
<1>. HIDE DEF chosen
<1>11. \A s \in SUBSET (1..len) :
          chosen[s] = IF s = {} THEN <<>>
                      ELSE IF Joins(chosen[s \ {Max(s)}], cs[Max(s)])
                           THEN Append(chosen[s \ {Max(s)}], cs[Max(s)])
                           ELSE chosen[s \ {Max(s)}]
  BY <1>10
<1>. DEFINE N == {k \in Nat : k <= len => chosen[1..k] \in V}
<1>12. 0 \in N
  <2>1. 1..0 = {}
    OBVIOUS
  <2>. QED
    BY <1>3, <1>11, <2>1
<1>13. ASSUME NEW k \in Nat, k \in N PROVE k + 1 \in N
  <2>1. SUFFICES ASSUME k + 1 <= len PROVE chosen[1..(k + 1)] \in V
    OBVIOUS
  <2>. DEFINE s == 1..(k + 1)
  <2>2. /\ k + 1 \in Nat /\ k + 1 # 0 /\ (k + 1) - 1 = k /\ k + 1 \in 1..len
        /\ s \in SUBSET (1..len) /\ chosen[1..k] \in V
    BY <1>1, <1>13, <2>1
  <2>3. s # {} /\ Max(s) = k + 1 /\ s \ {k + 1} = 1..((k + 1) - 1)
    BY <2>2, FirstPositions
  <2>. HIDE DEF s
  <2>4. chosen[s] = IF Joins(chosen[1..k], cs[k + 1])
                    THEN Append(chosen[1..k], cs[k + 1]) ELSE chosen[1..k]
    BY <1>11, <2>2, <2>3
  <2>5. cs[k + 1] \in Candidates
    BY <1>1, <2>2
  <2>6. chosen[s] \in V
    BY <1>4, <2>2, <2>4, <2>5
  <2>. QED
    BY <2>6 DEF s
<1>14. Nat \subseteq N
  <2>. HIDE DEF N
  <2>. QED
    BY <1>12, <1>13, NumberInduction
<1>15. chosen[1..len] \in V
  BY <1>1, <1>14
<1>. QED
  BY <1>2, <1>15 DEF V

\* What the node lists are accounts, with what is in them.
LEMMA ListedAreCandidates ==
    ASSUME tokens \in [Accounts -> {Closed} \cup 0..MaxAmount],
           NEW listing \in Listings
    PROVE  [i \in DOMAIN listing |-> Candidate(listing[i])] \in Seq(Candidates)
<1>. DEFINE open == {a \in Accounts : tokens[a] # Closed}
            orders == UNION {SetToSeqs(some) : some \in SUBSET open}
<1>1. IsFiniteSet(open)
  <2>1. open \in SUBSET Accounts
    OBVIOUS
  <2>. QED
    BY <2>1, FS_Subset, CloseAssumption
<1>2. ASSUME NEW s \in orders PROVE s \in Seq(open)
  <2>1. PICK some \in SUBSET open : s \in SetToSeqs(some)
    OBVIOUS
  <2>. HIDE DEF open
  <2>2. Cardinality(some) \in Nat
    BY <1>1, FS_Subset, FS_CardinalityType
  <2>3. s \in [1..Cardinality(some) -> some]
    BY <2>1 DEF SetToSeqs
  <2>. QED
    BY <2>2, <2>3
<1>3. listing \in orders \/ \E s \in orders : Len(s) > 0 /\ listing = Append(s, Head(s))
  BY DEF Listings
<1>. HIDE DEF orders
<1>4. listing \in Seq(open)
  <2>1. CASE listing \in orders
    BY <1>2, <2>1
  <2>2. CASE \E s \in orders : Len(s) > 0 /\ listing = Append(s, Head(s))
    <3>1. PICK s \in orders : Len(s) > 0 /\ listing = Append(s, Head(s))
      BY <2>2
    <3>2. s \in Seq(open)
      BY <1>2
    <3>. HIDE DEF open
    <3>3. Head(s) \in open
      BY <3>1, <3>2
    <3>. QED
      BY <3>1, <3>2, <3>3
  <2>. QED
    BY <1>3, <2>1, <2>2
<1>5. ASSUME NEW a \in open PROVE Candidate(a) \in Candidates
  <2>1. a \in Accounts /\ tokens[a] \in 0..MaxAmount
    OBVIOUS
  <2>. QED
    BY <2>1 DEF Candidate, Candidates
<1>. HIDE DEF open
<1>6. Len(listing) \in Nat /\ DOMAIN listing = 1..Len(listing)
  BY <1>4
<1>7. \A i \in 1..Len(listing) : Candidate(listing[i]) \in Candidates
  BY <1>4, <1>5
<1>. QED
  BY <1>6, <1>7

-----------------------------------------------------------------------------
(* The instructions of a list of candidates.                               *)

Shown(cs) == FlattenSeq([j \in DOMAIN cs |-> InstructionsOf(cs[j])])

\* A candidate more is shown as its instructions more at the end.
LEMMA ShownLonger ==
    ASSUME NEW cs \in Seq(Candidates), NEW c \in Candidates
    PROVE  Shown(Append(cs, c)) = Shown(cs) \o InstructionsOf(c)
<1>. DEFINE len == Len(cs)
            ds == Append(cs, c)
            ss == [j \in 1..len |-> InstructionsOf(cs[j])]
            zz == [j \in 1..(len + 1) |-> InstructionsOf(ds[j])]
<1>1. /\ len \in Nat /\ DOMAIN cs = 1..len /\ DOMAIN ds = 1..(len + 1)
      /\ ds[len + 1] = c /\ \A j \in 1..len : ds[j] = cs[j] /\ cs[j] \in Candidates
  OBVIOUS
<1>2. \A d \in Candidates : InstructionsOf(d) \in Seq(Instructions)
  <2>1. <<>> \in Seq(Instructions)
    OBVIOUS
  <2>. QED
    BY <2>1, BurnsOfCandidate
<1>3. ss \in Seq(Seq(Instructions)) /\ Len(ss) = len
  BY <1>1, <1>2
<1>4. zz = Append(ss, InstructionsOf(c))
  <2>. DEFINE t == InstructionsOf(c)
  <2>. HIDE DEF ds
  <2>1. t \in Seq(Instructions)
    BY <1>2
  <2>2. \A j \in 1..len : zz[j] = ss[j]
    BY <1>1
  <2>3. len + 1 \in 1..(len + 1) /\ zz[len + 1] = t
    BY <1>1
  <2>4. DOMAIN zz = 1..(len + 1)
    OBVIOUS
  <2>. HIDE DEF t, zz, ss, len
  <2>5. /\ DOMAIN Append(ss, t) = 1..(len + 1) /\ Append(ss, t)[len + 1] = t
        /\ \A j \in 1..len : Append(ss, t)[j] = ss[j]
    BY <1>1, <1>3, <2>1
  <2>6. \A j \in 1..(len + 1) : j \in 1..len \/ j = len + 1
    BY <1>1
  <2>7. \A j \in 1..(len + 1) : zz[j] = Append(ss, t)[j]
    BY <2>2, <2>3, <2>5, <2>6
  <2>8. zz = [j \in 1..(len + 1) |-> zz[j]]
    BY <2>4 DEF zz
  <2>9. Append(ss, t) \in Seq(Seq(Instructions))
    BY <1>3, <2>1
  <2>10. zz = Append(ss, t)
    <3>. DEFINE joined == Append(ss, t)
    <3>0. Len(joined) = len + 1
      BY <1>1, <1>3, <2>1
    <3>. HIDE DEF joined
    <3>1. joined = [j \in 1..(len + 1) |-> joined[j]]
      <4>1. joined \in Seq(Seq(Instructions))
        BY <2>9 DEF joined
      <4>2. joined \in [1..(len + 1) -> Seq(Instructions)]
        BY <3>0, <4>1
      <4>. QED
        BY <4>2
    <3>2. \A j \in 1..(len + 1) : zz[j] = joined[j]
      BY <2>7 DEF joined
    <3>3. zz = joined
      BY <2>8, <3>1, <3>2
    <3>. QED
      BY <3>3 DEF joined
  <2>. QED
    BY <2>10 DEF t
<1>5. InstructionsOf(c) \in Seq(Instructions)
  BY <1>2
<1>6. FlattenSeq(zz) = FlattenSeq(ss) \o InstructionsOf(c)
  <2>. HIDE DEF zz, ss
  <2>. QED
    BY <1>3, <1>4, <1>5, FlattenLonger
<1>. QED
  BY <1>1, <1>6 DEF Shown

\* No candidates, no instructions.
LEMMA NothingShown == Shown(<<>>) = <<>>
<1>1. [j \in DOMAIN <<>> |-> InstructionsOf(<<>>[j])] = <<>>
  OBVIOUS
<1>2. Len(<<>>) = 0
  OBVIOUS
<1>. QED
  BY <1>1, <1>2 DEF Shown, FlattenSeq

-----------------------------------------------------------------------------
(* The invariant.                                                          *)

SentRecords ==
    [command : 1..MaxCommands, batch : Seq(Candidates),
     instructions : Seq(Instructions), status : Statuses]

\* The transactions of the command, and those whose outcome it knows; the
\* accounts in the latter.
Own == {i \in 1..Len(sent) : sent[i].command = n}
Past == {i \in Own : stage = "sending" => i # Len(sent)}
Counted == UNION {Accs(sent[i].batch) : i \in Past}

\* What the variables hold.
TypeInv ==
    /\ stage \in {"idle", "packing", "sending"}
    /\ rest \in Seq(Candidates) /\ batch \in Seq(Candidates)
    /\ instructions \in Seq(Instructions) /\ confirmed \in Nat
    /\ Len(rest) + Len(batch) + confirmed <= Cardinality(Associated)
    /\ n \in 0..MaxCommands /\ (stage # "idle" => n # 0)
    /\ sent \in Seq(SentRecords)
    /\ \A i \in 1..Len(sent) : sent[i].command <= n
    /\ tokens \in [Accounts -> {Closed} \cup 0..MaxAmount]
    /\ granted \in [Accounts -> Nat] /\ burned \in [Accounts -> Nat]

\* No account is in two places: what the command has left, what it packs,
\* and what it has closed and counted.
CommandInv ==
    /\ stage = "idle" => rest = <<>> /\ batch = <<>> /\ confirmed = 0
    /\ Distinct(rest) /\ Distinct(batch)
    /\ Accs(rest) \cap Accs(batch) = {}
    /\ stage # "idle" =>
          /\ \A i \in Past :
                /\ sent[i].status = "executed"
                /\ Accs(sent[i].batch) \cap (Accs(rest) \cup Accs(batch)) = {}
          /\ IsFiniteSet(Counted) /\ confirmed = Cardinality(Counted)
    /\ stage = "sending" =>
          Len(sent) \in Own /\ sent[Len(sent)].batch = batch

\* The instructions are those of the batch that is shown.
ShownInv ==
    /\ instructions = Shown(batch)
    /\ batch # <<>> => Fits(instructions)
    /\ \A a \in Accounts : Burns(instructions, a) = Tokens(batch, a)

\* What each transaction may still burn; with what has been burned, it is
\* not more than was granted.
Owed(a) ==
    [i \in 1..Len(sent) |->
       IF sent[i].status = "out" THEN Burns(sent[i].instructions, a) ELSE 0]
OwedInv ==
    \A a \in Accounts : \E r : /\ IsTotal(Owed(a), Len(sent), r)
                               /\ burned[a] + r[Len(sent)] <= granted[a]

CloseInv ==
    /\ TypeInv /\ CommandInv /\ ShownInv /\ OwedInv
    /\ ShownIsSent /\ OneBatchAtATime

\* The fields of a transaction.
LEMMA SentFields ==
    ASSUME TypeInv, NEW i \in 1..Len(sent)
    PROVE  /\ sent[i].command \in 1..MaxCommands /\ sent[i].command <= n
           /\ sent[i].batch \in Seq(Candidates)
           /\ sent[i].instructions \in Seq(Instructions)
           /\ sent[i].status \in Statuses
<1>1. sent[i] \in SentRecords
  BY DEF TypeInv
<1>. QED
  BY <1>1 DEF SentRecords, TypeInv

\* No transaction burns a negative amount.
LEMMA BurnsNatural ==
    ASSUME NEW ins \in Seq(Instructions), NEW a
    PROVE  Burns(ins, a) \in Nat
<1>1. PICK r : /\ IsTotal([i \in 1..Len(ins) |-> BurnBy(ins[i], a)],
                          Len(ins), r)
               /\ Burns(ins, a) = r[Len(ins)]
  BY BurnsTotal
<1>2. Len(ins) \in 0..Len(ins) /\ r \in [0..Len(ins) -> Nat]
  BY <1>1 DEF IsTotal
<1>. QED
  BY <1>1, <1>2

\* What a list burns of an account is a number.
LEMMA TokensNatural ==
    ASSUME NEW cs \in Seq(Candidates), NEW a
    PROVE  Tokens(cs, a) \in Nat
<1>1. PICK r : /\ IsTotal([i \in 1..Len(cs) |-> BurnOf(cs[i], a)], Len(cs), r)
               /\ Tokens(cs, a) = r[Len(cs)]
  BY TokensTotal
<1>2. Len(cs) \in 0..Len(cs) /\ r \in [0..Len(cs) -> Nat]
  BY <1>1 DEF IsTotal
<1>. QED
  BY <1>1, <1>2

\* The empty list.
LEMMA NoAccounts == Accs(<<>>) = {} /\ Distinct(<<>>)
  BY DEF Accs, Distinct

\* The parts that speak of the transactions and the grants only.
LEMMA SentUntouched ==
    ASSUME CloseInv, UNCHANGED <<sent, granted, burned>>
    PROVE  /\ OwedInv' /\ ShownIsSent' /\ OneBatchAtATime'
<1>1. ShownIsSent'
  BY DEF CloseInv, ShownIsSent
<1>2. OneBatchAtATime'
  BY DEF CloseInv, OneBatchAtATime
<1>3. OwedInv'
  <2>1. \A a : Owed(a)' = Owed(a)
    BY DEF Owed
  <2>. QED
    BY <2>1 DEF CloseInv, OwedInv
<1>. QED
  BY <1>1, <1>2, <1>3

-----------------------------------------------------------------------------
(* The steps.                                                              *)

\* Before the first command nothing is listed, sent or granted.
LEMMA InitHolds == Init => CloseInv
<1>. SUFFICES ASSUME Init PROVE CloseInv
  OBVIOUS
<1>1. /\ stage = "idle" /\ rest = <<>> /\ batch = <<>> /\ instructions = <<>>
      /\ confirmed = 0 /\ n = 0 /\ sent = <<>>
      /\ tokens \in [Accounts -> 0..MaxAmount]
      /\ granted = [a \in Accounts |-> 0] /\ burned = [a \in Accounts |-> 0]
  BY DEF Init
<1>2. Accs(<<>>) = {} /\ Distinct(<<>>)
  BY NoAccounts
<1>3. IsFiniteSet(Associated) /\ Cardinality(Associated) \in Nat
  BY FS_Subset, FS_CardinalityType, CloseAssumption
<1>4. Own = {} /\ Past = {}
  BY <1>1 DEF Own, Past
<1>5. TypeInv
  <2>1. /\ MaxAmount \in Nat /\ MaxCommands \in Nat
    BY CloseAssumption
  <2>2. tokens \in [Accounts -> {Closed} \cup 0..MaxAmount]
    BY <1>1
  <2>. QED
    BY <1>1, <1>3, <2>1, <2>2 DEF TypeInv
<1>6. CommandInv
  BY <1>1, <1>2 DEF CommandInv
<1>7. ShownInv
  BY <1>1, NothingShown, NothingBurned DEF ShownInv
<1>8. OwedInv
  <2>1. ASSUME NEW a \in Accounts
        PROVE  \E r : /\ IsTotal(Owed(a), Len(sent), r)
                      /\ burned[a] + r[Len(sent)] <= granted[a]
    <3>. DEFINE r == [k \in 0..0 |-> 0]
    <3>1. r \in [0..0 -> Nat] /\ r[0] = 0 /\ 1..0 = {} /\ Len(sent) = 0
      BY <1>1
    <3>. HIDE DEF r
    <3>2. IsTotal(Owed(a), 0, r)
      BY <3>1 DEF IsTotal
    <3>3. burned[a] = 0 /\ granted[a] = 0
      BY <1>1
    <3>4. burned[a] + r[Len(sent)] <= granted[a]
      BY <3>1, <3>3
    <3>. QED
      BY <3>1, <3>2, <3>4
  <2>. QED
    BY <2>1 DEF OwedInv
<1>9. ShownIsSent /\ OneBatchAtATime
  BY <1>1 DEF ShownIsSent, OneBatchAtATime
<1>. QED
  BY <1>5, <1>6, <1>7, <1>8, <1>9 DEF CloseInv

\* close_ata lists candidates and asks for BURN.
LEMMA SelectHolds == CloseInv /\ Select => CloseInv'
<1>. SUFFICES ASSUME CloseInv, Select PROVE CloseInv'
  OBVIOUS
<1>1. /\ stage = "idle" /\ n < MaxCommands /\ n' = n + 1 /\ stage' = "packing"
      /\ batch' = <<>> /\ instructions' = <<>> /\ confirmed' = 0
      /\ UNCHANGED <<sent, tokens, granted, burned>>
  BY DEF Select
<1>2. TypeInv
  BY DEF CloseInv
<1>3. PICK burn \in BOOLEAN, listing \in Listings :
         rest' = EligibleOnce([i \in DOMAIN listing |-> Candidate(listing[i])], burn)
  BY DEF Select
<1>4. [i \in DOMAIN listing |-> Candidate(listing[i])] \in Seq(Candidates)
  BY <1>2, ListedAreCandidates DEF TypeInv
<1>5. /\ rest' \in Seq(Candidates) /\ Distinct(rest')
      /\ Accs(rest') \subseteq Associated
  BY <1>3, <1>4, EligibleAreDistinct
<1>6. Len(rest') <= Cardinality(Associated) /\ Len(rest') \in Nat
  <2>1. Cardinality(Accs(rest')) = Len(rest') /\ Len(rest') \in Nat
    BY <1>5, CountListed
  <2>2. IsFiniteSet(Associated)
    BY FS_Subset, CloseAssumption
  <2>3. Cardinality(Accs(rest')) <= Cardinality(Associated)
    BY <1>5, <2>2, FS_Subset
  <2>. QED
    BY <2>1, <2>3
<1>7. Accs(<<>>) = {} /\ Distinct(<<>>)
  BY NoAccounts
<1>8. TypeInv'
  <2>1. n' \in 0..MaxCommands /\ n' # 0 /\ n <= n'
    BY <1>1, <1>2, CloseAssumption DEF TypeInv
  <2>2. Len(rest') + Len(batch') + confirmed' <= Cardinality(Associated)
    BY <1>1, <1>6
  <2>3. \A i \in 1..Len(sent') : sent'[i].command <= n'
    <3>1. ASSUME NEW i \in 1..Len(sent) PROVE sent[i].command <= n + 1
      <4>1. sent[i].command \in 1..MaxCommands /\ sent[i].command <= n
        BY <1>2, SentFields
      <4>. QED
        BY <1>2, <4>1 DEF TypeInv
    <3>. QED
      BY <1>1, <3>1
  <2>. QED
    BY <1>1, <1>2, <1>5, <2>1, <2>2, <2>3 DEF TypeInv
<1>9. CommandInv'
  <2>1. Own' = {}
    <3>1. ASSUME NEW i \in 1..Len(sent) PROVE sent[i].command # n + 1
      <4>1. sent[i].command \in 1..MaxCommands /\ sent[i].command <= n
        BY <1>2, SentFields
      <4>. QED
        BY <1>2, <4>1 DEF TypeInv
    <3>. QED
      BY <1>1, <3>1 DEF Own
  <2>2. Past' = {} /\ Counted' = {}
    BY <2>1 DEF Past, Counted
  <2>3. IsFiniteSet({}) /\ Cardinality({}) = 0
    BY FS_EmptySet
  <2>. QED
    BY <1>1, <1>5, <1>7, <2>2, <2>3 DEF CommandInv
<1>10. ShownInv'
  BY <1>1, NothingShown, NothingBurned DEF ShownInv
<1>. QED
  BY <1>1, <1>8, <1>9, <1>10, SentUntouched DEF CloseInv

\* The loop of send_close_batches puts a candidate into the batch.
LEMMA PackHolds == CloseInv /\ Pack => CloseInv'
<1>. SUFFICES ASSUME CloseInv, Pack PROVE CloseInv'
  OBVIOUS
<1>. DEFINE c == Head(rest)
<1>1. /\ stage = "packing" /\ rest # <<>> /\ Fits(instructions \o InstructionsOf(c))
      /\ instructions' = instructions \o InstructionsOf(c)
      /\ batch' = Append(batch, c) /\ rest' = Tail(rest)
      /\ UNCHANGED <<stage, confirmed, n, sent, tokens, granted, burned>>
  BY DEF Pack
<1>2. TypeInv /\ CommandInv /\ ShownInv
  BY DEF CloseInv
<1>3. /\ rest \in Seq(Candidates) /\ batch \in Seq(Candidates)
      /\ instructions \in Seq(Instructions)
  BY <1>2 DEF TypeInv
<1>4. /\ c \in Candidates /\ rest' \in Seq(Candidates)
      /\ Len(rest') = Len(rest) - 1
      /\ Accs(rest) = {c.account} \cup Accs(rest')
      /\ Distinct(rest') /\ c.account \notin Accs(rest')
  <2>1. Distinct(rest)
    BY <1>2 DEF CommandInv
  <2>. QED
    BY <1>1, <1>3, <2>1, ListShorter
<1>. HIDE DEF c
<1>5. /\ batch' \in Seq(Candidates) /\ Len(batch') = Len(batch) + 1
      /\ Accs(batch') = Accs(batch) \cup {c.account} /\ Distinct(batch')
      /\ batch' # <<>>
  <2>1. c.account \notin Accs(batch) /\ Distinct(batch)
    BY <1>2, <1>4 DEF CommandInv
  <2>. QED
    BY <1>1, <1>3, <1>4, <2>1, ListLonger
<1>6. TypeInv'
  <2>1. instructions' \in Seq(Instructions)
    BY <1>1, <1>3, <1>4, BurnsOfCandidate
  <2>2. Len(rest') + Len(batch') + confirmed' = Len(rest) + Len(batch) + confirmed
    <3>1. Len(rest) \in Nat /\ Len(batch) \in Nat /\ confirmed \in Nat
      BY <1>2, <1>3 DEF TypeInv
    <3>. QED
      BY <1>1, <1>4, <1>5, <3>1
  <2>. QED
    BY <1>1, <1>2, <1>4, <1>5, <2>1, <2>2 DEF TypeInv
<1>7. CommandInv'
  <2>1. Past' = Past /\ Counted' = Counted
    BY <1>1 DEF Past, Own, Counted
  <2>2. Accs(rest') \cap Accs(batch') = {}
    BY <1>2, <1>4, <1>5 DEF CommandInv
  <2>3. Accs(rest') \cup Accs(batch') = Accs(rest) \cup Accs(batch)
    BY <1>4, <1>5
  <2>. QED
    BY <1>1, <1>2, <1>4, <1>5, <2>1, <2>2, <2>3 DEF CommandInv
<1>8. ShownInv'
  <2>1. instructions' = Shown(batch')
    BY <1>1, <1>2, <1>3, <1>4, ShownLonger DEF ShownInv
  <2>2. ASSUME NEW a \in Accounts PROVE Burns(instructions', a) = Tokens(batch', a)
    <3>1. Burns(instructions', a) = Burns(instructions, a) + BurnOf(c, a)
      BY <1>1, <1>3, <1>4, BurnsOfCandidate
    <3>2. Tokens(batch', a) = Tokens(batch, a) + BurnOf(c, a)
      BY <1>1, <1>3, <1>4, TokensLonger
    <3>. QED
      BY <1>2, <3>1, <3>2 DEF ShownInv
  <2>3. Fits(instructions')
    BY <1>1
  <2>. QED
    BY <2>1, <2>2, <2>3 DEF ShownInv
<1>. QED
  BY <1>1, <1>6, <1>7, <1>8, SentUntouched DEF CloseInv

\* send_close_batch submits the batch.
LEMMA SendHolds == CloseInv /\ Send => CloseInv'
<1>. SUFFICES ASSUME CloseInv, Send PROVE CloseInv'
  OBVIOUS
<1>. DEFINE new == [command |-> n, batch |-> batch,
                    instructions |-> instructions, status |-> "out"]
            len == Len(sent)
<1>1. /\ stage = "packing" /\ batch # <<>> /\ stage' = "sending"
      /\ sent' = Append(sent, new)
      /\ granted' = IF AsksForBurn(batch)
                    THEN [a \in Accounts |-> granted[a] + Tokens(batch, a)]
                    ELSE granted
      /\ UNCHANGED <<rest, batch, instructions, confirmed, n, tokens, burned>>
  BY DEF Send, BatchIsDue
<1>2. TypeInv /\ CommandInv /\ ShownInv /\ OwedInv /\ ShownIsSent /\ OneBatchAtATime
  BY DEF CloseInv
<1>3. /\ batch \in Seq(Candidates) /\ instructions \in Seq(Instructions)
      /\ n \in 1..MaxCommands /\ sent \in Seq(SentRecords)
      /\ len \in Nat /\ DOMAIN sent = 1..len
  BY <1>1, <1>2 DEF TypeInv
<1>4. new \in SentRecords
  BY <1>3 DEF SentRecords, Statuses
<1>5. /\ new.command = n /\ new.batch = batch /\ new.status = "out"
      /\ new.instructions = instructions
  OBVIOUS
<1>. HIDE DEF new
<1>6. /\ sent' \in Seq(SentRecords) /\ Len(sent') = len + 1
      /\ DOMAIN sent' = 1..(len + 1) /\ sent'[len + 1] = new
      /\ \A i \in 1..len : sent'[i] = sent[i] /\ i \in 1..(len + 1) /\ i # len + 1
      /\ len + 1 \in 1..(len + 1)
      /\ \A i \in 1..(len + 1) : i \in 1..len \/ i = len + 1
  BY <1>1, <1>3, <1>4
<1>7. ASSUME NEW a \in Accounts
      PROVE  /\ granted'[a] = granted[a] + Burns(instructions, a)
             /\ Burns(instructions, a) \in Nat /\ granted[a] \in Nat
  <2>1. Burns(instructions, a) = Tokens(batch, a) /\ Burns(instructions, a) \in Nat
    BY <1>2, <1>3, BurnsNatural DEF ShownInv
  <2>2. granted[a] \in Nat
    BY <1>2 DEF TypeInv
  <2>3. CASE AsksForBurn(batch)
    BY <1>1, <2>1, <2>2, <2>3
  <2>4. CASE ~AsksForBurn(batch)
    <3>1. \A i \in 1..Len(batch) : ~RequiresBurn(batch[i])
      BY <1>3, <2>4 DEF AsksForBurn
    <3>2. Tokens(batch, a) = 0
      BY <1>3, <3>1, NoTokens
    <3>3. granted' = granted
      BY <1>1, <2>4
    <3>. QED
      BY <2>1, <2>2, <3>2, <3>3
  <2>. QED
    BY <2>3, <2>4
<1>8. TypeInv'
  <2>1. granted' \in [Accounts -> Nat]
    <3>1. \A a \in Accounts : granted'[a] \in Nat
      BY <1>7
    <3>2. granted' = [a \in Accounts |-> granted'[a]]
      BY <1>1, <1>2 DEF TypeInv
    <3>. QED
      BY <3>1, <3>2
  <2>2. \A i \in 1..(len + 1) : sent'[i].command <= n
    <3>1. n <= n /\ \A i \in 1..len : sent[i].command <= n
      BY <1>2, <1>3 DEF TypeInv
    <3>. HIDE DEF len
    <3>. QED
      BY <1>5, <1>6, <3>1
  <2>3. /\ rest \in Seq(Candidates) /\ confirmed \in Nat
        /\ Len(rest) + Len(batch) + confirmed <= Cardinality(Associated)
        /\ tokens \in [Accounts -> {Closed} \cup 0..MaxAmount]
        /\ burned \in [Accounts -> Nat]
    BY <1>2 DEF TypeInv
  <2>4. n \in 0..MaxCommands /\ n # 0
    BY <1>3
  <2>. QED
    BY <1>1, <1>3, <1>6, <2>1, <2>2, <2>3, <2>4 DEF TypeInv
<1>9. Past' = Past /\ Counted' = Counted
  <2>1. Past = {i \in 1..len : sent[i].command = n}
    BY <1>1 DEF Past, Own
  <2>2. Past' = {i \in 1..(len + 1) : sent'[i].command = n /\ i # len + 1}
    BY <1>1, <1>6 DEF Past, Own
  <2>3. Past' = Past
    BY <1>6, <2>1, <2>2
  <2>4. \A i \in Past : sent'[i].batch = sent[i].batch
    BY <1>6, <2>1
  <2>. QED
    BY <2>3, <2>4 DEF Counted
<1>10. CommandInv'
  <2>1. \A i \in Past : sent'[i] = sent[i]
    BY <1>6 DEF Past, Own
  <2>2. Len(sent') \in Own' /\ sent'[Len(sent')].batch = batch'
    BY <1>1, <1>5, <1>6 DEF Own
  <2>. QED
    BY <1>1, <1>2, <1>9, <2>1, <2>2 DEF CommandInv
<1>11. ShownInv'
  BY <1>1, <1>2 DEF ShownInv
<1>12. OwedInv'
  <2>1. ASSUME NEW a \in Accounts
        PROVE  \E q : /\ IsTotal(Owed(a)', Len(sent'), q)
                      /\ burned'[a] + q[Len(sent')] <= granted'[a]
    <3>. DEFINE w == Owed(a)
                v == Owed(a)'
    <3>1. PICK r : IsTotal(w, len, r) /\ burned[a] + r[len] <= granted[a]
      BY <1>2 DEF OwedInv
    <3>2. v[len + 1] = Burns(instructions, a)
      BY <1>5, <1>6 DEF Owed
    <3>3. \A i \in 1..len : v[i] = w[i]
      BY <1>6 DEF Owed
    <3>. HIDE DEF w, v
    <3>4. v[len + 1] \in Nat
      BY <1>7, <3>2
    <3>5. PICK q : IsTotal(v, len + 1, q) /\ q[len + 1] = r[len] + v[len + 1]
      BY <1>3, <3>1, <3>3, <3>4, TotalLonger
    <3>6. r[len] \in Nat /\ burned[a] \in Nat /\ burned'[a] = burned[a]
      <4>1. len \in 0..len /\ r \in [0..len -> Nat]
        BY <1>3, <3>1 DEF IsTotal
      <4>. QED
        BY <1>1, <1>2, <4>1 DEF TypeInv
    <3>7. burned'[a] + q[len + 1] <= granted'[a]
      BY <1>7, <3>1, <3>2, <3>4, <3>5, <3>6
    <3>8. IsTotal(v, Len(sent'), q) /\ burned'[a] + q[Len(sent')] <= granted'[a]
      BY <1>6, <3>5, <3>7
    <3>. QED
      BY <3>8 DEF v
  <2>. QED
    BY <2>1 DEF OwedInv
<1>13. ShownIsSent'
  <2>1. ASSUME NEW i \in 1..(len + 1)
        PROVE  /\ sent'[i].instructions = Shown(sent'[i].batch)
               /\ Fits(sent'[i].instructions)
    <3>1. CASE i \in 1..len
      BY <1>2, <1>3, <1>6, <3>1 DEF ShownIsSent, Shown
    <3>2. CASE i = len + 1
      BY <1>1, <1>2, <1>5, <1>6, <3>2 DEF ShownInv
    <3>. QED
      BY <1>6, <3>1, <3>2
  <2>. QED
    BY <1>6, <2>1 DEF ShownIsSent, Shown
<1>14. OneBatchAtATime'
  <2>1. ASSUME NEW i \in 1..(len + 1), NEW j \in 1..(len + 1), i < j,
               sent'[i].command = sent'[j].command
        PROVE  /\ sent'[i].status = "executed"
               /\ \A c \in ToSet(sent'[i].batch), d \in ToSet(sent'[j].batch) :
                     c.account # d.account
    <3>1. i \in 1..len
      BY <1>3, <2>1
    <3>2. CASE j \in 1..len
      <4>1. sent'[i] = sent[i] /\ sent'[j] = sent[j]
        BY <1>2, <1>3, <1>6, <3>1, <3>2
      <4>2. i \in DOMAIN sent /\ j \in DOMAIN sent
        BY <1>2, <1>3, <1>6, <3>1, <3>2
      <4>3. sent[i].command = sent[j].command
        BY <2>1, <4>1, Zenon
      <4>4. /\ sent[i].status = "executed"
            /\ \A c \in ToSet(sent[i].batch), d \in ToSet(sent[j].batch) :
                  c.account # d.account
        BY <1>2, <2>1, <4>2, <4>3, Zenon DEF OneBatchAtATime
      <4>. QED
        BY <4>1, <4>4, Zenon
    <3>3. CASE j = len + 1
      <4>1. i \in Past
        BY <1>1, <1>5, <1>6, <2>1, <3>1, <3>3 DEF Past, Own
      <4>2. sent[i].status = "executed" /\ Accs(sent[i].batch) \cap Accs(batch) = {}
        BY <1>1, <1>2, <4>1 DEF CommandInv
      <4>3. sent[i].batch \in Seq(Candidates)
        BY <1>2, <3>1, SentFields
      <4>4. /\ \A c \in ToSet(sent[i].batch) : c.account \in Accs(sent[i].batch)
            /\ \A d \in ToSet(batch) : d.account \in Accs(batch)
        BY <1>3, <4>3, ListedAccounts
      <4>. QED
        BY <1>5, <1>6, <3>1, <3>3, <4>2, <4>4
    <3>. QED
      BY <1>6, <3>2, <3>3
  <2>. QED
    BY <1>6, <2>1 DEF OneBatchAtATime
<1>. QED
  BY <1>8, <1>10, <1>11, <1>12, <1>13, <1>14 DEF CloseInv

\* A batch of one candidate, as after an overflow.
LEMMA OneCandidate ==
    ASSUME NEW c \in Candidates
    PROVE  /\ <<c>> \in Seq(Candidates) /\ <<c>> # <<>> /\ Len(<<c>>) = 1
           /\ Accs(<<c>>) = {c.account} /\ Distinct(<<c>>)
           /\ InstructionsOf(c) \in Seq(Instructions)
           /\ InstructionsOf(c) = Shown(<<c>>)
           /\ \A a \in Accounts : Burns(InstructionsOf(c), a) = Tokens(<<c>>, a)
<1>1. /\ <<>> \in Seq(Candidates) /\ <<>> \in Seq(Instructions)
      /\ Append(<<>>, c) = <<c>> /\ <<c>> # <<>> /\ Len(<<c>>) = 1
  OBVIOUS
<1>2. InstructionsOf(c) \in Seq(Instructions)
  BY <1>1, BurnsOfCandidate
<1>3. <<>> \o InstructionsOf(c) = InstructionsOf(c)
  <2>. DEFINE ins == InstructionsOf(c)
  <2>1. ins \in Seq(Instructions)
    BY <1>2
  <2>. HIDE DEF ins
  <2>. QED
    BY <2>1
<1>4. Accs(<<>>) = {} /\ Distinct(<<>>) /\ c.account \notin Accs(<<>>)
  BY NoAccounts
<1>5. /\ <<c>> \in Seq(Candidates) /\ Accs(<<c>>) = {c.account}
      /\ Distinct(<<c>>)
  <2>1. /\ Append(<<>>, c) \in Seq(Candidates)
        /\ Accs(Append(<<>>, c)) = Accs(<<>>) \cup {c.account}
        /\ Distinct(Append(<<>>, c))
    BY <1>1, <1>4, ListLonger
  <2>. QED
    BY <1>1, <1>4, <2>1
<1>6. InstructionsOf(c) = Shown(<<c>>)
  <2>1. Shown(Append(<<>>, c)) = Shown(<<>>) \o InstructionsOf(c)
    BY <1>1, ShownLonger
  <2>. QED
    BY <1>1, <1>3, <2>1, NothingShown
<1>7. ASSUME NEW a \in Accounts
      PROVE  Burns(InstructionsOf(c), a) = Tokens(<<c>>, a)
  <2>1. Burns(<<>> \o InstructionsOf(c), a) = Burns(<<>>, a) + BurnOf(c, a)
    BY <1>1, BurnsOfCandidate
  <2>2. Tokens(Append(<<>>, c), a) = Tokens(<<>>, a) + BurnOf(c, a)
    BY <1>1, TokensLonger
  <2>3. Tokens(<<>>, a) = Burns(<<>>, a)
    BY NothingBurned
  <2>. QED
    BY <1>1, <1>3, <2>1, <2>2, <2>3
<1>. QED
  BY <1>1, <1>2, <1>5, <1>6, <1>7

\* What NextBatch leaves: no candidate lost, none doubled, both lists in step.
LEMMA NextBatchEffect ==
    ASSUME NextBatch, rest \in Seq(Candidates), Distinct(rest)
    PROVE  /\ rest' \in Seq(Candidates) /\ batch' \in Seq(Candidates)
           /\ instructions' \in Seq(Instructions)
           /\ Len(rest') + Len(batch') = Len(rest)
           /\ Distinct(rest') /\ Distinct(batch')
           /\ Accs(rest') \cap Accs(batch') = {}
           /\ Accs(rest') \cup Accs(batch') = Accs(rest)
           /\ instructions' = Shown(batch')
           /\ batch' # <<>> => Fits(instructions')
           /\ \A a \in Accounts : Burns(instructions', a) = Tokens(batch', a)
<1>1. CASE rest = <<>>
  <2>1. rest' = <<>> /\ batch' = <<>> /\ instructions' = <<>>
    BY <1>1 DEF NextBatch
  <2>2. Accs(<<>>) = {} /\ Distinct(<<>>)
    BY NoAccounts
  <2>3. /\ <<>> \in Seq(Candidates) /\ <<>> \in Seq(Instructions)
        /\ Len(<<>>) + Len(<<>>) = Len(<<>>)
    OBVIOUS
  <2>. QED
    BY <1>1, <2>1, <2>2, <2>3, NothingShown, NothingBurned
<1>2. CASE rest # <<>>
  <2>. DEFINE c == Head(rest)
  <2>1. /\ Fits(InstructionsOf(c)) /\ batch' = <<c>>
        /\ instructions' = InstructionsOf(c) /\ rest' = Tail(rest)
    BY <1>2 DEF NextBatch
  <2>2. /\ c \in Candidates /\ rest' \in Seq(Candidates)
        /\ Len(rest') = Len(rest) - 1
        /\ Accs(rest) = {c.account} \cup Accs(rest')
        /\ Distinct(rest') /\ c.account \notin Accs(rest')
    BY <1>2, <2>1, ListShorter
  <2>. HIDE DEF c
  <2>3. /\ <<c>> \in Seq(Candidates) /\ Len(<<c>>) = 1
        /\ Accs(<<c>>) = {c.account} /\ Distinct(<<c>>)
        /\ InstructionsOf(c) \in Seq(Instructions)
        /\ InstructionsOf(c) = Shown(<<c>>)
        /\ \A a \in Accounts : Burns(InstructionsOf(c), a) = Tokens(<<c>>, a)
    BY <2>2, OneCandidate
  <2>4. Len(rest') + Len(batch') = Len(rest)
    <3>1. Len(rest) \in Nat
      OBVIOUS
    <3>. QED
      BY <2>1, <2>2, <2>3, <3>1
  <2>5. /\ Accs(rest') \cap Accs(batch') = {}
        /\ Accs(rest') \cup Accs(batch') = Accs(rest)
    BY <2>1, <2>2, <2>3
  <2>. QED
    BY <2>1, <2>2, <2>3, <2>4, <2>5
<1>. QED
  BY <1>1, <1>2

\* send_close_batch returns Ok(true): the closed accounts are counted.
LEMMA ConfirmedHolds == CloseInv /\ Confirmed => CloseInv'
<1>. SUFFICES ASSUME CloseInv, Confirmed PROVE CloseInv'
  OBVIOUS
<1>. DEFINE len == Len(sent)
<1>1. /\ stage = "sending" /\ sent[len].status = "executed"
      /\ confirmed' = confirmed + Len(batch)
      /\ NextBatch /\ stage' = "packing"
      /\ UNCHANGED <<n, sent, tokens, granted, burned>>
  BY DEF Confirmed, Last
<1>2. TypeInv /\ CommandInv
  BY DEF CloseInv
<1>3. /\ batch \in Seq(Candidates) /\ Distinct(batch) /\ Len(batch) \in Nat
      /\ Len(rest) \in Nat /\ confirmed \in Nat
      /\ len \in Own /\ sent[len].batch = batch
  BY <1>1, <1>2 DEF TypeInv, CommandInv
<1>. HIDE DEF len
<1>4. /\ rest' \in Seq(Candidates) /\ batch' \in Seq(Candidates)
      /\ instructions' \in Seq(Instructions)
      /\ Len(rest') + Len(batch') = Len(rest)
      /\ Distinct(rest') /\ Distinct(batch')
      /\ Accs(rest') \cap Accs(batch') = {}
      /\ Accs(rest') \cup Accs(batch') = Accs(rest)
      /\ instructions' = Shown(batch')
      /\ batch' # <<>> => Fits(instructions')
      /\ \A a \in Accounts : Burns(instructions', a) = Tokens(batch', a)
  BY <1>1, <1>2, NextBatchEffect DEF TypeInv, CommandInv
<1>5. Past = Own \ {len} /\ Past' = Own
  BY <1>1 DEF Past, Own, len
<1>6. Past' = Past \cup {len} /\ len \notin Past
  BY <1>3, <1>5
<1>7. Counted' = Counted \cup Accs(batch)
  <2>1. Counted' = UNION {Accs(sent[i].batch) : i \in Past'}
    BY <1>1 DEF Counted
  <2>. QED
    BY <1>3, <1>6, <2>1 DEF Counted
<1>8. /\ Counted \cap Accs(batch) = {} /\ Counted \cap Accs(rest) = {}
      /\ Accs(rest) \cap Accs(batch) = {}
  BY <1>1, <1>2 DEF CommandInv, Counted
<1>9. IsFiniteSet(Counted') /\ confirmed' = Cardinality(Counted')
  <2>1. IsFiniteSet(Counted) /\ confirmed = Cardinality(Counted)
    BY <1>1, <1>2 DEF CommandInv
  <2>2. IsFiniteSet(Accs(batch)) /\ Cardinality(Accs(batch)) = Len(batch)
    BY <1>3, CountListed
  <2>3. Cardinality({}) = 0
    BY FS_EmptySet
  <2>4. /\ IsFiniteSet(Counted \cup Accs(batch))
        /\ Cardinality(Counted \cup Accs(batch))
              = Cardinality(Counted) + Cardinality(Accs(batch))
                - Cardinality(Counted \cap Accs(batch))
    BY <2>1, <2>2, FS_Union
  <2>5. Cardinality(Counted \cup Accs(batch)) = confirmed + Len(batch) - 0
    BY <1>8, <2>1, <2>2, <2>3, <2>4, Zenon
  <2>6. confirmed + Len(batch) - 0 = confirmed + Len(batch)
    BY <1>3
  <2>. QED
    BY <1>1, <1>7, <2>4, <2>5, <2>6
<1>10. TypeInv'
  <2>1. Len(rest') + Len(batch') + confirmed' = Len(rest) + Len(batch) + confirmed
    <3>. DEFINE left == Len(rest')
                packed == Len(batch')
    <3>1. left \in Nat /\ packed \in Nat /\ left + packed = Len(rest)
      BY <1>4
    <3>2. confirmed' = confirmed + Len(batch)
      BY <1>1
    <3>. HIDE DEF left, packed
    <3>3. left + packed + confirmed' = Len(rest) + Len(batch) + confirmed
      BY <1>3, <3>1, <3>2
    <3>. QED
      BY <3>3 DEF left, packed
  <2>2. confirmed' \in Nat
    BY <1>1, <1>3
  <2>3. /\ stage' = "packing" /\ n' = n /\ sent' = sent /\ tokens' = tokens
        /\ granted' = granted /\ burned' = burned
    BY <1>1
  <2>4. /\ rest' \in Seq(Candidates) /\ batch' \in Seq(Candidates)
        /\ instructions' \in Seq(Instructions)
    BY <1>4
  <2>5. Len(rest') + Len(batch') + confirmed' <= Cardinality(Associated)
    BY <1>2, <2>1 DEF TypeInv
  <2>6. /\ n \in 0..MaxCommands /\ n # 0
        /\ sent \in Seq(SentRecords)
        /\ \A i \in 1..Len(sent) : sent[i].command <= n
        /\ tokens \in [Accounts -> {Closed} \cup 0..MaxAmount]
        /\ granted \in [Accounts -> Nat] /\ burned \in [Accounts -> Nat]
    BY <1>1, <1>2 DEF TypeInv
  <2>. QED
    BY <2>2, <2>3, <2>4, <2>5, <2>6, Zenon DEF TypeInv
<1>11. CommandInv'
  <2>1. \A i \in Past' :
           /\ sent[i].status = "executed"
           /\ Accs(sent[i].batch) \cap Accs(rest) = {}
    BY <1>1, <1>2, <1>3, <1>6, <1>8 DEF CommandInv
  <2>. QED
    BY <1>1, <1>4, <1>9, <2>1 DEF CommandInv
<1>12. ShownInv'
  BY <1>4 DEF ShownInv
<1>. QED
  BY <1>1, <1>10, <1>11, <1>12, SentUntouched DEF CloseInv

\* The command ends: all is done, a batch is pending, or a call failed.
LEMMA OverHolds == CloseInv /\ Over => CloseInv'
<1>. SUFFICES ASSUME CloseInv, Over PROVE CloseInv'
  OBVIOUS
<1>1. /\ stage' = "idle" /\ rest' = <<>> /\ batch' = <<>> /\ instructions' = <<>>
      /\ confirmed' = 0 /\ UNCHANGED <<n, sent, tokens, granted, burned>>
  BY DEF Over
<1>2. Accs(<<>>) = {} /\ Distinct(<<>>)
  BY NoAccounts
<1>3. TypeInv'
  <2>1. IsFiniteSet(Associated) /\ Cardinality(Associated) \in Nat
    BY FS_Subset, FS_CardinalityType, CloseAssumption
  <2>2. Len(rest') + Len(batch') + confirmed' <= Cardinality(Associated)
    BY <1>1, <2>1
  <2>. QED
    BY <1>1, <2>2 DEF CloseInv, TypeInv
<1>4. CommandInv'
  BY <1>1, <1>2 DEF CommandInv
<1>5. ShownInv'
  BY <1>1, NothingShown, NothingBurned DEF ShownInv
<1>. QED
  BY <1>1, <1>3, <1>4, <1>5, SentUntouched DEF CloseInv

\* The end of a transaction, in whatever way.
LEMMA EndHolds ==
    ASSUME CloseInv, NEW i \in DOMAIN sent, sent[i].status = "out",
           NEW status \in Statuses \ {"out"},
           sent' = [sent EXCEPT ![i].status = status],
           tokens' \in [Accounts -> {Closed} \cup 0..MaxAmount],
           burned' \in [Accounts -> Nat],
           \A a \in Accounts :
               burned'[a] <= burned[a] + Burns(sent[i].instructions, a),
           UNCHANGED <<commandVars, granted>>
    PROVE  CloseInv'
<1>. DEFINE len == Len(sent)
<1>1. UNCHANGED <<stage, rest, batch, instructions, confirmed, n, granted>>
  BY DEF commandVars
<1>2. TypeInv /\ CommandInv /\ ShownInv /\ OwedInv /\ ShownIsSent /\ OneBatchAtATime
  BY DEF CloseInv
<1>3. sent \in Seq(SentRecords) /\ len \in Nat /\ DOMAIN sent = 1..len
  BY <1>2 DEF TypeInv
<1>4. i \in 1..len
  BY <1>3
<1>5. /\ sent' \in Seq(SentRecords) /\ Len(sent') = len /\ DOMAIN sent' = 1..len
      /\ \A k \in 1..len :
            /\ sent'[k].command = sent[k].command
            /\ sent'[k].batch = sent[k].batch
            /\ sent'[k].instructions = sent[k].instructions
            /\ sent'[k].status = IF k = i THEN status ELSE sent[k].status
  <2>1. /\ sent' = [k \in 1..len |-> IF k = i THEN [sent[i] EXCEPT !.status = status]
                                     ELSE sent[k]]
    BY <1>3
  <2>2. \A k \in 1..len : sent[k] \in SentRecords
    BY <1>3
  <2>3. [sent[i] EXCEPT !.status = status] \in SentRecords
    BY <1>4, <2>2 DEF SentRecords
  <2>4. \A k \in 1..len : sent'[k] \in SentRecords
    BY <2>1, <2>2, <2>3
  <2>5. sent' \in Seq(SentRecords) /\ Len(sent') = len /\ DOMAIN sent' = 1..len
    <3>1. sent' \in [1..len -> SentRecords]
      BY <2>1, <2>4
    <3>. QED
      BY <1>3, <3>1
  <2>6. ASSUME NEW k \in 1..len
        PROVE  /\ sent'[k].command = sent[k].command
               /\ sent'[k].batch = sent[k].batch
               /\ sent'[k].instructions = sent[k].instructions
               /\ sent'[k].status = IF k = i THEN status ELSE sent[k].status
    <3>1. CASE k = i
      <4>1. sent'[k] = [sent[i] EXCEPT !.status = status]
        BY <2>1, <3>1
      <4>2. sent[i] \in SentRecords
        BY <1>4, <2>2
      <4>. QED
        BY <3>1, <4>1, <4>2 DEF SentRecords
    <3>2. CASE k # i
      BY <2>1, <3>2
    <3>. QED
      BY <3>1, <3>2
  <2>. QED
    BY <2>5, <2>6
<1>6. \/ Past' = Past /\ Counted' = Counted /\ i \notin Past
      \/ stage = "idle"
  <2>1. Own' = Own
    BY <1>1, <1>5 DEF Own
  <2>2. Past' = Past
    BY <1>1, <1>5, <2>1 DEF Past
  <2>3. \A k \in Past : k \in 1..len
    BY DEF Past, Own
  <2>4. Counted' = Counted
    BY <1>5, <2>2, <2>3 DEF Counted
  <2>5. CASE stage # "idle"
    <3>1. \A k \in Past : sent[k].status = "executed"
      BY <1>2, <2>5 DEF CommandInv
    <3>. QED
      BY <2>2, <2>4, <3>1
  <2>. QED
    BY <2>5
<1>7. TypeInv'
  <2>1. \A k \in 1..len : sent'[k].command <= n
    BY <1>2, <1>5 DEF TypeInv
  <2>. QED
    BY <1>1, <1>2, <1>5, <2>1 DEF TypeInv
<1>8. CommandInv'
  <2>1. CASE stage = "idle"
    BY <1>1, <1>2, <2>1 DEF CommandInv
  <2>2. CASE stage # "idle"
    <3>1. \A k \in Past : k \in 1..len /\ k # i
      BY <1>6, <2>2 DEF Past, Own
    <3>2. \A k \in Past :
             /\ sent'[k].status = "executed"
             /\ Accs(sent'[k].batch) \cap (Accs(rest) \cup Accs(batch)) = {}
      BY <1>2, <1>5, <2>2, <3>1 DEF CommandInv
    <3>3. stage = "sending" => Len(sent') \in Own' /\ sent'[Len(sent')].batch = batch
      <4>1. Own' = Own
        BY <1>1, <1>5 DEF Own
      <4>2. stage = "sending" => len \in Own /\ len \in 1..len
                                 /\ sent[len].batch = batch
        BY <1>2 DEF CommandInv, Own
      <4>. QED
        BY <1>5, <4>1, <4>2
    <3>. QED
      BY <1>1, <1>2, <1>6, <2>2, <3>2, <3>3 DEF CommandInv
  <2>. QED
    BY <2>1, <2>2
<1>9. ShownInv'
  BY <1>1, <1>2 DEF ShownInv
<1>10. OwedInv'
  <2>1. ASSUME NEW a \in Accounts
        PROVE  \E q : /\ IsTotal(Owed(a)', Len(sent'), q)
                      /\ burned'[a] + q[Len(sent')] <= granted'[a]
    <3>. DEFINE w == Owed(a)
                v == Owed(a)'
    <3>1. PICK r : IsTotal(w, len, r) /\ burned[a] + r[len] <= granted[a]
      BY <1>2 DEF OwedInv
    <3>2. w[i] = Burns(sent[i].instructions, a) /\ v[i] = 0
      BY <1>4, <1>5 DEF Owed
    <3>3. \A k \in 1..len : k # i => v[k] = w[k]
      BY <1>5 DEF Owed
    <3>4. ASSUME NEW k \in 1..len PROVE w[k] \in Nat
      <4>1. Burns(sent[k].instructions, a) \in Nat
        BY <1>2, SentFields, BurnsNatural
      <4>. QED
        BY <4>1 DEF Owed
    <3>. HIDE DEF w, v, len
    <3>5. PICK q : IsTotal(v, len, q) /\ q[len] = r[len] - w[i]
      <4>1. len \in Nat /\ IsTotal(w, len, r) /\ v[i] = 0
        BY <1>3, <3>1, <3>2
      <4>2. \A k \in 1..len : w[k] \in Nat
        BY <3>4
      <4>. QED
        BY <1>4, <3>3, <4>1, <4>2, TotalLowered
    <3>6. /\ r[len] \in Nat /\ w[i] \in Nat
          /\ burned[a] \in Nat /\ burned'[a] \in Nat /\ granted[a] \in Nat
      <4>1. len \in 0..len /\ r \in [0..len -> Nat]
        BY <1>3, <3>1 DEF IsTotal
      <4>. QED
        BY <1>2, <1>4, <3>4, <4>1 DEF TypeInv
    <3>7. burned'[a] <= burned[a] + w[i]
      BY <3>2
    <3>8. burned'[a] + q[len] <= granted[a]
      BY <3>1, <3>5, <3>6, <3>7
    <3>9. IsTotal(v, Len(sent'), q) /\ burned'[a] + q[Len(sent')] <= granted'[a]
      BY <1>1, <1>5, <3>5, <3>8
    <3>. QED
      BY <3>9 DEF v
  <2>. QED
    BY <2>1 DEF OwedInv
<1>11. ShownIsSent'
  BY <1>2, <1>3, <1>5 DEF ShownIsSent
<1>12. OneBatchAtATime'
  <2>1. ASSUME NEW k \in 1..len, NEW j \in 1..len, k < j,
               sent'[k].command = sent'[j].command
        PROVE  /\ sent'[k].status = "executed"
               /\ \A c \in ToSet(sent'[k].batch), d \in ToSet(sent'[j].batch) :
                     c.account # d.account
    <3>1. /\ sent[k].status = "executed"
          /\ \A c \in ToSet(sent[k].batch), d \in ToSet(sent[j].batch) :
                c.account # d.account
      BY <1>2, <1>3, <1>5, <2>1 DEF OneBatchAtATime
    <3>. QED
      BY <1>5, <3>1
  <2>. QED
    BY <1>5, <2>1 DEF OneBatchAtATime
<1>. QED
  BY <1>7, <1>8, <1>9, <1>10, <1>11, <1>12 DEF CloseInv

\* The chain executes a transaction, perhaps long after the command.
LEMMA ExecuteHolds ==
    ASSUME CloseInv, NEW i \in DOMAIN sent, Execute(i)
    PROVE  CloseInv'
<1>. DEFINE ins == sent[i].instructions
<1>1. TypeInv
  BY DEF CloseInv
<1>2. i \in 1..Len(sent)
  BY <1>1 DEF TypeInv
<1>3. ins \in Seq(Instructions)
  BY <1>1, <1>2, SentFields
<1>. HIDE DEF ins
<1>4. \A a \in Accounts : Burns(ins, a) \in Nat /\ burned[a] \in Nat
  BY <1>1, <1>3, BurnsNatural DEF TypeInv
<1>5. sent[i].status = "out" /\ UNCHANGED <<commandVars, granted>>
  BY DEF Execute
<1>6. CASE Executable(ins)
  <2>1. /\ tokens' = [a \in Accounts |->
                        IF a \in Closes(ins) THEN Closed ELSE tokens[a]]
        /\ burned' = [a \in Accounts |-> burned[a] + Burns(ins, a)]
        /\ sent' = [sent EXCEPT ![i].status = "executed"]
    BY <1>6 DEF Execute, ins
  <2>2. tokens' \in [Accounts -> {Closed} \cup 0..MaxAmount]
    BY <1>1, <2>1 DEF TypeInv
  <2>3. /\ burned' \in [Accounts -> Nat]
        /\ \A a \in Accounts : burned'[a] <= burned[a] + Burns(ins, a)
    BY <1>4, <2>1
  <2>4. "executed" \in Statuses \ {"out"}
    BY DEF Statuses
  <2>. QED
    BY <1>5, <2>1, <2>2, <2>3, <2>4, EndHolds DEF ins
<1>7. CASE ~Executable(ins)
  <2>1. /\ sent' = [sent EXCEPT ![i].status = "failed"]
        /\ UNCHANGED <<tokens, burned>>
    BY <1>7 DEF Execute, ins
  <2>2. /\ tokens' \in [Accounts -> {Closed} \cup 0..MaxAmount]
        /\ burned' \in [Accounts -> Nat]
        /\ \A a \in Accounts : burned'[a] <= burned[a] + Burns(ins, a)
    BY <1>1, <1>4, <2>1 DEF TypeInv
  <2>3. "failed" \in Statuses \ {"out"}
    BY DEF Statuses
  <2>. QED
    BY <1>5, <2>1, <2>2, <2>3, EndHolds DEF ins
<1>. QED
  BY <1>6, <1>7

\* The blockhash of a transaction that was not executed expires.
LEMMA ExpireHolds ==
    ASSUME CloseInv, NEW i \in DOMAIN sent, Expire(i)
    PROVE  CloseInv'
<1>. DEFINE ins == sent[i].instructions
<1>1. TypeInv
  BY DEF CloseInv
<1>2. i \in 1..Len(sent)
  BY <1>1 DEF TypeInv
<1>3. ins \in Seq(Instructions)
  BY <1>1, <1>2, SentFields
<1>4. /\ sent[i].status = "out" /\ sent' = [sent EXCEPT ![i].status = "expired"]
      /\ UNCHANGED <<commandVars, tokens, granted, burned>>
  BY DEF Expire
<1>. HIDE DEF ins
<1>5. /\ tokens' \in [Accounts -> {Closed} \cup 0..MaxAmount]
      /\ burned' \in [Accounts -> Nat]
      /\ \A a \in Accounts : burned'[a] <= burned[a] + Burns(ins, a)
  <2>1. \A a \in Accounts : Burns(ins, a) \in Nat /\ burned[a] \in Nat
    BY <1>1, <1>3, BurnsNatural DEF TypeInv
  <2>. QED
    BY <1>1, <1>4, <2>1 DEF TypeInv
<1>6. "expired" \in Statuses \ {"out"}
  BY DEF Statuses
<1>. QED
  BY <1>4, <1>5, <1>6, EndHolds DEF ins

\* Somebody else sends tokens to an account.
LEMMA DepositHolds == CloseInv /\ Deposit => CloseInv'
<1>. SUFFICES ASSUME CloseInv, Deposit PROVE CloseInv'
  OBVIOUS
<1>1. UNCHANGED <<stage, rest, batch, instructions, confirmed, n>>
      /\ UNCHANGED <<sent, granted, burned>>
  BY DEF Deposit, commandVars
<1>2. TypeInv /\ CommandInv /\ ShownInv
  BY DEF CloseInv
<1>3. tokens' \in [Accounts -> {Closed} \cup 0..MaxAmount]
  <2>1. PICK a \in Accounts : /\ tokens[a] < MaxAmount
                              /\ tokens' = [tokens EXCEPT ![a] = @ + 1]
    BY DEF Deposit
  <2>2. tokens[a] \in {Closed} \cup 0..MaxAmount
    BY <1>2 DEF TypeInv
  <2>3. tokens[a] + 1 \in 0..MaxAmount
    BY <2>1, <2>2, CloseAssumption DEF Closed
  <2>. QED
    BY <1>2, <2>1, <2>3 DEF TypeInv
<1>4. TypeInv'
  BY <1>1, <1>2, <1>3 DEF TypeInv
<1>5. CommandInv'
  <2>1. Past' = Past /\ Counted' = Counted /\ Own' = Own
    BY <1>1 DEF Past, Own, Counted
  <2>. QED
    BY <1>1, <1>2, <2>1 DEF CommandInv
<1>6. ShownInv'
  BY <1>1, <1>2 DEF ShownInv
<1>. QED
  BY <1>1, <1>4, <1>5, <1>6, SentUntouched DEF CloseInv

\* The invariant of close-ata.
THEOREM CloseInvariant == Spec => []CloseInv
<1>1. Init => CloseInv
  BY InitHolds
<1>2. CloseInv /\ [Next]_vars => CloseInv'
  <2>. SUFFICES ASSUME CloseInv, [Next]_vars PROVE CloseInv'
    OBVIOUS
  <2>1. CASE Select
    BY <2>1, SelectHolds
  <2>2. CASE Pack
    BY <2>2, PackHolds
  <2>3. CASE Send
    BY <2>3, SendHolds
  <2>4. CASE Confirmed
    BY <2>4, ConfirmedHolds
  <2>5. CASE Pending \/ Finish \/ GiveUp
    BY <2>5, OverHolds DEF Pending, Finish, GiveUp
  <2>6. ASSUME NEW i \in DOMAIN sent, Execute(i) PROVE CloseInv'
    BY <2>6, ExecuteHolds
  <2>7. ASSUME NEW i \in DOMAIN sent, Expire(i) PROVE CloseInv'
    BY <2>7, ExpireHolds
  <2>8. CASE Deposit
    BY <2>8, DepositHolds
  <2>9. CASE UNCHANGED vars
    <3>1. /\ UNCHANGED <<stage, rest, batch, instructions, confirmed, n>>
          /\ UNCHANGED <<sent, tokens, granted, burned>>
      BY <2>9 DEF vars, commandVars
    <3>2. Past' = Past /\ Counted' = Counted /\ Own' = Own
      BY <3>1 DEF Past, Own, Counted
    <3>3. TypeInv' /\ CommandInv' /\ ShownInv'
      BY <3>1, <3>2 DEF CloseInv, TypeInv, CommandInv, ShownInv
    <3>. QED
      BY <3>1, <3>3, SentUntouched DEF CloseInv
  <2>. QED
    BY <2>1, <2>2, <2>3, <2>4, <2>5, <2>6, <2>7, <2>8, <2>9 DEF Next
<1>. QED
  BY <1>1, <1>2, PTL DEF Spec

-----------------------------------------------------------------------------
(* What follows.                                                           *)

\* The variables are of their types; the accounts that are left, packed and
\* counted are never more than there are.
THEOREM TypeCorrect == Spec => []TypeOK
<1>1. CloseInv => TypeOK
  <2>. SUFFICES ASSUME CloseInv PROVE TypeOK
    OBVIOUS
  <2>1. TypeInv
    BY DEF CloseInv
  <2>2. DOMAIN sent = 1..Len(sent)
    BY <2>1 DEF TypeInv
  <2>3. ASSUME NEW i \in 1..Len(sent)
        PROVE  /\ sent[i].command \in 1..n /\ sent[i].batch \in Seq(Candidates)
               /\ sent[i].status \in Statuses
    <3>1. /\ sent[i].command \in 1..MaxCommands /\ sent[i].command <= n
          /\ sent[i].batch \in Seq(Candidates) /\ sent[i].status \in Statuses
      BY <2>1, SentFields
    <3>2. n \in Nat
      BY <2>1 DEF TypeInv
    <3>. QED
      BY <3>1, <3>2
  <2>. QED
    BY <2>1, <2>2, <2>3 DEF TypeInv, TypeOK
<1>. QED
  BY <1>1, CloseInvariant, PTL

\* What is signed is what was shown, in every batch, and fits into a
\* transaction.
THEOREM SignsWhatWasShown == Spec => []ShownIsSent
<1>1. CloseInv => ShownIsSent
  BY DEF CloseInv
<1>. QED
  BY <1>1, CloseInvariant, PTL

\* A command sends a batch only after the ones before it have been executed,
\* and closes an account in one of them only.
THEOREM BatchesFollowEachOther == Spec => []OneBatchAtATime
<1>1. CloseInv => OneBatchAtATime
  BY DEF CloseInv
<1>. QED
  BY <1>1, CloseInvariant, PTL

\* No token is burned but those the user has typed BURN for, in whatever
\* order the transactions are executed and the commands are given.
THEOREM BurnsByConsent == Spec => []BurnsWereGranted
<1>1. CloseInv => BurnsWereGranted
  <2>. SUFFICES ASSUME CloseInv, NEW a \in Accounts PROVE burned[a] <= granted[a]
    BY DEF BurnsWereGranted
  <2>1. PICK r : /\ IsTotal(Owed(a), Len(sent), r)
                 /\ burned[a] + r[Len(sent)] <= granted[a]
    BY DEF CloseInv, OwedInv
  <2>2. Len(sent) \in Nat /\ burned[a] \in Nat /\ granted[a] \in Nat
    BY DEF CloseInv, TypeInv
  <2>3. r[Len(sent)] \in Nat
    BY <2>1, <2>2 DEF IsTotal
  <2>. QED
    BY <2>1, <2>2, <2>3
<1>. QED
  BY <1>1, CloseInvariant, PTL

\* The number of closed accounts that is shown is that of the accounts in
\* executed batches.
THEOREM CountsWhatWasClosed == Spec => []CountIsTrue
<1>1. CloseInv => CountIsTrue
  <2>. DEFINE done == {i \in DOMAIN sent : /\ sent[i].command = n
                                           /\ sent[i].status = "executed"}
              closed == UNION {{c.account : c \in ToSet(sent[i].batch)} : i \in done}
  <2>. SUFFICES ASSUME CloseInv, stage = "packing"
                PROVE  confirmed = Cardinality(closed)
    BY DEF CountIsTrue
  <2>1. TypeInv /\ CommandInv
    BY DEF CloseInv
  <2>2. DOMAIN sent = 1..Len(sent)
    BY <2>1 DEF TypeInv
  <2>3. \A i \in Past : sent[i].status = "executed"
    BY <2>1 DEF CommandInv
  <2>4. Past = done
    BY <2>2, <2>3 DEF Past, Own
  <2>5. ASSUME NEW i \in Past
        PROVE  Accs(sent[i].batch) = {c.account : c \in ToSet(sent[i].batch)}
    <3>1. i \in 1..Len(sent)
      BY DEF Past, Own
    <3>2. sent[i].batch \in Seq(Candidates)
      BY <2>1, <3>1, SentFields
    <3>. QED
      BY <3>2, ListedAccounts
  <2>. HIDE DEF done
  <2>6. Counted = closed
    BY <2>4, <2>5 DEF Counted
  <2>7. confirmed = Cardinality(Counted)
    BY <2>1 DEF CommandInv
  <2>. HIDE DEF closed
  <2>. QED
    BY <2>6, <2>7
<1>. QED
  BY <1>1, CloseInvariant, PTL
=============================================================================
