---------------------------- MODULE DataTheorems -----------------------------
(***************************************************************************)
(* Facts about numbers, sequences and sums that the proofs of several      *)
(* modules need: induction, stated for a set in the place of a predicate;  *)
(* what a sequence is without one of its entries; and what MapThenSumSet,  *)
(* FoldLeft and FlattenSeq of the community modules come to.  They are     *)
(* defined by recursive functions that take an element out of a set at     *)
(* every call: that there is such a function, that there is no other, and  *)
(* that the order is of no account to a sum, is shown by induction over    *)
(* the size of the set.                                                    *)
(***************************************************************************)
EXTENDS Integers, SequencesExt, FiniteSetsExt, FiniteSetTheorems, TLAPS

-----------------------------------------------------------------------------
(* Induction, for a set of numbers in the place of a predicate.            *)

\* A set of numbers that is not empty has a least element.
LEMMA LeastNatural ==
    ASSUME NEW S \in SUBSET Nat, S # {}
    PROVE  \E n \in S : \A m \in S : n <= m
<1>. DEFINE R == OpToRel(<, Nat)
<1>1. \E n \in S : \A m \in S : <<m, n>> \notin R
  <2>1. IsWellFoundedOn(R, Nat)
    BY NatLessThanWellFounded
  <2>. HIDE DEF R
  <2>. QED
    BY <2>1, WFMin
<1>2. PICK n \in S : \A m \in S : <<m, n>> \notin R
  BY <1>1
<1>3. ASSUME NEW m \in S PROVE n <= m
  <2>1. ~(m < n)
    BY <1>2 DEF OpToRel
  <2>. QED
    BY <2>1
<1>. QED
  BY <1>3

\* Induction over the numbers.
LEMMA NumberInduction ==
    ASSUME NEW S, 0 \in S, \A n \in Nat : n \in S => n + 1 \in S
    PROVE  Nat \subseteq S
<1>1. SUFFICES ASSUME Nat \ S # {} PROVE FALSE
  OBVIOUS
<1>2. PICK n \in Nat \ S : \A m \in Nat \ S : n <= m
  BY <1>1, LeastNatural
<1>3. n - 1 \in Nat /\ n - 1 \notin S
  BY <1>2
<1>. QED
  BY <1>2, <1>3

-----------------------------------------------------------------------------
(* Sequences.                                                              *)

\* Sequences with the same entries are the same.
LEMMA SameEntries ==
    ASSUME NEW S, NEW p \in Seq(S), NEW q \in Seq(S), Len(p) = Len(q),
           \A k \in 1..Len(q) : p[k] = q[k]
    PROVE  p = q
  OBVIOUS

\* The entries of two sequences, joined.
LEMMA ConcatAt ==
    ASSUME NEW S, NEW p \in Seq(S), NEW q \in Seq(S)
    PROVE  /\ p \o q \in Seq(S) /\ Len(p \o q) = Len(p) + Len(q)
           /\ Len(p) \in Nat /\ Len(q) \in Nat
           /\ \A k \in 1..(Len(p) + Len(q)) :
                 (p \o q)[k] = IF k <= Len(p) THEN p[k] ELSE q[k - Len(p)]
  OBVIOUS

\* s is p, which ends at i, and q.
IsCut(S, s, i, p, q) ==
    /\ p \in Seq(S) /\ q \in Seq(S) /\ Len(p) = i /\ Len(q) = Len(s) - i
    /\ \A k \in 1..i : p[k] = s[k]
    /\ \A k \in 1..(Len(s) - i) : q[k] = s[i + k]
    /\ s = p \o q

\* A sequence is what stands before a place in it, and what stands behind.
LEMMA CutParts ==
    ASSUME NEW S, NEW s \in Seq(S), NEW i \in 0..Len(s)
    PROVE  IsCut(S, s, i, SubSeq(s, 1, i), SubSeq(s, i + 1, Len(s)))
<1>. DEFINE p == SubSeq(s, 1, i)
            q == SubSeq(s, i + 1, Len(s))
<1>1. /\ p \in Seq(S) /\ q \in Seq(S) /\ Len(p) = i /\ Len(q) = Len(s) - i
      /\ \A k \in 1..i : p[k] = s[k]
      /\ \A k \in 1..(Len(s) - i) : q[k] = s[i + k]
  OBVIOUS
<1>2. /\ p \o q \in Seq(S) /\ Len(p \o q) = Len(p) + Len(q)
      /\ \A k \in 1..(Len(p) + Len(q)) :
            (p \o q)[k] = IF k <= Len(p) THEN p[k] ELSE q[k - Len(p)]
  BY <1>1, ConcatAt
<1>. HIDE DEF p, q
<1>3. Len(p \o q) = Len(s)
  BY <1>1, <1>2
<1>4. ASSUME NEW k \in 1..Len(s) PROVE (p \o q)[k] = s[k]
  <2>1. (p \o q)[k] = IF k <= i THEN p[k] ELSE q[k - i]
    BY <1>1, <1>2
  <2>. QED
    BY <1>1, <2>1
<1>5. s = p \o q
  <2>. DEFINE t == p \o q
  <2>1. /\ t \in Seq(S) /\ s \in Seq(S) /\ Len(t) = Len(s)
        /\ \A k \in 1..Len(s) : t[k] = s[k]
    BY <1>2, <1>3, <1>4
  <2>. HIDE DEF t
  <2>2. s = t
    BY <2>1
  <2>. QED
    BY <2>2 DEF t
<1>6. IsCut(S, s, i, p, q)
  BY <1>1, <1>5 DEF IsCut
<1>. QED
  BY <1>6, Zenon DEF p, q

\* The same, in full.
LEMMA Cut ==
    ASSUME NEW S, NEW s \in Seq(S), NEW i \in 0..Len(s)
    PROVE  /\ SubSeq(s, 1, i) \in Seq(S) /\ SubSeq(s, i + 1, Len(s)) \in Seq(S)
           /\ Len(SubSeq(s, 1, i)) = i
           /\ Len(SubSeq(s, i + 1, Len(s))) = Len(s) - i
           /\ \A k \in 1..i : SubSeq(s, 1, i)[k] = s[k]
           /\ \A k \in 1..(Len(s) - i) :
                 SubSeq(s, i + 1, Len(s))[k] = s[i + k]
           /\ s = SubSeq(s, 1, i) \o SubSeq(s, i + 1, Len(s))
<1>. DEFINE p == SubSeq(s, 1, i)
            q == SubSeq(s, i + 1, Len(s))
<1>1. IsCut(S, s, i, p, q)
  BY CutParts
<1>. HIDE DEF p, q
<1>2. /\ p \in Seq(S) /\ q \in Seq(S) /\ Len(p) = i /\ Len(q) = Len(s) - i
      /\ \A k \in 1..i : p[k] = s[k]
      /\ \A k \in 1..(Len(s) - i) : q[k] = s[i + k]
      /\ s = p \o q
  BY <1>1, Zenon DEF IsCut
<1>. QED
  BY <1>2, Zenon DEF p, q

\* Two sequences that are joined are cut apart where the first one ends.
LEMMA CutJoined ==
    ASSUME NEW S, NEW p \in Seq(S), NEW q \in Seq(S)
    PROVE  /\ SubSeq(p \o q, 1, Len(p)) = p
           /\ SubSeq(p \o q, Len(p) + 1, Len(p \o q)) = q
<1>1. /\ p \o q \in Seq(S) /\ Len(p \o q) = Len(p) + Len(q)
      /\ Len(p) \in Nat /\ Len(q) \in Nat
      /\ \A k \in 1..(Len(p) + Len(q)) :
            (p \o q)[k] = IF k <= Len(p) THEN p[k] ELSE q[k - Len(p)]
  BY ConcatAt
<1>. DEFINE s == p \o q
            a == SubSeq(s, 1, Len(p))
            b == SubSeq(s, Len(p) + 1, Len(s))
<1>2. /\ a \in Seq(S) /\ b \in Seq(S) /\ Len(a) = Len(p)
      /\ Len(b) = Len(s) - Len(p)
      /\ \A k \in 1..Len(p) : a[k] = s[k]
      /\ \A k \in 1..(Len(s) - Len(p)) : b[k] = s[Len(p) + k]
  BY <1>1, Cut
<1>. HIDE DEF a, b
<1>3. a = p
  <2>1. /\ a \in Seq(S) /\ p \in Seq(S) /\ Len(a) = Len(p)
        /\ \A k \in 1..Len(p) : a[k] = p[k]
    BY <1>1, <1>2
  <2>. HIDE DEF s
  <2>. QED
    BY <2>1, SameEntries
<1>4. ASSUME NEW k \in 1..Len(q) PROVE b[k] = q[k]
  <2>1. b[k] = s[Len(p) + k]
    BY <1>1, <1>2
  <2>2. s[Len(p) + k] = q[Len(p) + k - Len(p)]
    BY <1>1
  <2>. QED
    BY <1>1, <2>1, <2>2
<1>5. b = q
  <2>1. /\ b \in Seq(S) /\ q \in Seq(S) /\ Len(b) = Len(q)
        /\ \A k \in 1..Len(q) : b[k] = q[k]
    BY <1>1, <1>2, <1>4
  <2>. HIDE DEF s
  <2>. QED
    BY <2>1, SameEntries
<1>. QED
  BY <1>3, <1>5 DEF a, b

\* An entry at the end.
LEMMA AppendAt ==
    ASSUME NEW S, NEW s \in Seq(S), NEW x \in S
    PROVE  /\ Append(s, x) \in Seq(S) /\ Len(Append(s, x)) = Len(s) + 1
           /\ Append(s, x)[Len(s) + 1] = x
           /\ \A k \in 1..Len(s) : Append(s, x)[k] = s[k]
           /\ Append(s, x) = s \o <<x>> /\ Append(s, x) # <<>>
  OBVIOUS

\* It is of no account which two of three are joined first.
LEMMA JoinedInAnyOrder ==
    ASSUME NEW S, NEW a \in Seq(S), NEW b \in Seq(S), NEW c \in Seq(S)
    PROVE  (a \o b) \o c = a \o (b \o c)
  OBVIOUS

\* The entries of a sequence without the i-th.
LEMMA RemoveAtEntries ==
    ASSUME NEW S, NEW p \in Seq(S), NEW i \in 1..Len(p)
    PROVE  /\ RemoveAt(p, i) \in Seq(S) /\ Len(RemoveAt(p, i)) = Len(p) - 1
           /\ \A k \in 1..(Len(p) - 1) :
                 RemoveAt(p, i)[k] = IF k < i THEN p[k] ELSE p[k + 1]
<1>. DEFINE n == Len(p)
            a == SubSeq(p, 1, i - 1)
            b == SubSeq(p, i + 1, n)
<1>1. n \in Nat /\ i \in 1..n
  OBVIOUS
<1>2. a \in Seq(S) /\ Len(a) = i - 1 /\ \A k \in 1..(i - 1) : a[k] = p[k]
  BY <1>1
<1>3. b \in Seq(S) /\ Len(b) = n - i /\ \A k \in 1..(n - i) : b[k] = p[k + i]
  BY <1>1
<1>4. RemoveAt(p, i) = a \o b
  BY DEF RemoveAt
<1>. HIDE DEF a, b, n
<1>5. /\ a \o b \in Seq(S) /\ Len(a \o b) = Len(a) + Len(b)
      /\ \A k \in 1..(Len(a) + Len(b)) :
            (a \o b)[k] = IF k <= Len(a) THEN a[k] ELSE b[k - Len(a)]
  BY <1>2, <1>3, ConcatAt
<1>6. Len(a \o b) = n - 1
  BY <1>1, <1>2, <1>3, <1>5
<1>7. ASSUME NEW k \in 1..(n - 1)
      PROVE  (a \o b)[k] = IF k < i THEN p[k] ELSE p[k + 1]
  <2>1. k \in 1..(Len(a) + Len(b)) /\ Len(a) = i - 1
    BY <1>1, <1>2, <1>3
  <2>2. CASE k < i
    <3>1. k <= Len(a) /\ k \in 1..(i - 1)
      BY <1>1, <2>1, <2>2
    <3>2. (a \o b)[k] = a[k]
      BY <1>5, <2>1, <3>1
    <3>. QED
      BY <1>2, <2>2, <3>1, <3>2
  <2>3. CASE ~(k < i)
    <3>1. ~(k <= Len(a))
      BY <1>1, <2>1, <2>3
    <3>2. (a \o b)[k] = b[k - (i - 1)]
      BY <1>5, <2>1, <3>1
    <3>3. k - (i - 1) \in 1..(n - i) /\ (k - (i - 1)) + i = k + 1
      BY <1>1, <2>3
    <3>. QED
      BY <1>3, <2>3, <3>2, <3>3
  <2>. QED
    BY <2>2, <2>3
<1>. QED
  BY <1>4, <1>5, <1>6, <1>7 DEF n

-----------------------------------------------------------------------------
(* Sums.                                                                   *)

OneOf(s) == CHOOSE x \in s : TRUE

\* f gives the sum of w over every subset of S.
IsSum(S, w, f) ==
    f = [s \in SUBSET S |-> IF s = {} THEN 0
                            ELSE w[OneOf(s)] + f[s \ {OneOf(s)}]]

\* The subsets of at most n elements.
UpTo(S, n) == {s \in SUBSET S : Cardinality(s) <= n}

\* An element is taken out of a set, which is smaller by one then.
LEMMA AnyOut ==
    ASSUME NEW S, IsFiniteSet(S), NEW s \in SUBSET S, s # {}
    PROVE  /\ OneOf(s) \in s /\ s \ {OneOf(s)} \in SUBSET S
           /\ Cardinality(s) \in Nat
           /\ \A x \in s : /\ Cardinality(s \ {x}) = Cardinality(s) - 1
                           /\ Cardinality(s \ {x}) \in Nat
<1>1. OneOf(s) \in s
  BY DEF OneOf
<1>2. IsFiniteSet(s) /\ Cardinality(s) \in Nat
  BY FS_Subset, FS_CardinalityType
<1>3. ASSUME NEW x \in s
      PROVE  /\ Cardinality(s \ {x}) = Cardinality(s) - 1
             /\ Cardinality(s \ {x}) \in Nat
  BY <1>2, FS_RemoveElement, FS_CardinalityType
<1>. QED
  BY <1>1, <1>2, <1>3

\* Only the empty set has no elements.
LEMMA SmallSets ==
    ASSUME NEW S, IsFiniteSet(S)
    PROVE  UpTo(S, 0) = {{}}
<1>1. ASSUME NEW s \in UpTo(S, 0) PROVE s = {}
  <2>1. s \in SUBSET S /\ Cardinality(s) <= 0
    BY DEF UpTo
  <2>2. IsFiniteSet(s) /\ Cardinality(s) \in Nat
    BY <2>1, FS_Subset, FS_CardinalityType
  <2>3. Cardinality(s) = 0
    BY <2>1, <2>2
  <2>. QED
    BY <2>2, <2>3, FS_EmptySet
<1>2. {} \in UpTo(S, 0)
  BY FS_EmptySet DEF UpTo
<1>. QED
  BY <1>1, <1>2

\* S has no subset of more elements than its own.
LEMMA AllSubsets ==
    ASSUME NEW S, IsFiniteSet(S)
    PROVE  UpTo(S, Cardinality(S)) = SUBSET S
  BY FS_Subset DEF UpTo

\* There is such a function.
LEMMA SumExists ==
    ASSUME NEW S, IsFiniteSet(S), NEW w \in [S -> Nat]
    PROVE  \E f \in [SUBSET S -> Nat] : IsSum(S, w, f)
<1>. DEFINE Good(n, f) ==
              \A s \in UpTo(S, n) :
                 f[s] = IF s = {} THEN 0 ELSE w[OneOf(s)] + f[s \ {OneOf(s)}]
            N == {n \in Nat : \E f \in [SUBSET S -> Nat] : Good(n, f)}
<1>1. 0 \in N
  <2>. DEFINE f == [s \in SUBSET S |-> 0]
  <2>1. f[{}] = 0 /\ f \in [SUBSET S -> Nat]
    OBVIOUS
  <2>. HIDE DEF f
  <2>2. f \in [SUBSET S -> Nat] /\ Good(0, f)
    BY <2>1, SmallSets
  <2>. HIDE DEF Good
  <2>. QED
    BY <2>2
<1>2. ASSUME NEW n \in Nat, n \in N PROVE n + 1 \in N
  <2>1. PICK f \in [SUBSET S -> Nat] : Good(n, f)
    BY <1>2
  <2>. DEFINE g == [s \in SUBSET S |-> IF s = {} THEN 0
                                       ELSE w[OneOf(s)] + f[s \ {OneOf(s)}]]
  <2>2. \A s \in SUBSET S : s # {} =>
           /\ OneOf(s) \in S /\ s \ {OneOf(s)} \in SUBSET S
           /\ Cardinality(s \ {OneOf(s)}) = Cardinality(s) - 1
           /\ Cardinality(s) \in Nat
    BY AnyOut
  <2>3. g \in [SUBSET S -> Nat]
    <3>1. ASSUME NEW s \in SUBSET S, s # {}
          PROVE  w[OneOf(s)] + f[s \ {OneOf(s)}] \in Nat
      <4>1. w[OneOf(s)] \in Nat /\ f[s \ {OneOf(s)}] \in Nat
        BY <2>2, <3>1
      <4>. QED
        BY <4>1
    <3>. QED
      BY <3>1
  <2>4. ASSUME NEW s \in UpTo(S, n + 1), s # {}
        PROVE  g[s] = w[OneOf(s)] + g[s \ {OneOf(s)}]
    <3>1. s \in SUBSET S /\ Cardinality(s) <= n + 1
      BY DEF UpTo
    <3>2. s \ {OneOf(s)} \in UpTo(S, n)
      BY <2>2, <2>4, <3>1 DEF UpTo
    <3>3. g[s \ {OneOf(s)}] = f[s \ {OneOf(s)}]
      BY <2>1, <3>2 DEF UpTo
    <3>. QED
      BY <2>4, <3>1, <3>3
  <2>5. {} \in SUBSET S /\ g[{}] = 0
    OBVIOUS
  <2>6. Good(n + 1, g)
    <3>. HIDE DEF g
    <3>. QED
      BY <2>4, <2>5
  <2>. HIDE DEF g, Good
  <2>. QED
    BY <2>3, <2>6
<1>3. Nat \subseteq N
  <2>. HIDE DEF N
  <2>. QED
    BY <1>1, <1>2, NumberInduction
<1>4. Cardinality(S) \in Nat
  BY FS_CardinalityType
<1>5. PICK f \in [SUBSET S -> Nat] : Good(Cardinality(S), f)
  BY <1>3, <1>4
<1>6. UpTo(S, Cardinality(S)) = SUBSET S
  BY AllSubsets
<1>7. f = [s \in SUBSET S |-> IF s = {} THEN 0
                              ELSE w[OneOf(s)] + f[s \ {OneOf(s)}]]
  BY <1>5, <1>6
<1>. QED
  BY <1>5, <1>7 DEF IsSum

\* What is to be known about the sum.
SumLaw(S, w, f) ==
    /\ f[{}] = 0 /\ f \in [SUBSET S -> Nat]
    /\ \A s \in SUBSET S : \A x \in s : f[s] = w[x] + f[s \ {x}]

\* The empty set contributes nothing, and any element may go first.
LEMMA SumStep ==
    ASSUME NEW S, IsFiniteSet(S), NEW w \in [S -> Nat], NEW f, IsSum(S, w, f)
    PROVE  SumLaw(S, w, f)
<1>1. \A s \in SUBSET S :
         f[s] = IF s = {} THEN 0 ELSE w[OneOf(s)] + f[s \ {OneOf(s)}]
  BY DEF IsSum
<1>. DEFINE Good(s) == /\ f[s] \in Nat
                       /\ \A x \in s : f[s] = w[x] + f[s \ {x}]
            N == {n \in Nat : \A s \in UpTo(S, n) : Good(s)}
<1>2. f[{}] = 0 /\ Good({})
  <2>1. {} \in SUBSET S
    OBVIOUS
  <2>2. f[{}] = 0
    BY <1>1, <2>1
  <2>. QED
    BY <2>2
<1>3. 0 \in N
  BY <1>2, SmallSets
<1>4. ASSUME NEW n \in Nat, n \in N PROVE n + 1 \in N
  <2>1. ASSUME NEW s \in UpTo(S, n + 1), s # {} PROVE Good(s)
    <3>1. s \in SUBSET S /\ Cardinality(s) <= n + 1
      BY DEF UpTo
    <3>2. /\ OneOf(s) \in s /\ Cardinality(s) \in Nat
          /\ \A x \in s : /\ Cardinality(s \ {x}) = Cardinality(s) - 1
                          /\ Cardinality(s \ {x}) \in Nat
      BY <2>1, <3>1, AnyOut
    <3>3. \A x \in s : s \ {x} \in UpTo(S, n) /\ w[x] \in Nat
      BY <3>1, <3>2 DEF UpTo
    <3>4. \A x \in s : Good(s \ {x})
      BY <1>4, <3>3
    <3>5. f[s] = w[OneOf(s)] + f[s \ {OneOf(s)}]
      BY <1>1, <2>1, <3>1
    <3>6. ASSUME NEW x \in s, x # OneOf(s) PROVE f[s] = w[x] + f[s \ {x}]
      <4>. DEFINE rest == s \ {x, OneOf(s)}
      <4>1. (s \ {OneOf(s)}) \ {x} = rest /\ (s \ {x}) \ {OneOf(s)} = rest
        OBVIOUS
      <4>2. f[s \ {OneOf(s)}] = w[x] + f[rest]
        BY <3>2, <3>4, <3>6, <4>1
      <4>3. f[s \ {x}] = w[OneOf(s)] + f[rest] /\ f[s \ {x}] \in Nat
        BY <3>2, <3>4, <3>6, <4>1
      <4>4. f[rest] \in Nat
        <5>1. rest \in UpTo(S, n)
          <6>1. s \ {x} # {} /\ s \ {x} \in SUBSET S /\ OneOf(s) \in s \ {x}
            BY <3>1, <3>2, <3>6
          <6>2. Cardinality(rest) = Cardinality(s \ {x}) - 1
                /\ Cardinality(rest) \in Nat
            BY <4>1, <6>1, AnyOut
          <6>. QED
            BY <3>1, <3>2, <6>2 DEF UpTo
        <5>. QED
          BY <1>4, <5>1
      <4>. HIDE DEF rest
      <4>. QED
        <5>1. w[x] \in Nat /\ w[OneOf(s)] \in Nat
          BY <3>2, <3>3
        <5>. QED
          BY <3>5, <4>2, <4>3, <4>4, <5>1
    <3>7. f[s] \in Nat
      <4>1. w[OneOf(s)] \in Nat /\ f[s \ {OneOf(s)}] \in Nat
        BY <3>2, <3>3, <3>4
      <4>. QED
        BY <3>5, <4>1
    <3>. QED
      BY <3>5, <3>6, <3>7
  <2>. HIDE DEF Good
  <2>. QED
    BY <1>2, <2>1
<1>5. \A s \in SUBSET S : Good(s)
  <2>1. Nat \subseteq N
    <3>. HIDE DEF N
    <3>. QED
      BY <1>3, <1>4, NumberInduction
  <2>. HIDE DEF Good
  <2>2. \A s \in UpTo(S, Cardinality(S)) : Good(s)
    BY <2>1, FS_CardinalityType
  <2>. QED
    BY <2>2, AllSubsets
<1>6. f \in [SUBSET S -> Nat]
  BY <1>5 DEF IsSum
<1>. QED
  BY <1>2, <1>5, <1>6 DEF SumLaw

\* There is only one such function.
LEMMA SumUnique ==
    ASSUME NEW S, IsFiniteSet(S), NEW w \in [S -> Nat],
           NEW f, IsSum(S, w, f), NEW g, IsSum(S, w, g)
    PROVE  f = g
<1>. DEFINE N == {n \in Nat : \A s \in UpTo(S, n) : f[s] = g[s]}
<1>1. SumLaw(S, w, f) /\ SumLaw(S, w, g)
  BY SumStep
<1>2. 0 \in N
  BY <1>1, SmallSets DEF SumLaw
<1>3. ASSUME NEW n \in Nat, n \in N PROVE n + 1 \in N
  <2>1. ASSUME NEW s \in UpTo(S, n + 1), s # {} PROVE f[s] = g[s]
    <3>1. s \in SUBSET S /\ Cardinality(s) <= n + 1
      BY DEF UpTo
    <3>2. /\ OneOf(s) \in s /\ s \ {OneOf(s)} \in SUBSET S
          /\ Cardinality(s) \in Nat
          /\ Cardinality(s \ {OneOf(s)}) = Cardinality(s) - 1
      BY <2>1, <3>1, AnyOut
    <3>3. f[s \ {OneOf(s)}] = g[s \ {OneOf(s)}]
      BY <1>3, <3>1, <3>2 DEF UpTo
    <3>. QED
      BY <1>1, <3>1, <3>2, <3>3 DEF SumLaw
  <2>2. f[{}] = g[{}]
    BY <1>1 DEF SumLaw
  <2>3. \A s \in UpTo(S, n + 1) : f[s] = g[s]
    BY <2>1, <2>2
  <2>. QED
    BY <2>3
<1>4. Nat \subseteq N
  <2>. HIDE DEF N
  <2>. QED
    BY <1>2, <1>3, NumberInduction
<1>5. \A s \in SUBSET S : f[s] = g[s]
  BY <1>4, AllSubsets, FS_CardinalityType
<1>. QED
  BY <1>1, <1>5 DEF SumLaw

\* More elements do not make the sum smaller.
LEMMA SumMonotone ==
    ASSUME NEW S, IsFiniteSet(S), NEW w \in [S -> Nat],
           NEW f, IsSum(S, w, f), NEW U \in SUBSET S, NEW T \in SUBSET U
    PROVE  f[T] <= f[U]
<1>1. /\ f[{}] = 0 /\ f \in [SUBSET S -> Nat]
      /\ \A s \in SUBSET S : \A x \in s : f[s] = w[x] + f[s \ {x}]
  <2>1. SumLaw(S, w, f)
    BY SumStep
  <2>. QED
    BY <2>1 DEF SumLaw
<1>. DEFINE N == {n \in Nat : \A s \in UpTo(S, n) :
                                 \A t \in SUBSET s : f[t] <= f[s]}
<1>2. 0 \in N
  <2>1. f[{}] <= f[{}] /\ \A t \in SUBSET {} : t = {}
    BY <1>1
  <2>. QED
    BY <2>1, SmallSets
<1>3. ASSUME NEW n \in Nat, n \in N PROVE n + 1 \in N
  <2>1. ASSUME NEW s \in UpTo(S, n + 1), NEW t \in SUBSET s PROVE f[t] <= f[s]
    <3>1. s \in SUBSET S /\ Cardinality(s) <= n + 1
      BY DEF UpTo
    <3>2. CASE s = {}
      <4>1. t = {} /\ f[{}] <= f[{}]
        BY <1>1, <3>2
      <4>. QED
        BY <3>2, <4>1
    <3>3. CASE s # {}
      <4>. DEFINE a == OneOf(s)
      <4>1. /\ a \in s /\ Cardinality(s) \in Nat
            /\ Cardinality(s \ {a}) = Cardinality(s) - 1
        BY <3>1, <3>3, AnyOut
      <4>2. s \ {a} \in UpTo(S, n) /\ a \in S
        BY <3>1, <4>1 DEF UpTo
      <4>. HIDE DEF a
      <4>3. f[s] = w[a] + f[s \ {a}] /\ w[a] \in Nat /\ f[s \ {a}] \in Nat
        BY <1>1, <3>1, <4>1, <4>2
      <4>4. CASE a \in t
        <5>1. f[t] = w[a] + f[t \ {a}]
          BY <1>1, <3>1, <4>4
        <5>2. f[t \ {a}] <= f[s \ {a}] /\ f[t \ {a}] \in Nat
          BY <1>1, <1>3, <3>1, <4>2
        <5>. QED
          BY <4>3, <5>1, <5>2
      <4>5. CASE a \notin t
        <5>1. f[t] <= f[s \ {a}] /\ f[t] \in Nat
          BY <1>1, <1>3, <3>1, <4>2, <4>5
        <5>. QED
          BY <4>3, <5>1
      <4>. QED
        BY <4>4, <4>5
    <3>. QED
      BY <3>2, <3>3
  <2>. QED
    BY <2>1
<1>4. Nat \subseteq N
  <2>. HIDE DEF N
  <2>. QED
    BY <1>2, <1>3, NumberInduction
<1>. QED
  BY <1>4, AllSubsets, FS_CardinalityType

\* MapThenSumSet is this sum.
LEMMA SumOfSet ==
    ASSUME NEW S, IsFiniteSet(S), NEW w \in [S -> Nat], NEW f, IsSum(S, w, f)
    PROVE  MapThenSumSet(LAMBDA x : w[x], S) = f[S]
<1>. DEFINE chosen == CHOOSE g : IsSum(S, w, g)
<1>1. MapThenSumSet(LAMBDA x : w[x], S) = chosen[S]
  BY DEF MapThenSumSet, MapThenFoldSet, IsSum, OneOf
<1>2. IsSum(S, w, chosen)
  OBVIOUS
<1>. HIDE DEF chosen
<1>3. chosen = f
  BY <1>2, SumUnique
<1>. QED
  BY <1>1, <1>3

\* The greatest of a set of numbers that has a bound.
LEMMA Greatest ==
    ASSUME NEW b \in Nat, NEW S \in SUBSET (0..b), S # {}
    PROVE  Max(S) \in S /\ \A x \in S : x <= Max(S)
<1> DEFINE U == {k \in Nat : \A x \in S : x <= k}
<1>1. \A x \in S : x \in Nat /\ x <= b
  OBVIOUS
<1>2. b \in U
  BY <1>1
<1>3. PICK k \in U : \A m \in U : k <= m
  BY <1>2, LeastNatural
<1>4. k \in Nat /\ \A x \in S : x <= k
  BY <1>3
<1>5. k \in S
  <2>1. SUFFICES ASSUME k \notin S PROVE FALSE
    OBVIOUS
  <2>2. \A x \in S : x <= k - 1
    BY <1>1, <1>4, <2>1
  <2>3. k - 1 \in Nat
    <3>1. PICK x \in S : TRUE
      OBVIOUS
    <3>2. x \in Nat /\ x <= k - 1
      BY <1>1, <2>2
    <3>3. QED
      BY <1>4, <3>2
  <2>4. k - 1 \in U
    BY <2>2, <2>3
  <2>5. QED
    BY <1>3, <1>4, <2>4
<1>6. \A x \in S : k >= x
  BY <1>1, <1>4
<1>7. Max(S) \in S /\ \A x \in S : Max(S) >= x
  BY <1>5, <1>6 DEF Max
<1>8. QED
  BY <1>1, <1>7

-----------------------------------------------------------------------------
(* Folds.                                                                  *)

\* The set of the first k positions: its greatest, and the others.
LEMMA FirstPositions ==
    ASSUME NEW k \in Nat, k # 0
    PROVE  /\ 1..k # {} /\ Max(1..k) = k /\ (1..k) \ {k} = 1..(k - 1)
<1>1. k \in 1..k /\ 1..k \in SUBSET (0..k)
  OBVIOUS
<1>2. Max(1..k) \in 1..k /\ \A x \in 1..k : x <= Max(1..k)
  BY <1>1, Greatest
<1>3. Max(1..k) = k
  BY <1>1, <1>2
<1>4. (1..k) \ {k} = 1..(k - 1)
  OBVIOUS
<1>. QED
  BY <1>1, <1>3, <1>4

\* f takes the steps of a set of positions one after the other, the greatest
\* at the end.
IsFold(n, base, step, f) ==
    \A s \in SUBSET (1..n) :
        f[s] = IF s = {} THEN base ELSE step[Max(s)][f[s \ {Max(s)}]]

\* There is such a function.
LEMMA FoldExists ==
    ASSUME NEW V, NEW base \in V, NEW n \in Nat,
           NEW step \in [1..n -> [V -> V]]
    PROVE  \E f \in [SUBSET (1..n) -> V] : IsFold(n, base, step, f)
<1>. DEFINE S == 1..n
            Next(f, s) == IF s = {} THEN base
                          ELSE step[Max(s)][f[s \ {Max(s)}]]
            Good(m, f) == \A s \in UpTo(S, m) : f[s] = Next(f, s)
            N == {m \in Nat : \E f \in [SUBSET S -> V] : Good(m, f)}
<1>1. IsFiniteSet(S)
  BY FS_Interval
<1>2. \A s \in SUBSET S : s # {} =>
         /\ Max(s) \in s /\ Max(s) \in S /\ s \ {Max(s)} \in SUBSET S
         /\ Cardinality(s) \in Nat
         /\ Cardinality(s \ {Max(s)}) = Cardinality(s) - 1
  <2>1. SUFFICES ASSUME NEW s \in SUBSET S, s # {}
                 PROVE  /\ Max(s) \in s /\ Max(s) \in S
                        /\ s \ {Max(s)} \in SUBSET S
                        /\ Cardinality(s) \in Nat
                        /\ Cardinality(s \ {Max(s)}) = Cardinality(s) - 1
    OBVIOUS
  <2>2. s \in SUBSET (0..n)
    OBVIOUS
  <2>3. Max(s) \in s
    BY <2>1, <2>2, Greatest
  <2>. HIDE DEF S
  <2>. QED
    BY <1>1, <2>1, <2>3, AnyOut
<1>. HIDE DEF S
<1>3. 0 \in N
  <2>. DEFINE f == [s \in SUBSET S |-> base]
  <2>1. f[{}] = base /\ f \in [SUBSET S -> V]
    OBVIOUS
  <2>. HIDE DEF f
  <2>2. f \in [SUBSET S -> V] /\ Good(0, f)
    BY <1>1, <2>1, SmallSets
  <2>. HIDE DEF Good
  <2>. QED
    BY <2>2
<1>4. ASSUME NEW m \in Nat, m \in N PROVE m + 1 \in N
  <2>1. PICK f \in [SUBSET S -> V] : Good(m, f)
    BY <1>4
  <2>. DEFINE g == [s \in SUBSET S |-> Next(f, s)]
  <2>2. g \in [SUBSET S -> V]
    <3>1. ASSUME NEW s \in SUBSET S, s # {}
          PROVE  step[Max(s)][f[s \ {Max(s)}]] \in V
      <4>1. step[Max(s)] \in [V -> V] /\ f[s \ {Max(s)}] \in V
        BY <1>2, <3>1 DEF S
      <4>. QED
        BY <4>1
    <3>. QED
      BY <3>1
  <2>3. ASSUME NEW s \in UpTo(S, m + 1), s # {}
        PROVE  g[s] = step[Max(s)][g[s \ {Max(s)}]]
    <3>1. s \in SUBSET S /\ Cardinality(s) <= m + 1
      BY DEF UpTo
    <3>2. s \ {Max(s)} \in UpTo(S, m)
      BY <1>2, <2>3, <3>1 DEF UpTo
    <3>3. g[s \ {Max(s)}] = f[s \ {Max(s)}]
      BY <2>1, <3>2 DEF UpTo
    <3>. QED
      BY <2>3, <3>1, <3>3
  <2>4. {} \in SUBSET S /\ g[{}] = base
    OBVIOUS
  <2>5. Good(m + 1, g)
    <3>. HIDE DEF g
    <3>. QED
      BY <2>3, <2>4
  <2>. HIDE DEF g, Good
  <2>. QED
    BY <2>2, <2>5
<1>5. Nat \subseteq N
  <2>. HIDE DEF N
  <2>. QED
    BY <1>3, <1>4, NumberInduction
<1>6. Cardinality(S) \in Nat /\ UpTo(S, Cardinality(S)) = SUBSET S
  BY <1>1, FS_CardinalityType, AllSubsets
<1>7. PICK f \in [SUBSET S -> V] : Good(Cardinality(S), f)
  BY <1>5, <1>6
<1>8. \A s \in SUBSET S : f[s] = Next(f, s)
  BY <1>6, <1>7
<1>9. f \in [SUBSET (1..n) -> V] /\ IsFold(n, base, step, f)
  BY <1>8 DEF S, IsFold
<1>. QED
  BY <1>9

-----------------------------------------------------------------------------
(* Running totals.                                                         *)

\* r gives the sums of the first entries of w.
IsTotal(w, n, r) ==
    /\ r \in [0..n -> Nat] /\ r[0] = 0
    /\ \A k \in 1..n : r[k] = r[k - 1] + w[k]

\* There is only one sum.
LEMMA TotalUnique ==
    ASSUME NEW n \in Nat, NEW w, NEW v, NEW r, IsTotal(w, n, r),
           NEW q, IsTotal(v, n, q), \A k \in 1..n : w[k] = v[k]
    PROVE  r[n] = q[n]
<1>. DEFINE N == {k \in Nat : k <= n => r[k] = q[k]}
<1>1. 0 \in N
  BY DEF IsTotal
<1>2. ASSUME NEW k \in Nat, k \in N PROVE k + 1 \in N
  <2>1. SUFFICES ASSUME k + 1 <= n PROVE r[k + 1] = q[k + 1]
    OBVIOUS
  <2>2. k + 1 \in 1..n /\ (k + 1) - 1 = k /\ k <= n
    BY <2>1
  <2>. QED
    BY <1>2, <2>2 DEF IsTotal
<1>3. Nat \subseteq N
  <2>. HIDE DEF N
  <2>. QED
    BY <1>1, <1>2, NumberInduction
<1>. QED
  BY <1>3

\* One more entry.
LEMMA TotalLonger ==
    ASSUME NEW n \in Nat, NEW w, NEW r, IsTotal(w, n, r),
           NEW v, \A k \in 1..n : v[k] = w[k], v[n + 1] \in Nat
    PROVE  \E q : IsTotal(v, n + 1, q) /\ q[n + 1] = r[n] + v[n + 1]
<1>. DEFINE q == [k \in 0..(n + 1) |-> IF k = n + 1 THEN r[n] + v[n + 1]
                                       ELSE r[k]]
<1>1. /\ r \in [0..n -> Nat] /\ r[0] = 0
      /\ \A k \in 1..n : r[k] = r[k - 1] + w[k]
  BY DEF IsTotal
<1>2. r[n] \in Nat /\ r[n] + v[n + 1] \in Nat
  BY <1>1
<1>3. \A k \in 0..(n + 1) : k # n + 1 => k \in 0..n
  OBVIOUS
<1>4. q \in [0..(n + 1) -> Nat]
  BY <1>1, <1>2, <1>3
<1>5. q[0] = 0 /\ q[n + 1] = r[n] + v[n + 1] /\ \A k \in 0..n : q[k] = r[k]
  BY <1>1
<1>6. ASSUME NEW k \in 1..(n + 1) PROVE q[k] = q[k - 1] + v[k]
  <2>1. CASE k = n + 1
    <3>1. k - 1 = n /\ n \in 0..n
      BY <2>1
    <3>. HIDE DEF q
    <3>. QED
      BY <1>5, <2>1, <3>1
  <2>2. CASE k \in 1..n
    <3>1. k \in 0..n /\ k - 1 \in 0..n
      BY <2>2
    <3>. HIDE DEF q
    <3>. QED
      BY <1>1, <1>5, <2>2, <3>1
  <2>. QED
    BY <2>1, <2>2
<1>. HIDE DEF q
<1>7. IsTotal(v, n + 1, q)
  BY <1>4, <1>5, <1>6 DEF IsTotal
<1>. QED
  BY <1>5, <1>7

\* An entry that is struck out.
LEMMA TotalLowered ==
    ASSUME NEW n \in Nat, NEW w, NEW r, IsTotal(w, n, r), NEW i \in 1..n,
           \A k \in 1..n : w[k] \in Nat,
           NEW v, v[i] = 0, \A k \in 1..n : k # i => v[k] = w[k]
    PROVE  \E q : IsTotal(v, n, q) /\ q[n] = r[n] - w[i]
<1>1. /\ r \in [0..n -> Nat] /\ r[0] = 0
      /\ \A k \in 1..n : r[k] = r[k - 1] + w[k]
  BY DEF IsTotal
<1>2. \A k \in 0..n : r[k] \in Nat
  BY <1>1
<1>. DEFINE N == {k \in Nat : k >= i /\ k <= n => r[k] - w[i] \in Nat}
<1>3. 0 \in N
  OBVIOUS
<1>4. ASSUME NEW k \in Nat, k \in N PROVE k + 1 \in N
  <2>1. SUFFICES ASSUME k + 1 >= i, k + 1 <= n PROVE r[k + 1] - w[i] \in Nat
    OBVIOUS
  <2>2. /\ k + 1 \in 1..n /\ (k + 1) - 1 = k /\ k \in 0..n /\ k <= n
        /\ k + 1 \in 0..n
    BY <2>1
  <2>3. r[k + 1] = r[k] + w[k + 1] /\ r[k] \in Nat /\ r[k + 1] \in Nat
    BY <1>1, <1>2, <2>2
  <2>4. CASE k + 1 = i
    <3>. HIDE DEF N
    <3>. QED
      BY <2>3, <2>4
  <2>5. CASE k >= i
    <3>1. r[k] - w[i] \in Nat
      BY <1>4, <2>2, <2>5
    <3>2. k + 1 # i /\ w[k + 1] = v[k + 1]
      BY <2>2, <2>5
    <3>3. w[k + 1] \in Nat
      BY <2>2
    <3>. QED
      BY <2>3, <3>1, <3>3
  <2>. QED
    BY <2>1, <2>4, <2>5
<1>5. \A k \in 0..n : k >= i => r[k] - w[i] \in Nat
  <2>1. Nat \subseteq N
    <3>. HIDE DEF N
    <3>. QED
      BY <1>3, <1>4, NumberInduction
  <2>. QED
    BY <2>1
<1>. DEFINE q == [k \in 0..n |-> IF k >= i THEN r[k] - w[i] ELSE r[k]]
<1>6. q \in [0..n -> Nat]
  BY <1>2, <1>5
<1>7. \A k \in 0..n : q[k] = IF k >= i THEN r[k] - w[i] ELSE r[k]
  OBVIOUS
<1>. HIDE DEF q
<1>8. q[0] = 0 /\ q[n] = r[n] - w[i]
  <2>1. ~(0 >= i) /\ n >= i /\ 0 \in 0..n /\ n \in 0..n
    OBVIOUS
  <2>. QED
    BY <1>1, <1>7, <2>1
<1>9. ASSUME NEW k \in 1..n PROVE q[k] = q[k - 1] + v[k]
  <2>1. /\ k \in 0..n /\ k - 1 \in 0..n /\ w[i] \in Nat /\ w[k] \in Nat
        /\ r[k] \in Nat /\ r[k - 1] \in Nat /\ r[k] = r[k - 1] + w[k]
    <3>1. k \in 0..n /\ k - 1 \in 0..n
      OBVIOUS
    <3>. QED
      BY <1>1, <1>2, <3>1
  <2>2. CASE k < i
    <3>1. q[k] = r[k] /\ q[k - 1] = r[k - 1] /\ v[k] = w[k]
      BY <1>7, <2>1, <2>2
    <3>. QED
      BY <2>1, <3>1
  <2>3. CASE k = i
    <3>1. q[k] = r[k] - w[i] /\ q[k - 1] = r[k - 1] /\ v[k] = 0
      BY <1>7, <2>1, <2>3
    <3>. QED
      BY <2>1, <2>3, <3>1
  <2>4. CASE k > i
    <3>1. /\ q[k] = r[k] - w[i] /\ q[k - 1] = r[k - 1] - w[i]
          /\ v[k] = w[k]
      BY <1>7, <2>1, <2>4
    <3>. QED
      BY <2>1, <3>1
  <2>. QED
    BY <2>2, <2>3, <2>4
<1>10. IsTotal(v, n, q)
  BY <1>6, <1>8, <1>9 DEF IsTotal
<1>. QED
  BY <1>8, <1>10

\* f folds the numbers w[k] of those k of 1..n for which add[k] holds, the
\* greatest at the end.
NumberFold(n, add, w, f) ==
    f = [s \in SUBSET (1..n) |->
           IF s = {} THEN 0
           ELSE IF add[Max(s)] THEN f[s \ {Max(s)}] + w[Max(s)]
                ELSE f[s \ {Max(s)}]]

\* There is such a function.
LEMMA NumberFoldExists ==
    ASSUME NEW n \in Nat, NEW w \in [1..n -> Nat], NEW add
    PROVE  \E f : NumberFold(n, add, w, f)
<1>. DEFINE step == [k \in 1..n |-> [v \in Nat |->
                                        IF add[k] THEN v + w[k] ELSE v]]
<1>1. step \in [1..n -> [Nat -> Nat]]
  <2>1. ASSUME NEW k \in 1..n, NEW v \in Nat
        PROVE  (IF add[k] THEN v + w[k] ELSE v) \in Nat
    OBVIOUS
  <2>. QED
    BY <2>1
<1>2. 0 \in Nat
  OBVIOUS
<1>3. \A k \in 1..n : \A v \in Nat :
         step[k][v] = IF add[k] THEN v + w[k] ELSE v
  OBVIOUS
<1>. HIDE DEF step
<1>4. PICK f \in [SUBSET (1..n) -> Nat] : IsFold(n, 0, step, f)
  BY <1>1, <1>2, FoldExists
<1>5. ASSUME NEW s \in SUBSET (1..n), s # {}
      PROVE  step[Max(s)][f[s \ {Max(s)}]]
                = IF add[Max(s)] THEN f[s \ {Max(s)}] + w[Max(s)]
                  ELSE f[s \ {Max(s)}]
  <2>1. s \in SUBSET (0..n)
    OBVIOUS
  <2>2. Max(s) \in s
    BY <1>5, <2>1, Greatest
  <2>3. Max(s) \in 1..n /\ f[s \ {Max(s)}] \in Nat
    BY <2>2
  <2>. QED
    BY <1>3, <2>3
<1>6. NumberFold(n, add, w, f)
  BY <1>4, <1>5 DEF NumberFold, IsFold
<1>. QED
  BY <1>6

\* The numbers that are added, and 0 for those that are not.
Terms(n, add, w, v) == \A k \in 1..n : v[k] = IF add[k] THEN w[k] ELSE 0

\* It gives the total of the numbers that are added.
LEMMA NumberFoldTotal ==
    ASSUME NEW n \in Nat, NEW w \in [1..n -> Nat], NEW add,
           NEW f, NumberFold(n, add, w, f),
           NEW v, Terms(n, add, w, v)
    PROVE  \E r : IsTotal(v, n, r) /\ f[1..n] = r[n]
<1>. DEFINE r == [k \in 0..n |-> f[1..k]]
<1>1. \A s \in SUBSET (1..n) :
         f[s] = IF s = {} THEN 0
                ELSE IF add[Max(s)] THEN f[s \ {Max(s)}] + w[Max(s)]
                     ELSE f[s \ {Max(s)}]
  BY DEF NumberFold
<1>2. r[0] = 0
  <2>1. 1..0 = {} /\ 0 \in 0..n
    OBVIOUS
  <2>. QED
    BY <1>1, <2>1
<1>3. ASSUME NEW k \in 1..n
      PROVE  r[k] = IF add[k] THEN r[k - 1] + w[k] ELSE r[k - 1]
  <2>1. /\ k \in Nat /\ k # 0 /\ 1..k \in SUBSET (1..n)
        /\ k \in 0..n /\ k - 1 \in 0..n
    OBVIOUS
  <2>2. /\ 1..k # {} /\ Max(1..k) = k /\ (1..k) \ {k} = 1..(k - 1)
    BY <2>1, FirstPositions
  <2>3. f[1..k] = IF add[k] THEN f[1..(k - 1)] + w[k] ELSE f[1..(k - 1)]
    <3>. DEFINE s == 1..k
    <3>1. f[s] = IF s = {} THEN 0
                 ELSE IF add[Max(s)] THEN f[s \ {Max(s)}] + w[Max(s)]
                      ELSE f[s \ {Max(s)}]
      BY <1>1, <2>1
    <3>2. s # {} /\ Max(s) = k /\ s \ {k} = 1..(k - 1)
      BY <2>2
    <3>. HIDE DEF s
    <3>3. f[s] = IF add[k] THEN f[1..(k - 1)] + w[k] ELSE f[1..(k - 1)]
      BY <3>1, <3>2
    <3>. QED
      BY <3>3 DEF s
  <2>. QED
    BY <2>1, <2>3
<1>. DEFINE N == {k \in Nat : k <= n => r[k] \in Nat}
<1>4. \A k \in 0..n : r[k] \in Nat
  <2>1. 0 \in N
    BY <1>2
  <2>2. ASSUME NEW k \in Nat, k \in N PROVE k + 1 \in N
    <3>1. SUFFICES ASSUME k + 1 <= n PROVE r[k + 1] \in Nat
      OBVIOUS
    <3>2. k + 1 \in 1..n /\ (k + 1) - 1 = k /\ r[k] \in Nat
      BY <2>2, <3>1
    <3>3. w[k + 1] \in Nat
      BY <3>2
    <3>. HIDE DEF r
    <3>. QED
      BY <1>3, <3>2, <3>3
  <2>3. Nat \subseteq N
    <3>. HIDE DEF N
    <3>. QED
      BY <2>1, <2>2, NumberInduction
  <2>4. ASSUME NEW k \in 0..n PROVE r[k] \in Nat
    <3>1. k \in Nat /\ k <= n
      OBVIOUS
    <3>. HIDE DEF r
    <3>. QED
      BY <2>3, <3>1
  <2>. QED
    BY <2>4
<1>5. \A k \in 1..n : r[k] = r[k - 1] + v[k]
  <2>1. ASSUME NEW k \in 1..n PROVE r[k] = r[k - 1] + v[k]
    <3>1. r[k - 1] \in Nat
      BY <1>4
    <3>2. v[k] = IF add[k] THEN w[k] ELSE 0
      BY DEF Terms
    <3>. HIDE DEF r
    <3>. QED
      BY <1>3, <3>1, <3>2
  <2>. QED
    BY <2>1
<1>6. r \in [0..n -> Nat] /\ r[n] = f[1..n]
  BY <1>4
<1>. HIDE DEF r
<1>7. IsTotal(v, n, r)
  BY <1>2, <1>5, <1>6 DEF IsTotal
<1>. QED
  BY <1>6, <1>7

-----------------------------------------------------------------------------
(* Sequences of sequences, joined into one.                                *)

\* r joins the first of the sequences in ss.
IsJoined(S, ss, n, r) ==
    /\ r \in [0..n -> Seq(S)] /\ r[0] = <<>>
    /\ \A k \in 1..n : r[k] = r[k - 1] \o ss[k]

\* One more of them.
LEMMA JoinedLonger ==
    ASSUME NEW S, NEW n \in Nat, NEW ss, NEW r, IsJoined(S, ss, n, r),
           NEW zz, \A k \in 1..n : zz[k] = ss[k], zz[n + 1] \in Seq(S)
    PROVE  \E q : IsJoined(S, zz, n + 1, q) /\ \A k \in 0..n : q[k] = r[k]
<1>. DEFINE q == [k \in 0..(n + 1) |-> IF k = n + 1 THEN r[n] \o zz[n + 1]
                                       ELSE r[k]]
<1>1. /\ r \in [0..n -> Seq(S)] /\ r[0] = <<>>
      /\ \A k \in 1..n : r[k] = r[k - 1] \o ss[k]
  BY DEF IsJoined
<1>2. r[n] \in Seq(S) /\ r[n] \o zz[n + 1] \in Seq(S)
  BY <1>1
<1>3. \A k \in 0..(n + 1) : k # n + 1 => k \in 0..n
  OBVIOUS
<1>4. q \in [0..(n + 1) -> Seq(S)]
  BY <1>1, <1>2, <1>3
<1>5. /\ q[0] = <<>> /\ q[n + 1] = r[n] \o zz[n + 1]
      /\ \A k \in 0..n : q[k] = r[k]
  <2>1. /\ n + 1 \in 0..(n + 1) /\ 0 \in 0..n
        /\ \A k \in 0..n : k \in 0..(n + 1) /\ k # n + 1
    OBVIOUS
  <2>2. q[n + 1] = r[n] \o zz[n + 1] /\ \A k \in 0..n : q[k] = r[k]
    BY <2>1
  <2>. HIDE DEF q
  <2>. QED
    BY <1>1, <2>1, <2>2
<1>6. ASSUME NEW k \in 1..(n + 1) PROVE q[k] = q[k - 1] \o zz[k]
  <2>. k = n + 1 \/ k \in 1..n
    OBVIOUS
  <2>1. CASE k = n + 1
    <3>1. k - 1 = n /\ n \in 0..n
      BY <2>1
    <3>. HIDE DEF q
    <3>. QED
      BY <1>5, <2>1, <3>1
  <2>2. CASE k \in 1..n
    <3>1. k \in 0..n /\ k - 1 \in 0..n
      BY <2>2
    <3>. HIDE DEF q
    <3>. QED
      BY <1>1, <1>5, <2>2, <3>1
  <2>. QED
    BY <2>1, <2>2
<1>. HIDE DEF q
<1>7. IsJoined(S, zz, n + 1, q)
  BY <1>4, <1>5, <1>6 DEF IsJoined
<1>. QED
  BY <1>5, <1>7

\* All sequences can be joined.
LEMMA JoinedExists ==
    ASSUME NEW S, NEW ss \in Seq(Seq(S))
    PROVE  \E r : IsJoined(S, ss, Len(ss), r)
<1>. DEFINE N == {k \in Nat : k <= Len(ss) => \E r : IsJoined(S, ss, k, r)}
<1>1. Len(ss) \in Nat /\ \A k \in 1..Len(ss) : ss[k] \in Seq(S)
  OBVIOUS
<1>2. 0 \in N
  <2>. DEFINE r == [k \in 0..0 |-> <<>>]
  <2>1. r \in [0..0 -> Seq(S)] /\ r[0] = <<>> /\ 1..0 = {}
    OBVIOUS
  <2>. HIDE DEF r
  <2>2. IsJoined(S, ss, 0, r)
    BY <2>1 DEF IsJoined
  <2>. QED
    BY <2>2
<1>3. ASSUME NEW k \in Nat, k \in N PROVE k + 1 \in N
  <2>1. SUFFICES ASSUME k + 1 <= Len(ss) PROVE \E r : IsJoined(S, ss, k + 1, r)
    OBVIOUS
  <2>2. k <= Len(ss) /\ k + 1 \in 1..Len(ss)
    BY <1>1, <2>1
  <2>3. PICK r : IsJoined(S, ss, k, r)
    BY <1>3, <2>2
  <2>4. ss[k + 1] \in Seq(S) /\ \A j \in 1..k : ss[j] = ss[j]
    BY <1>1, <2>2
  <2>. QED
    BY <2>3, <2>4, JoinedLonger
<1>4. Nat \subseteq N
  <2>. HIDE DEF N
  <2>. QED
    BY <1>2, <1>3, NumberInduction
<1>. QED
  BY <1>1, <1>4

\* FlattenSeq joins them all.
LEMMA FlattenIsJoined ==
    ASSUME NEW S, NEW ss \in Seq(Seq(S)), NEW r, IsJoined(S, ss, Len(ss), r)
    PROVE  FlattenSeq(ss) = r[Len(ss)]
<1>. DEFINE n == Len(ss)
            Law(f) == f = [i \in 1..n |-> IF i = 1 THEN ss[i]
                                          ELSE f[i - 1] \o ss[i]]
            chosen == CHOOSE f : Law(f)
            g == [k \in 1..n |-> r[k]]
<1>1. n \in Nat /\ \A k \in 1..n : ss[k] \in Seq(S)
  OBVIOUS
<1>2. /\ r \in [0..n -> Seq(S)] /\ r[0] = <<>>
      /\ \A k \in 1..n : r[k] = r[k - 1] \o ss[k]
  BY DEF IsJoined
<1>3. CASE n = 0
  <2>1. ss = <<>>
    BY <1>3
  <2>2. FlattenSeq(ss) = <<>>
    BY <1>3, <2>1 DEF FlattenSeq
  <2>. QED
    BY <1>2, <1>3, <2>2
<1>4. CASE n # 0
  <2>1. FlattenSeq(ss) = chosen[n]
    BY <1>4 DEF FlattenSeq
  <2>2. r[1] = ss[1] /\ 1 \in 1..n
    <3>1. 1 \in 1..n /\ 1 - 1 = 0
      BY <1>1, <1>4
    <3>2. r[1] = <<>> \o ss[1] /\ ss[1] \in Seq(S)
      BY <1>1, <1>2, <3>1
    <3>. QED
      BY <3>1, <3>2
  <2>3. Law(g)
    <3>1. ASSUME NEW k \in 1..n
          PROVE  g[k] = IF k = 1 THEN ss[k] ELSE g[k - 1] \o ss[k]
      <4>1. CASE k = 1
        BY <2>2, <4>1
      <4>2. CASE k # 1
        <5>. HIDE DEF n, Law
        <5>1. k - 1 \in 1..n
          BY <1>1, <4>2
        <5>2. r[k] = r[k - 1] \o ss[k]
          BY <1>2
        <5>. QED
          BY <4>2, <5>1, <5>2
      <4>. QED
        BY <4>1, <4>2
    <3>. QED
      BY <3>1
  <2>4. Law(chosen)
    <3>. HIDE DEF g, Law
    <3>. QED
      BY <2>3
  <2>. HIDE DEF chosen
  <2>5. \A k \in 1..n : chosen[k] = IF k = 1 THEN ss[k]
                                    ELSE chosen[k - 1] \o ss[k]
    BY <2>4
  <2>. DEFINE N == {k \in Nat : k \in 1..n => chosen[k] = r[k]}
  <2>6. 0 \in N
    OBVIOUS
  <2>7. ASSUME NEW k \in Nat, k \in N PROVE k + 1 \in N
    <3>1. SUFFICES ASSUME k + 1 \in 1..n PROVE chosen[k + 1] = r[k + 1]
      OBVIOUS
    <3>2. CASE k = 0
      <4>1. k + 1 = 1
        BY <3>2
      <4>. QED
        BY <2>2, <2>5, <4>1
    <3>3. CASE k # 0
      <4>1. k \in 1..n /\ k + 1 # 1 /\ (k + 1) - 1 = k
        BY <3>1, <3>3
      <4>2. chosen[k + 1] = chosen[k] \o ss[k + 1] /\ chosen[k] = r[k]
        BY <2>5, <2>7, <3>1, <4>1
      <4>3. r[k + 1] = r[k] \o ss[k + 1]
        BY <1>2, <3>1, <4>1
      <4>. QED
        BY <4>2, <4>3
    <3>. QED
      BY <3>2, <3>3
  <2>8. Nat \subseteq N
    <3>. HIDE DEF N
    <3>. QED
      BY <2>6, <2>7, NumberInduction
  <2>9. n \in 1..n
    BY <1>1, <1>4
  <2>. QED
    BY <2>1, <2>8, <2>9
<1>. QED
  BY <1>3, <1>4

\* A sequence more is joined at the end.
LEMMA FlattenLonger ==
    ASSUME NEW S, NEW ss \in Seq(Seq(S)), NEW t \in Seq(S)
    PROVE  /\ FlattenSeq(Append(ss, t)) = FlattenSeq(ss) \o t
           /\ FlattenSeq(ss) \in Seq(S)
<1>. DEFINE n == Len(ss)
            zz == Append(ss, t)
<1>1. /\ n \in Nat /\ zz \in Seq(Seq(S)) /\ Len(zz) = n + 1
      /\ zz[n + 1] = t /\ zz[n + 1] \in Seq(S)
      /\ \A k \in 1..n : zz[k] = ss[k]
  OBVIOUS
<1>. HIDE DEF zz
<1>2. PICK r : IsJoined(S, ss, n, r)
  BY JoinedExists
<1>. HIDE DEF n
<1>3. PICK q : IsJoined(S, zz, n + 1, q) /\ \A k \in 0..n : q[k] = r[k]
  <2>1. n \in Nat /\ zz[n + 1] \in Seq(S) /\ \A k \in 1..n : zz[k] = ss[k]
    BY <1>1
  <2>. QED
    BY <1>2, <2>1, JoinedLonger
<1>4. FlattenSeq(ss) = r[n] /\ FlattenSeq(zz) = q[n + 1]
  BY <1>1, <1>2, <1>3, FlattenIsJoined DEF n
<1>5. r[n] \in Seq(S)
  <2>1. n \in 0..n /\ r \in [0..n -> Seq(S)]
    BY <1>1, <1>2 DEF IsJoined
  <2>. QED
    BY <2>1
<1>6. q[n + 1] = r[n] \o t
  <2>1. /\ n + 1 \in 1..(n + 1) /\ (n + 1) - 1 = n /\ n \in 0..n
    BY <1>1
  <2>2. q[n + 1] = q[n] \o zz[n + 1] /\ q[n] = r[n]
    BY <1>3, <2>1 DEF IsJoined
  <2>. QED
    BY <1>1, <2>2
<1>. QED
  BY <1>4, <1>5, <1>6 DEF zz, n

-----------------------------------------------------------------------------
\* Numbered elements, none of which comes twice, are as many as the numbers.
LEMMA CountNumbered ==
    ASSUME NEW n \in Nat, NEW f,
           \A i, j \in 1..n : f[i] = f[j] => i = j,
           NEW T, T = {f[i] : i \in 1..n}
    PROVE  IsFiniteSet(T) /\ Cardinality(T) = n
<1>. DEFINE g == [i \in 1..n |-> f[i]]
<1>1. g \in Bijection(1..n, T)
  <2>1. g \in [1..n -> T] /\ \A i \in 1..n : g[i] = f[i]
    OBVIOUS
  <2>2. \A t \in T : \E i \in 1..n : g[i] = t
    OBVIOUS
  <2>. HIDE DEF g
  <2>3. \A i, j \in 1..n : g[i] = g[j] => i = j
    BY <2>1
  <2>4. DOMAIN g = 1..n
    BY <2>1
  <2>. QED
    BY <2>1, <2>2, <2>3, <2>4 DEF Bijection, Injection, IsInjective, Surjection
<1>2. IsFiniteSet(1..n) /\ Cardinality(1..n) = n
  BY FS_Interval
<1>. HIDE DEF g
<1>3. ExistsBijection(1..n, T)
  BY <1>1 DEF ExistsBijection
<1>. QED
  BY <1>2, <1>3, FS_Bijection
=============================================================================
