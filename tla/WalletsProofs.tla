---------------------------- MODULE WalletsProofs ----------------------------
(***************************************************************************)
(* Proofs about Wallets, for any number of processes, wallets, phrases and *)
(* revisions.  The first part is about KeyTable: its functions leave a     *)
(* table sound that is sound, and keep the names and indices they should.  *)
(* The invariant of the second says that every file that may be the        *)
(* vault's is sound, that what a command has shown or changed is true of   *)
(* the revision it took it from, and that no file has fallen behind an     *)
(* address that was printed.                                               *)
(***************************************************************************)
EXTENDS Wallets, DataTheorems

-----------------------------------------------------------------------------
(* The key table.                                                          *)

\* A derived wallet refers to a master that is there, has an index that was
\* handed out, and the address that is derived from both.
Refers(t, a) ==
    a.kind = "derived" =>
        /\ a.master \in 1..Len(t.masters)
        /\ a.index < t.masters[a.master].next
        /\ a.address = <<t.masters[a.master].entropy, a.index>>

OneNameEach(t) ==
    \A i, j \in 1..Len(t.accounts) :
        t.accounts[i].name = t.accounts[j].name => i = j

\* The tables that a sequence of commands leads to.
Sound(t) ==
    /\ t \in Tables
    /\ Len(t.masters) <= MaxMasters
    /\ Len(t.accounts) <= MaxAccounts
    /\ IsFiniteSet(t.recipients) /\ Cardinality(t.recipients) <= MaxRecipients
    /\ OneNameEach(t)
    /\ \A i \in 1..Len(t.accounts) : Refers(t, t.accounts[i])

\* The vault will not derive address a again: a copy of its phrase is past it.
Ahead(t, a) ==
    \E m \in 1..Len(t.masters) :
        t.masters[m].entropy = a[1] /\ a[2] < t.masters[m].next

\* No phrase that stays in the table falls back behind an address.
KeepsAhead(t, u) ==
    \A m \in 1..Len(t.masters) :
        t.masters[m].entropy \in Phrases(u) =>
            \E k \in 1..Len(u.masters) :
                /\ u.masters[k].entropy = t.masters[m].entropy
                /\ t.masters[m].next <= u.masters[k].next

\* No wallet is gone.
KeepsNames(t, u) == \A a \in Accounts(t) : HasName(u, a.name)

-----------------------------------------------------------------------------
(* What the records of a table look like.                                  *)

\* The fields of an account.
LEMMA AccountFields ==
    ASSUME NEW a \in AccountRecords
    PROVE  /\ a.name \in Names /\ a.address \in Keys
           /\ a.kind \in {"derived", "imported"}
           /\ a.kind = "derived" =>
                 a.master \in 1..MaxMasters /\ a.index \in 0..(MaxIndex - 1)
           /\ a.kind = "imported" => a.master = 0 /\ a.index = 0
  BY DEF AccountRecords

\* The accounts that the functions build.
LEMMA AccountBuilt ==
    ASSUME NEW n \in Names
    PROVE  /\ \A e, m, i : e \in Entropies /\ m \in 1..MaxMasters
                              /\ i \in 0..(MaxIndex - 1) =>
                 DerivedAccount(n, e, m, i) \in AccountRecords
           /\ \A key \in Keys : ImportedAccount(n, key) \in AccountRecords
  BY DEF AccountRecords, DerivedAccount, ImportedAccount, Keys

\* The parts of a sound table.
LEMMA SoundParts ==
    ASSUME NEW t, Sound(t)
    PROVE  /\ t = [masters |-> t.masters, accounts |-> t.accounts,
                   recipients |-> t.recipients]
           /\ t.masters \in Seq(Masters) /\ t.accounts \in Seq(AccountRecords)
           /\ DOMAIN t.masters = 1..Len(t.masters)
           /\ DOMAIN t.accounts = 1..Len(t.accounts)
           /\ Len(t.masters) \in 0..MaxMasters
           /\ Len(t.accounts) \in 0..MaxAccounts
           /\ t.recipients \in SUBSET Recipients
           /\ \A m \in 1..Len(t.masters) :
                 /\ t.masters[m] \in Masters
                 /\ t.masters[m].entropy \in Entropies
                 /\ t.masters[m].next \in 1..MaxIndex
           /\ \A i \in 1..Len(t.accounts) : t.accounts[i] \in AccountRecords
<1>1. t \in Tables
  BY DEF Sound
<1>2. /\ t.masters \in Seq(Masters) /\ t.accounts \in Seq(AccountRecords)
      /\ t.recipients \in SUBSET Recipients
      /\ t = [masters |-> t.masters, accounts |-> t.accounts,
              recipients |-> t.recipients]
  BY <1>1 DEF Tables
<1>3. /\ \A m \in 1..Len(t.masters) : t.masters[m] \in Masters
      /\ \A i \in 1..Len(t.accounts) : t.accounts[i] \in AccountRecords
      /\ Len(t.masters) \in Nat /\ Len(t.accounts) \in Nat
      /\ DOMAIN t.masters = 1..Len(t.masters)
      /\ DOMAIN t.accounts = 1..Len(t.accounts)
  BY <1>2
<1>4. /\ Len(t.masters) \in 0..MaxMasters
      /\ Len(t.accounts) \in 0..MaxAccounts
  BY <1>3, LimitsAssumption DEF Sound
<1>5. \A m \in Masters : m.entropy \in Entropies /\ m.next \in 1..MaxIndex
  BY DEF Masters
<1>6. QED
  BY <1>2, <1>3, <1>4, <1>5

\* The wallets and the phrases of a table, by position.
LEMMA ByPosition ==
    ASSUME NEW t, Sound(t)
    PROVE  /\ Accounts(t) = {t.accounts[i] : i \in 1..Len(t.accounts)}
           /\ Phrases(t) = {t.masters[m].entropy : m \in 1..Len(t.masters)}
           /\ \A n : HasName(t, n) <=>
                        \E i \in 1..Len(t.accounts) : t.accounts[i].name = n
<1>1. /\ DOMAIN t.masters = 1..Len(t.masters)
      /\ DOMAIN t.accounts = 1..Len(t.accounts)
  BY SoundParts
<1>2. Accounts(t) = {t.accounts[i] : i \in 1..Len(t.accounts)}
  BY <1>1 DEF Accounts, Range
<1>3. Phrases(t) = {t.masters[m].entropy : m \in 1..Len(t.masters)}
  BY <1>1 DEF Phrases, Range
<1>4. QED
  BY <1>2, <1>3 DEF HasName

\* The wallet with a name, and what it refers to.
LEMMA NamedAccount ==
    ASSUME NEW t, Sound(t), NEW i \in 1..Len(t.accounts)
    PROVE  /\ AccountNamed(t, t.accounts[i].name) = t.accounts[i]
           /\ Position(t, t.accounts[i].name) = i
<1>1. DOMAIN t.accounts = 1..Len(t.accounts)
  BY SoundParts
<1>2. \A j \in 1..Len(t.accounts) :
         t.accounts[j].name = t.accounts[i].name => j = i
  BY DEF Sound, OneNameEach
<1>3. Position(t, t.accounts[i].name) = i
  BY <1>1, <1>2 DEF Position
<1>4. Accounts(t) = {t.accounts[j] : j \in 1..Len(t.accounts)}
  BY ByPosition
<1>5. AccountNamed(t, t.accounts[i].name) = t.accounts[i]
  BY <1>2, <1>4 DEF AccountNamed
<1>6. QED
  BY <1>3, <1>5

\* A name that is in the table has a wallet and a position.
LEMMA NameFound ==
    ASSUME NEW t, Sound(t), NEW n, HasName(t, n)
    PROVE  /\ Position(t, n) \in 1..Len(t.accounts)
           /\ AccountNamed(t, n) = t.accounts[Position(t, n)]
           /\ AccountNamed(t, n) \in AccountRecords
           /\ AccountNamed(t, n) \in Accounts(t)
           /\ AccountNamed(t, n).name = n
           /\ Refers(t, AccountNamed(t, n))
<1>1. PICK i \in 1..Len(t.accounts) : t.accounts[i].name = n
  BY ByPosition
<1>2. AccountNamed(t, n) = t.accounts[i] /\ Position(t, n) = i
  BY <1>1, NamedAccount
<1>3. t.accounts[i] \in AccountRecords /\ Refers(t, t.accounts[i])
  BY SoundParts DEF Sound
<1>4. t.accounts[i] \in Accounts(t)
  BY ByPosition
<1>5. QED
  BY <1>1, <1>2, <1>3, <1>4

-----------------------------------------------------------------------------
(* A sound table.                                                          *)

\* decode takes it, and every wallet leads to the address beside it.
LEMMA SoundIsGood ==
    ASSUME NEW t, Sound(t)
    PROVE  /\ Decodable(t)
           /\ \A a \in Accounts(t) :
                 /\ a.kind = "derived" => a.master \in DOMAIN t.masters
                 /\ KeyOf(t, a) = a.address
                 /\ a.address \in Keys
<1>1. ASSUME NEW a \in Accounts(t)
      PROVE  /\ AccountValid(t, a)
             /\ a.kind = "derived" => a.master \in DOMAIN t.masters
             /\ KeyOf(t, a) = a.address /\ a.address \in Keys
  <2>1. PICK i \in 1..Len(t.accounts) : a = t.accounts[i]
    BY ByPosition
  <2>2. a \in AccountRecords /\ Refers(t, a)
    BY <2>1, SoundParts DEF Sound
  <2>3. /\ a.kind \in {"derived", "imported"} /\ a.address \in Keys
        /\ a.kind = "derived" => a.index \in 0..(MaxIndex - 1)
    BY <2>2, AccountFields
  <2>4. DOMAIN t.masters = 1..Len(t.masters)
    BY SoundParts
  <2>5. MaxIndex \in Nat
    BY LimitsAssumption
  <2>6. QED
    BY <2>2, <2>3, <2>4, <2>5 DEF Refers, AccountValid, KeyOf, PhraseOf
<1>2. \A m \in Range(t.masters) : MasterValid(m)
  <2>1. ASSUME NEW m \in Range(t.masters) PROVE MasterValid(m)
    <3>1. PICK k \in 1..Len(t.masters) : m = t.masters[k]
      BY SoundParts DEF Range
    <3>2. m.next \in 1..MaxIndex
      BY <3>1, SoundParts
    <3>3. QED
      BY <3>2, LimitsAssumption DEF MasterValid
  <2>2. QED
    BY <2>1
<1>3. \A i, j \in DOMAIN t.accounts :
         t.accounts[i].name = t.accounts[j].name => i = j
  BY SoundParts DEF Sound, OneNameEach
<1>4. Decodable(t)
  BY <1>1, <1>2, <1>3 DEF Decodable, Sound
<1>5. QED
  BY <1>1, <1>4

\* The empty vault is sound.
LEMMA EmptyIsSound == Sound(Empty)
<1>1. Empty \in Tables /\ Empty.masters = <<>> /\ Empty.accounts = <<>>
      /\ Empty.recipients = {}
  BY DEF Empty, Tables
<1>2. IsFiniteSet({}) /\ Cardinality({}) = 0
  BY FS_EmptySet
<1>3. Len(<<>>) = 0
  OBVIOUS
<1>4. QED
  BY <1>1, <1>2, <1>3, LimitsAssumption DEF Sound, OneNameEach

-----------------------------------------------------------------------------
(* Adding to a table.                                                      *)

\* Nothing of t is gone in u.
Keeps(t, u) ==
    /\ Sound(u)
    /\ KeepsAhead(t, u)
    /\ KeepsNames(t, u)
    /\ Phrases(t) \subseteq Phrases(u)

\* The only wallet that u has and t has not is a, its last one.
OnlyNew(t, u, a) ==
    /\ \A b \in Accounts(u) : ~HasName(t, b.name) => b = a
    /\ Last(u.accounts) = a

\* A wallet with a new name goes behind the others; each master may advance,
\* and further ones may follow.
LEMMA AccountAdded ==
    ASSUME NEW t, Sound(t), NEW ms \in Seq(Masters), NEW a \in AccountRecords,
           ~HasName(t, a.name), Len(t.accounts) < MaxAccounts,
           Len(t.masters) <= Len(ms), Len(ms) <= MaxMasters,
           \A m \in 1..Len(t.masters) :
               /\ ms[m].entropy = t.masters[m].entropy
               /\ t.masters[m].next <= ms[m].next,
           NEW u \in Tables, u.masters = ms,
           u.accounts = Append(t.accounts, a), u.recipients = t.recipients,
           Refers(u, a)
    PROVE  Keeps(t, u) /\ OnlyNew(t, u, a)
<1> DEFINE n == Len(t.accounts)
<1>1. /\ t.accounts \in Seq(AccountRecords) /\ n \in 0..MaxAccounts
      /\ \A m \in 1..Len(t.masters) : t.masters[m].next \in 1..MaxIndex
      /\ \A i \in 1..n : t.accounts[i] \in AccountRecords
      /\ t.recipients \in SUBSET Recipients
      /\ Len(t.masters) \in 0..MaxMasters
  BY SoundParts
<1>2. /\ u.masters = ms /\ u.accounts = Append(t.accounts, a)
      /\ u.recipients = t.recipients
  OBVIOUS
<1>3. /\ u.accounts \in Seq(AccountRecords) /\ Len(u.accounts) = n + 1
      /\ \A i \in 1..n : u.accounts[i] = t.accounts[i]
      /\ u.accounts[n + 1] = a
  BY <1>1, <1>2
<1>5. /\ Len(ms) \in Nat /\ MaxIndex \in Nat /\ MaxAccounts \in Nat
      /\ \A m \in 1..Len(ms) : ms[m].next \in 1..MaxIndex
  <2>1. \A m \in 1..Len(ms) : ms[m] \in Masters
    OBVIOUS
  <2>2. QED
    BY <2>1, LimitsAssumption DEF Masters
<1>6. ASSUME NEW i \in 1..(n + 1) PROVE Refers(u, u.accounts[i])
  <2>1. CASE i = n + 1
    BY <2>1, <1>3
  <2>2. CASE i \in 1..n
    <3>1. Refers(t, t.accounts[i])
      BY <2>2 DEF Sound
    <3>2. t.accounts[i].kind = "derived" =>
              t.accounts[i].index \in 0..(MaxIndex - 1)
      BY <2>2, <1>1, AccountFields
    <3>3. u.accounts[i] = t.accounts[i]
      BY <2>2, <1>3
    <3>4. SUFFICES ASSUME t.accounts[i].kind = "derived"
                   PROVE  LET b == t.accounts[i] IN
                          /\ b.master \in 1..Len(ms)
                          /\ b.index < ms[b.master].next
                          /\ b.address = <<ms[b.master].entropy, b.index>>
      BY <3>3, <1>2 DEF Refers
    <3> DEFINE m == t.accounts[i].master
               j == t.accounts[i].index
    <3>5. /\ m \in 1..Len(t.masters) /\ j < t.masters[m].next
          /\ t.accounts[i].address = <<t.masters[m].entropy, j>>
          /\ j \in 0..(MaxIndex - 1)
      BY <3>1, <3>2, <3>4 DEF Refers
    <3>6. m \in 1..Len(ms)
      BY <3>5, <1>1, <1>5
    <3>7. /\ ms[m].entropy = t.masters[m].entropy
          /\ t.masters[m].next <= ms[m].next
      BY <3>5
    <3>9. t.masters[m].next \in Int /\ ms[m].next \in Int /\ j \in Int
      <4>1. MaxIndex \in Int
        BY <1>5
      <4>2. \A x \in 1..MaxIndex : x \in Int
        BY <4>1
      <4>3. \A x \in 0..(MaxIndex - 1) : x \in Int
        BY <4>1
      <4>4. t.masters[m].next \in 1..MaxIndex
        BY <3>5, <1>1
      <4>5. ms[m].next \in 1..MaxIndex
        BY <3>6, <1>5
      <4>6. QED
        BY <4>2, <4>3, <4>4, <4>5, <3>5
    <3>10. j < ms[m].next
      <4>1. \A x, y, z \in Int : x < y /\ y <= z => x < z
        OBVIOUS
      <4>2. QED
        BY <4>1, <3>5, <3>7, <3>9
    <3>8. QED
      BY <3>5, <3>6, <3>7, <3>10
  <2>3. QED
    BY <2>1, <2>2, <1>1
<1>7. \A i \in 1..n : t.accounts[i].name # a.name
  BY ByPosition
<1>8. OneNameEach(u)
  <2>1. SUFFICES ASSUME NEW i \in 1..(n + 1), NEW j \in 1..(n + 1),
                        u.accounts[i].name = u.accounts[j].name
                 PROVE  i = j
    BY <1>3 DEF OneNameEach
  <2>2. \A k, l \in 1..n : t.accounts[k].name = t.accounts[l].name => k = l
    BY DEF Sound, OneNameEach
  <2>3. (i \in 1..n \/ i = n + 1) /\ (j \in 1..n \/ j = n + 1)
    BY <1>1
  <2>4. QED
    BY <2>1, <2>2, <2>3, <1>3, <1>7
<1>9. n + 1 <= MaxAccounts
  BY <1>1, <1>5
<1>10. Sound(u)
  BY <1>2, <1>3, <1>6, <1>8, <1>9 DEF Sound
<1>11. Phrases(t) \subseteq Phrases(u)
  <2>1. /\ Phrases(t) = {t.masters[m].entropy : m \in 1..Len(t.masters)}
        /\ Phrases(u) = {u.masters[m].entropy : m \in 1..Len(u.masters)}
    BY <1>10, ByPosition
  <2>2. \A m \in 1..Len(t.masters) :
           m \in 1..Len(ms) /\ u.masters[m].entropy = t.masters[m].entropy
    BY <1>1, <1>2, <1>5
  <2>3. QED
    BY <2>1, <2>2, <1>2
<1>12. KeepsAhead(t, u)
  <2>1. \A m \in 1..Len(t.masters) : m \in 1..Len(u.masters)
    BY <1>1, <1>2, <1>5
  <2>2. QED
    BY <2>1, <1>2 DEF KeepsAhead
<1>13. \A b \in Accounts(u) : ~HasName(t, b.name) => b = a
  <2>1. SUFFICES ASSUME NEW i \in 1..(n + 1), ~HasName(t, u.accounts[i].name)
                 PROVE  u.accounts[i] = a
    <3>1. Accounts(u) = {u.accounts[i] : i \in 1..Len(u.accounts)}
      BY <1>10, ByPosition
    <3>2. QED
      BY <3>1, <1>3
  <2>2. i \in 1..n => HasName(t, u.accounts[i].name)
    BY <1>3, ByPosition
  <2>3. QED
    BY <2>1, <2>2, <1>1, <1>3
<1>14. KeepsNames(t, u)
  <2>1. SUFFICES ASSUME NEW i \in 1..n PROVE HasName(u, t.accounts[i].name)
    <3>1. Accounts(t) = {t.accounts[i] : i \in 1..n}
      BY ByPosition
    <3>2. QED
      BY <3>1 DEF KeepsNames
  <2>2. i \in 1..Len(u.accounts) /\ u.accounts[i] = t.accounts[i]
    BY <1>1, <1>3
  <2>3. QED
    <3>1. \A x : HasName(u, x) <=>
               \E j \in 1..Len(u.accounts) : u.accounts[j].name = x
      BY <1>10, ByPosition
    <3>2. QED
      BY <2>2, <3>1
<1>15. Last(u.accounts) = a
  BY <1>3 DEF Last
<1>16. QED
  BY <1>10, <1>11, <1>12, <1>13, <1>14, <1>15 DEF Keeps, OnlyNew

\* add_master: the new wallet is the phrase's first.
LEMMA AddMasterKeeps ==
    ASSUME NEW t, Sound(t), NEW n \in Names, NEW e \in Entropies,
           AddMasterAccepted(t, n)
    PROVE  /\ Keeps(t, AddMaster(t, n, e))
           /\ \E a : a.index = 0 /\ OnlyNew(t, AddMaster(t, n, e), a)
<1> DEFINE k == Len(t.masters) + 1
           ms == Append(t.masters, Master(e, 1))
           a == DerivedAccount(n, e, k, 0)
           u == AddMaster(t, n, e)
<1>1. /\ t = [masters |-> t.masters, accounts |-> t.accounts,
              recipients |-> t.recipients]
      /\ t.masters \in Seq(Masters) /\ k - 1 \in 0..MaxMasters
      /\ \A m \in 1..Len(t.masters) : t.masters[m].next \in 1..MaxIndex
  BY SoundParts
<1>2. /\ ~HasName(t, n) /\ Len(t.accounts) < MaxAccounts
      /\ Len(t.masters) < MaxMasters
  BY DEF AddMasterAccepted, NewNameAccepted
<1>3. Master(e, 1) \in Masters
  BY LimitsAssumption DEF Master, Masters
<1>4. /\ ms \in Seq(Masters) /\ Len(ms) = k /\ ms[k] = Master(e, 1)
      /\ \A m \in 1..Len(t.masters) : ms[m] = t.masters[m]
      /\ k \in 1..MaxMasters
  BY <1>1, <1>2, <1>3, LimitsAssumption
<1>5. a \in AccountRecords
  BY <1>4, AccountBuilt, LimitsAssumption
<1>6. /\ u \in Tables
      /\ u.masters = ms /\ u.accounts = Append(t.accounts, a)
      /\ u.recipients = t.recipients
  <2>1. t \in Tables
    BY DEF Sound
  <2>2. Append(t.accounts, a) \in Seq(AccountRecords)
    BY <1>5, SoundParts
  <2>3. QED
    BY <1>4, <2>1, <2>2 DEF AddMaster, Tables
<1>7. /\ a.name = n /\ a.index = 0 /\ a.master = k /\ a.address = <<e, 0>>
  BY DEF DerivedAccount
<1>8. Refers(u, a)
  BY <1>4, <1>6, <1>7 DEF Refers, Master
<1>9. Len(t.masters) <= Len(ms) /\ Len(ms) <= MaxMasters
  BY <1>1, <1>4, LimitsAssumption
<1>10. \A m \in 1..Len(t.masters) :
          /\ ms[m].entropy = t.masters[m].entropy
          /\ t.masters[m].next <= ms[m].next
  BY <1>1, <1>4, LimitsAssumption
<1> HIDE DEF ms, a, u
<1>11. Keeps(t, u) /\ OnlyNew(t, u, a)
  BY <1>2, <1>4, <1>5, <1>6, <1>7, <1>8, <1>9, <1>10, AccountAdded
<1>12. QED
  BY <1>7, <1>11 DEF u

\* add_imported: the new wallet is not derived.
LEMMA AddImportedKeeps ==
    ASSUME NEW t, Sound(t), NEW n \in Names, NEW key \in Keypairs,
           AddImportedAccepted(t, n)
    PROVE  /\ Keeps(t, AddImported(t, n, key))
           /\ \E a : a.kind = "imported" /\ OnlyNew(t, AddImported(t, n, key), a)
<1> DEFINE a == ImportedAccount(n, key)
           u == AddImported(t, n, key)
<1>1. /\ t = [masters |-> t.masters, accounts |-> t.accounts,
              recipients |-> t.recipients]
      /\ t.masters \in Seq(Masters) /\ Len(t.masters) \in 0..MaxMasters
      /\ \A m \in 1..Len(t.masters) : t.masters[m].next \in 1..MaxIndex
  BY SoundParts
<1>2. /\ ~HasName(t, n) /\ Len(t.accounts) < MaxAccounts
  BY DEF AddImportedAccepted, NewNameAccepted
<1>3. a \in AccountRecords
  BY AccountBuilt DEF Keys
<1>4. /\ u \in Tables
      /\ u.masters = t.masters /\ u.accounts = Append(t.accounts, a)
      /\ u.recipients = t.recipients
  <2>1. t \in Tables
    BY DEF Sound
  <2>2. Append(t.accounts, a) \in Seq(AccountRecords)
    BY <1>3, SoundParts
  <2>3. QED
    BY <2>1, <2>2 DEF AddImported, Tables
<1>5. a.name = n /\ a.kind = "imported"
  BY DEF ImportedAccount
<1>6. Refers(u, a)
  BY <1>5 DEF Refers
<1>7. /\ Len(t.masters) <= Len(t.masters) /\ Len(t.masters) <= MaxMasters
      /\ \A m \in 1..Len(t.masters) : t.masters[m].next <= t.masters[m].next
  BY <1>1, LimitsAssumption
<1> HIDE DEF a, u
<1>8. Keeps(t, u) /\ OnlyNew(t, u, a)
  BY <1>1, <1>2, <1>3, <1>4, <1>5, <1>6, <1>7, AccountAdded
<1>9. QED
  BY <1>5, <1>8 DEF u

\* The next index of a phrase is that of a copy, and none is past it.
LEMMA NextIndexIsGreatest ==
    ASSUME NEW t, Sound(t), NEW m \in 1..Len(t.masters),
           NEW e, e = t.masters[m].entropy
    PROVE  /\ NextIndex(t, e) \in 1..MaxIndex
           /\ \A k \in Copies(t, e) : t.masters[k].next <= NextIndex(t, e)
<1> DEFINE S == {t.masters[k].next : k \in Copies(t, e)}
<1>1. \A k \in 1..Len(t.masters) : t.masters[k].next \in 1..MaxIndex
  BY SoundParts
<1>2. /\ m \in Copies(t, e) /\ Copies(t, e) \subseteq 1..Len(t.masters)
  BY SoundParts DEF Copies
<1>3. MaxIndex \in Nat
  BY LimitsAssumption
<1>4. S \in SUBSET (1..MaxIndex) /\ S # {}
  BY <1>1, <1>2
<1>5. S \in SUBSET (0..MaxIndex)
  BY <1>3, <1>4
<1> HIDE DEF S
<1>6. Max(S) \in S /\ \A x \in S : x <= Max(S)
  BY <1>3, <1>4, <1>5, Greatest
<1>7. NextIndex(t, e) = Max(S)
  BY DEF NextIndex, S
<1>8. \A k \in Copies(t, e) : t.masters[k].next \in S
  BY DEF S
<1>9. QED
  BY <1>4, <1>6, <1>7, <1>8

\* add_derived: the new wallet's index is past that of every address that
\* the table is ahead of.
LEMMA AddDerivedKeeps ==
    ASSUME NEW t, Sound(t), NEW n \in Names, NEW source \in Names,
           AddDerivedAccepted(t, n, source)
    PROVE  /\ Keeps(t, AddDerived(t, n, source))
           /\ \E a \in AccountRecords :
                 /\ a.kind = "derived" /\ a.address \in Entropies \X (0..(MaxIndex - 1))
                 /\ OnlyNew(t, AddDerived(t, n, source), a)
                 /\ Ahead(AddDerived(t, n, source), a.address)
                 /\ \A b \in Entropies \X (0..(MaxIndex - 1)) :
                       Ahead(t, b) => a.address # b
<1> DEFINE from == AccountNamed(t, source)
           e == PhraseOf(t, from)
           next == NextIndex(t, e)
           ms == [m \in DOMAIN t.masters |->
                    IF m \in Copies(t, e) THEN Master(e, next + 1)
                    ELSE t.masters[m]]
           a == DerivedAccount(n, e, from.master, next)
           u == AddDerived(t, n, source)
<1>1. /\ HasName(t, source) /\ from.kind = "derived" /\ next < MaxIndex
      /\ ~HasName(t, n) /\ Len(t.accounts) < MaxAccounts
  BY DEF AddDerivedAccepted, NewNameAccepted
<1>2. /\ t.masters \in Seq(Masters) /\ t.accounts \in Seq(AccountRecords)
      /\ DOMAIN t.masters = 1..Len(t.masters)
      /\ Len(t.masters) \in 0..MaxMasters
      /\ \A m \in 1..Len(t.masters) :
            /\ t.masters[m] \in Masters /\ t.masters[m].next \in 1..MaxIndex
            /\ t.masters[m].entropy \in Entropies
  BY SoundParts
<1>3. from.master \in 1..Len(t.masters)
  BY <1>1, NameFound DEF Refers
<1>4. e = t.masters[from.master].entropy /\ e \in Entropies
  BY <1>2, <1>3 DEF PhraseOf
<1>5. MaxIndex \in Nat /\ MaxMasters \in Nat
  BY LimitsAssumption
<1> HIDE DEF e
<1>6. /\ next \in 1..MaxIndex
      /\ \A k \in Copies(t, e) : t.masters[k].next <= next
  BY <1>3, <1>4, NextIndexIsGreatest
<1> HIDE DEF next
<1>7. next \in 0..(MaxIndex - 1) /\ next + 1 \in 1..MaxIndex
  BY <1>1, <1>5, <1>6
<1>8. Master(e, next + 1) \in Masters
  BY <1>4, <1>7 DEF Master, Masters
<1>9. /\ ms \in Seq(Masters) /\ Len(ms) = Len(t.masters)
      /\ \A m \in 1..Len(t.masters) :
            ms[m] = IF m \in Copies(t, e) THEN Master(e, next + 1)
                    ELSE t.masters[m]
  <2>1. ms \in [1..Len(t.masters) -> Masters]
    BY <1>2, <1>8
  <2>2. Len(t.masters) \in Nat
    BY <1>2, <1>5
  <2>3. QED
    BY <1>2, <2>1, <2>2
<1>10. a \in AccountRecords
  <2>1. from.master \in 1..MaxMasters
    BY <1>2, <1>3, <1>5
  <2>2. QED
    BY <1>4, <1>7, <2>1, AccountBuilt
<1>11. /\ u \in Tables /\ u.masters = ms
       /\ u.accounts = Append(t.accounts, a) /\ u.recipients = t.recipients
  <2>1. t \in Tables
    BY DEF Sound
  <2>2. Append(t.accounts, a) \in Seq(AccountRecords)
    BY <1>2, <1>10
  <2>3. QED
    BY <1>9, <2>1, <2>2 DEF AddDerived, Tables, e, next
<1>12. /\ a.name = n /\ a.kind = "derived" /\ a.master = from.master
       /\ a.index = next /\ a.address = <<e, next>>
  BY DEF DerivedAccount
<1>13. from.master \in Copies(t, e)
  BY <1>2, <1>3, <1>4 DEF Copies
<1>14. /\ ms[from.master].entropy = e /\ ms[from.master].next = next + 1
  BY <1>3, <1>9, <1>13 DEF Master
<1>15. Refers(u, a)
  BY <1>3, <1>7, <1>9, <1>11, <1>12, <1>14, <1>5 DEF Refers
<1>16. \A m \in 1..Len(t.masters) :
          /\ ms[m].entropy = t.masters[m].entropy
          /\ t.masters[m].next <= ms[m].next
  <2>1. SUFFICES ASSUME NEW m \in 1..Len(t.masters)
                 PROVE  /\ ms[m].entropy = t.masters[m].entropy
                        /\ t.masters[m].next <= ms[m].next
    OBVIOUS
  <2>2. t.masters[m].next \in 1..MaxIndex
    BY <1>2
  <2>3. CASE m \in Copies(t, e)
    <3>1. t.masters[m].next <= next /\ t.masters[m].entropy = e
      BY <2>3, <1>6 DEF Copies
    <3>2. ms[m].entropy = e /\ ms[m].next = next + 1
      BY <2>3, <1>9 DEF Master
    <3>3. QED
      BY <3>1, <3>2, <2>2, <1>5, <1>7
  <2>4. CASE m \notin Copies(t, e)
    BY <2>2, <2>4, <1>9, <1>5
  <2>5. QED
    BY <2>3, <2>4
<1>17. Len(t.masters) <= Len(ms) /\ Len(ms) <= MaxMasters
  BY <1>2, <1>5, <1>9
<1>18. Ahead(u, a.address)
  <2>1. from.master \in 1..Len(u.masters)
    BY <1>3, <1>9, <1>11
  <2>2. /\ u.masters[from.master].entropy = a.address[1]
        /\ a.address[2] < u.masters[from.master].next
    BY <1>7, <1>5, <1>11, <1>12, <1>14
  <2>3. QED
    BY <2>1, <2>2 DEF Ahead
<1>19. ASSUME NEW b \in Entropies \X (0..(MaxIndex - 1)), Ahead(t, b)
       PROVE  a.address # b
  <2>1. PICK m \in 1..Len(t.masters) :
           t.masters[m].entropy = b[1] /\ b[2] < t.masters[m].next
    BY <1>19 DEF Ahead
  <2>2. SUFFICES ASSUME b = <<e, next>> PROVE FALSE
    BY <1>12
  <2>3. t.masters[m].entropy = e /\ next < t.masters[m].next
    BY <2>1, <2>2
  <2>4. t.masters[m].next <= next
    BY <2>3, <1>2, <1>6 DEF Copies
  <2>5. t.masters[m].next \in 1..MaxIndex
    BY <1>2
  <2>6. QED
    BY <2>3, <2>4, <2>5, <1>5, <1>7
<1>20. a.address \in Entropies \X (0..(MaxIndex - 1))
  <2>1. e \in Entropies /\ next \in 0..(MaxIndex - 1)
    BY <1>4, <1>7
  <2>2. <<e, next>> \in Entropies \X (0..(MaxIndex - 1))
    BY <2>1
  <2>3. a.address = <<e, next>>
    BY <1>12, Zenon
  <2>4. QED
    BY <2>2, <2>3, Zenon
<1> HIDE DEF ms, a, u, from
<1>21. Keeps(t, u) /\ OnlyNew(t, u, a)
  BY <1>1, <1>9, <1>10, <1>11, <1>12, <1>15, <1>16, <1>17, AccountAdded
<1>22. QED
  BY <1>10, <1>12, <1>18, <1>19, <1>20, <1>21 DEF u

\* remember_recipient: wallets and phrases stay as they are.
LEMMA RememberKeeps ==
    ASSUME NEW t, Sound(t), NEW r \in Recipients
    PROVE  /\ Keeps(t, RememberRecipient(t, r))
           /\ \A b \in Accounts(RememberRecipient(t, r)) : HasName(t, b.name)
<1> DEFINE u == RememberRecipient(t, r)
<1>1. /\ t \in Tables /\ Len(t.masters) <= MaxMasters
      /\ Len(t.accounts) <= MaxAccounts
      /\ IsFiniteSet(t.recipients) /\ Cardinality(t.recipients) <= MaxRecipients
      /\ OneNameEach(t)
      /\ \A i \in 1..Len(t.accounts) : Refers(t, t.accounts[i])
  BY DEF Sound
<1>2. /\ u \in Tables /\ u.masters = t.masters /\ u.accounts = t.accounts
      /\ \/ u.recipients = t.recipients
         \/ /\ Cardinality(t.recipients) < MaxRecipients
            /\ u.recipients = t.recipients \cup {r}
  BY <1>1 DEF RememberRecipient, Tables
<1>3. /\ IsFiniteSet(u.recipients)
      /\ Cardinality(u.recipients) <= MaxRecipients
  <2>1. /\ IsFiniteSet(t.recipients \cup {r})
        /\ Cardinality(t.recipients) \in Nat
        /\ \/ Cardinality(t.recipients \cup {r}) = Cardinality(t.recipients)
           \/ Cardinality(t.recipients \cup {r})
                 = Cardinality(t.recipients) + 1
    BY <1>1, FS_AddElement, FS_CardinalityType
  <2>2. MaxRecipients \in Nat
    BY LimitsAssumption
  <2>3. CASE u.recipients = t.recipients
    BY <1>1, <2>3
  <2>4. CASE /\ Cardinality(t.recipients) < MaxRecipients
             /\ u.recipients = t.recipients \cup {r}
    <3> DEFINE c == Cardinality(t.recipients)
               d == Cardinality(u.recipients)
    <3>1. c \in Nat /\ c < MaxRecipients /\ (d = c \/ d = c + 1)
      BY <2>1, <2>4
    <3> HIDE DEF c, d
    <3>2. d <= MaxRecipients
      BY <2>2, <3>1
    <3>3. QED
      BY <2>1, <2>4, <3>2 DEF d
  <2>5. QED
    BY <1>2, <2>3, <2>4
<1> HIDE DEF u
<1>4. Sound(u)
  BY <1>1, <1>2, <1>3 DEF Sound, OneNameEach, Refers
<1>5. Accounts(u) = Accounts(t) /\ Phrases(u) = Phrases(t)
  BY <1>2 DEF Accounts, Phrases
<1>6. \A b \in Accounts(t) : HasName(t, b.name) /\ HasName(u, b.name)
  BY <1>5 DEF HasName
<1>7. KeepsAhead(t, u)
  <2>1. \A m \in 1..Len(t.masters) : t.masters[m].next \in 1..MaxIndex
    BY SoundParts
  <2>2. MaxIndex \in Nat
    BY LimitsAssumption
  <2>3. \A m \in 1..Len(t.masters) : t.masters[m].next <= t.masters[m].next
    BY <2>1, <2>2
  <2>4. QED
    BY <1>2, <2>3 DEF KeepsAhead
<1>8. QED
  BY <1>4, <1>5, <1>6, <1>7 DEF Keeps, KeepsNames, u

-----------------------------------------------------------------------------
(* The loop over the masters.                                              *)

\* What the loop's rounds leave of s: f[i] is the table after i rounds.
Rounds(s, erased, last, f) ==
    f = [i \in 0..last |->
           IF i = 0 THEN s
           ELSE IF last + 1 - i \in erased
                THEN EraseMaster(f[i - 1], last + 1 - i) ELSE f[i - 1]]

\* There are such tables, whatever the number of rounds.
LEMMA RoundsExist ==
    ASSUME NEW s, NEW erased, NEW last \in Nat
    PROVE  \E f : Rounds(s, erased, last, f)
<1> DEFINE Begun(n, f) ==
             f = [i \in 0..n |->
                    IF i = 0 THEN s
                    ELSE IF last + 1 - i \in erased
                         THEN EraseMaster(f[i - 1], last + 1 - i)
                         ELSE f[i - 1]]
           N == {n \in Nat : \E f : Begun(n, f)}
<1>1. 0 \in N
  <2>1. Begun(0, [i \in 0..0 |-> s])
    OBVIOUS
  <2>2. QED
    BY <2>1
<1>2. ASSUME NEW n \in Nat, n \in N PROVE n + 1 \in N
  <2>1. PICK f : Begun(n, f)
    BY <1>2
  <2> DEFINE x == IF last - n \in erased
                  THEN EraseMaster(f[n], last - n) ELSE f[n]
             g == [i \in 0..(n + 1) |-> IF i = n + 1 THEN x ELSE f[i]]
             r(h, i) == IF i = 0 THEN s
                        ELSE IF last + 1 - i \in erased
                             THEN EraseMaster(h[i - 1], last + 1 - i)
                             ELSE h[i - 1]
  <2>2. f = [i \in 0..n |-> r(f, i)]
    BY <2>1
  <2> HIDE DEF Begun
  <2>3. ASSUME NEW i \in 0..(n + 1) PROVE g[i] = r(g, i)
    <3>1. CASE i = n + 1
      <4>1. /\ i # 0 /\ last + 1 - i = last - n /\ i - 1 = n
            /\ n \in 0..(n + 1) /\ n # n + 1 /\ g[i] = x
        BY <3>1
      <4>2. g[i - 1] = f[n]
        BY <4>1
      <4>3. QED
        BY <4>1, <4>2
    <3>2. CASE i \in 0..n
      <4>1. g[i] = f[i] /\ f[i] = r(f, i)
        BY <2>2, <3>2
      <4>2. i # 0 => i - 1 \in 0..n /\ i - 1 \in 0..(n + 1) /\ i - 1 # n + 1
        BY <3>2
      <4>3. i # 0 => g[i - 1] = f[i - 1]
        BY <4>2
      <4>4. QED
        BY <4>1, <4>3
    <3>3. QED
      BY <3>1, <3>2
  <2>4. g = [i \in 0..(n + 1) |-> r(g, i)]
    BY <2>3
  <2>5. Begun(n + 1, g)
    BY <2>4 DEF Begun
  <2>6. QED
    BY <2>5
<1> HIDE DEF Begun
<1>3. last \in N
  <2> HIDE DEF N
  <2>1. Nat \subseteq N
    BY <1>1, <1>2, NumberInduction
  <2>2. QED
    BY <2>1
<1>4. PICK f : Begun(last, f)
  BY <1>3
<1>5. QED
  BY <1>4 DEF Begun, Rounds

\* The loop computes them.
LEMMA RoundByRound ==
    ASSUME NEW s, NEW erased, Len(s.masters) \in Nat
    PROVE  \E f : /\ EraseMasters(s, erased) = f[Len(s.masters)]
                  /\ Rounds(s, erased, Len(s.masters), f)
<1> DEFINE last == Len(s.masters)
           after == CHOOSE f : Rounds(s, erased, last, f)
<1>1. EraseMasters(s, erased) = after[last]
  BY DEF EraseMasters, Rounds
<1>2. Rounds(s, erased, last, after)
  BY RoundsExist
<1>3. QED
  BY <1>1, <1>2

\* An account whose master has moved is otherwise the same.
SameWallet(a, b) ==
    /\ a.name = b.name /\ a.kind = b.kind
    /\ a.address = b.address /\ a.index = b.index

\* What a renumbered account refers to, in a list without the m-th master.
LEMMA RenumberedRefers ==
    ASSUME NEW u, Sound(u), NEW m \in 1..Len(u.masters),
           NEW a \in AccountRecords, Refers(u, a),
           a.kind = "derived" => a.master # m,
           NEW v, v.masters = RemoveAt(u.masters, m)
    PROVE  /\ Renumbered(a, m) \in AccountRecords
           /\ SameWallet(Renumbered(a, m), a)
           /\ Refers(v, Renumbered(a, m))
<1> DEFINE b == Renumbered(a, m)
           n == Len(u.masters)
<1>1. u.masters \in Seq(Masters) /\ n \in 0..MaxMasters
  BY SoundParts
<1>2. /\ MaxMasters \in Nat /\ MaxIndex \in Nat /\ n \in Nat /\ m \in Int
      /\ n <= MaxMasters
  BY <1>1, LimitsAssumption
<1>3. /\ Len(v.masters) = n - 1
      /\ \A k \in 1..(n - 1) :
            v.masters[k] = IF k < m THEN u.masters[k] ELSE u.masters[k + 1]
  BY <1>1, RemoveAtEntries
<1>4. CASE a.kind = "imported"
  <2>1. a.master = 0
    BY <1>4, AccountFields
  <2>2. b = a
    BY <1>2, <2>1 DEF Renumbered
  <2>3. QED
    BY <1>4, <2>2 DEF SameWallet, Refers
<1>5. CASE a.kind = "derived"
  <2>1. /\ a \in [name : Names, address : Keys, kind : {"derived"},
                  master : 1..MaxMasters, index : 0..(MaxIndex - 1)]
        /\ a.master \in 1..n /\ a.master # m
        /\ a.index < u.masters[a.master].next
        /\ a.address = <<u.masters[a.master].entropy, a.index>>
    BY <1>5 DEF AccountRecords, Refers
  <2>2. CASE a.master > m
    <3>1. b = [a EXCEPT !.master = @ - 1]
      BY <2>2 DEF Renumbered
    <3>2. a.master - 1 \in 1..(n - 1) /\ a.master - 1 \in 1..MaxMasters
      BY <2>1, <2>2, <1>2
    <3>3. /\ b \in AccountRecords /\ b.name = a.name /\ b.address = a.address
          /\ b.kind = a.kind /\ b.index = a.index /\ b.master = a.master - 1
      BY <2>1, <3>1, <3>2 DEF AccountRecords
    <3>4. v.masters[a.master - 1] = u.masters[a.master]
      <4>1. ~(a.master - 1 < m) /\ (a.master - 1) + 1 = a.master
        BY <2>1, <2>2, <1>2
      <4>2. QED
        BY <1>3, <3>2, <4>1
    <3>5. QED
      BY <2>1, <3>2, <3>3, <3>4, <1>3 DEF SameWallet, Refers
  <2>3. CASE ~(a.master > m)
    <3>1. b = a
      BY <2>3 DEF Renumbered
    <3>2. a.master \in 1..(n - 1) /\ a.master < m
      BY <2>1, <2>3, <1>2
    <3>3. QED
      BY <2>1, <3>1, <3>2, <1>3 DEF SameWallet, Refers
  <2>4. QED
    BY <2>2, <2>3
<1>6. QED
  BY <1>4, <1>5, AccountFields

\* A master that no wallet refers to may go.
LEMMA EraseMasterKeeps ==
    ASSUME NEW u, Sound(u), NEW m \in 1..Len(u.masters),
           \A i \in 1..Len(u.accounts) :
               u.accounts[i].kind = "derived" => u.accounts[i].master # m,
           NEW v, v = EraseMaster(u, m)
    PROVE  /\ Sound(v)
           /\ v.recipients = u.recipients
           /\ Len(v.accounts) = Len(u.accounts)
           /\ \A i \in 1..Len(u.accounts) :
                 SameWallet(v.accounts[i], u.accounts[i])
           /\ Len(v.masters) = Len(u.masters) - 1
           /\ \A k \in 1..(Len(u.masters) - 1) :
                 v.masters[k] = IF k < m THEN u.masters[k] ELSE u.masters[k + 1]
<1> DEFINE n == Len(u.accounts)
<1>1. /\ u.masters \in Seq(Masters) /\ u.accounts \in Seq(AccountRecords)
      /\ DOMAIN u.accounts = 1..n /\ n \in 0..MaxAccounts
      /\ Len(u.masters) \in 0..MaxMasters
      /\ \A i \in 1..n : u.accounts[i] \in AccountRecords
  BY SoundParts
<1>2. /\ RemoveAt(u.masters, m) \in Seq(Masters)
      /\ Len(RemoveAt(u.masters, m)) = Len(u.masters) - 1
      /\ \A k \in 1..(Len(u.masters) - 1) :
            RemoveAt(u.masters, m)[k]
               = IF k < m THEN u.masters[k] ELSE u.masters[k + 1]
  BY <1>1, RemoveAtEntries
<1>3. /\ u \in Tables /\ Len(u.accounts) <= MaxAccounts
      /\ Len(u.masters) <= MaxMasters
      /\ IsFiniteSet(u.recipients) /\ Cardinality(u.recipients) <= MaxRecipients
      /\ OneNameEach(u) /\ \A i \in 1..n : Refers(u, u.accounts[i])
  BY DEF Sound
<1>4. /\ v.masters = RemoveAt(u.masters, m) /\ v.recipients = u.recipients
      /\ v.accounts = [k \in 1..n |-> Renumbered(u.accounts[k], m)]
  BY <1>1, <1>3 DEF EraseMaster, Tables
<1>5. \A i \in 1..n : /\ Renumbered(u.accounts[i], m) \in AccountRecords
                      /\ SameWallet(Renumbered(u.accounts[i], m), u.accounts[i])
                      /\ Refers(v, Renumbered(u.accounts[i], m))
  BY <1>1, <1>3, <1>4, RenumberedRefers
<1>6. n \in Nat /\ Len(u.masters) \in Nat /\ MaxMasters \in Nat
  BY <1>1, LimitsAssumption
<1>7. /\ v.accounts \in Seq(AccountRecords) /\ Len(v.accounts) = n
      /\ \A i \in 1..n : v.accounts[i] = Renumbered(u.accounts[i], m)
  <2>1. v.accounts \in [1..n -> AccountRecords]
    BY <1>4, <1>5
  <2>2. QED
    BY <1>4, <1>6, <2>1
<1>8. v \in Tables
  BY <1>2, <1>3, <1>4, <1>7 DEF EraseMaster, Tables
<1>9. OneNameEach(v)
  BY <1>3, <1>5, <1>7 DEF OneNameEach, SameWallet
<1>10. Len(v.masters) <= MaxMasters
  BY <1>2, <1>3, <1>4, <1>6
<1>11. Sound(v)
  BY <1>3, <1>4, <1>5, <1>7, <1>8, <1>9, <1>10 DEF Sound
<1>12. QED
  BY <1>2, <1>4, <1>5, <1>7, <1>11

\* The table u after i rounds over s: entries up to the next one are where
\* they were, behind it no bad phrase is left, and every other one is there.
AfterRounds(s, bad, i, u) ==
    LET next == Len(s.masters) - i
    IN /\ Sound(u)
       /\ u.recipients = s.recipients
       /\ Len(u.accounts) = Len(s.accounts)
       /\ \A k \in 1..Len(s.accounts) :
             SameWallet(u.accounts[k], s.accounts[k])
       /\ next <= Len(u.masters)
       /\ \A m \in 1..next : u.masters[m] = s.masters[m]
       /\ \A m \in 1..Len(u.masters) : m > next => u.masters[m].entropy \notin bad
       /\ \A m \in 1..Len(s.masters) :
             s.masters[m].entropy \notin bad =>
                \E k \in 1..Len(u.masters) : u.masters[k] = s.masters[m]

\* A round that erases.
LEMMA ErasingRound ==
    ASSUME NEW s, Sound(s), NEW bad,
           \A k \in 1..Len(s.accounts) :
               s.accounts[k].kind = "derived" => s.accounts[k].address[1] \notin bad,
           NEW i \in 0..(Len(s.masters) - 1), NEW u, AfterRounds(s, bad, i, u),
           s.masters[Len(s.masters) - i].entropy \in bad,
           NEW v, v = EraseMaster(u, Len(s.masters) - i)
    PROVE  AfterRounds(s, bad, i + 1, v)
<1> DEFINE last == Len(s.masters)
           m == last - i
           l == Len(u.masters)
<1>1. /\ Sound(u) /\ u.recipients = s.recipients
      /\ Len(u.accounts) = Len(s.accounts)
      /\ \A k \in 1..Len(s.accounts) : SameWallet(u.accounts[k], s.accounts[k])
      /\ m <= l
      /\ \A k \in 1..m : u.masters[k] = s.masters[k]
      /\ \A k \in 1..l : k > m => u.masters[k].entropy \notin bad
      /\ \A k \in 1..last : s.masters[k].entropy \notin bad =>
            \E j \in 1..l : u.masters[j] = s.masters[k]
  BY DEF AfterRounds
<1>2. last \in Nat /\ l \in Nat
  BY <1>1, SoundParts, LimitsAssumption
<1>3. m \in 1..last /\ m \in 1..l /\ last - (i + 1) = m - 1 /\ m \in 1..m
  BY <1>1, <1>2
<1>4. u.masters[m].entropy \in bad
  BY <1>1, <1>3
<1>5. ASSUME NEW k \in 1..Len(u.accounts), u.accounts[k].kind = "derived"
      PROVE  u.accounts[k].master # m
  <2>1. SameWallet(u.accounts[k], s.accounts[k]) /\ k \in 1..Len(s.accounts)
    BY <1>1
  <2>2. u.accounts[k].address[1] \notin bad
    BY <1>5, <2>1 DEF SameWallet
  <2>3. u.accounts[k].address[1] = u.masters[u.accounts[k].master].entropy
    BY <1>1, <1>5 DEF Sound, Refers
  <2>4. QED
    BY <1>4, <2>2, <2>3
<1>6. /\ Sound(v) /\ v.recipients = u.recipients
      /\ Len(v.accounts) = Len(u.accounts)
      /\ \A k \in 1..Len(u.accounts) : SameWallet(v.accounts[k], u.accounts[k])
      /\ Len(v.masters) = l - 1
      /\ \A k \in 1..(l - 1) :
            v.masters[k] = IF k < m THEN u.masters[k] ELSE u.masters[k + 1]
  <2>1. v = EraseMaster(u, m) /\ m \in 1..Len(u.masters) /\ Sound(u)
    BY <1>1, <1>3
  <2> HIDE DEF m
  <2>2. QED
    BY <1>5, <2>1, EraseMasterKeeps
<1> HIDE DEF last, l
<1>7. \A k \in 1..Len(s.accounts) : SameWallet(v.accounts[k], s.accounts[k])
  BY <1>1, <1>6 DEF SameWallet
<1>8. m - 1 <= Len(v.masters)
  BY <1>1, <1>2, <1>3, <1>6
<1>9. \A k \in 1..(m - 1) : v.masters[k] = s.masters[k]
  <2>1. \A k \in 1..(m - 1) : k \in 1..(l - 1) /\ k \in 1..m /\ k < m
    BY <1>2, <1>3
  <2>2. QED
    BY <1>1, <1>6, <2>1
<1>10. ASSUME NEW k \in 1..(l - 1), k > m - 1
       PROVE  v.masters[k].entropy \notin bad
  <2>1. ~(k < m) /\ k + 1 \in 1..l /\ k + 1 > m
    BY <1>2, <1>3, <1>10
  <2>2. QED
    BY <1>1, <1>6, <2>1
<1>11. ASSUME NEW k \in 1..last, s.masters[k].entropy \notin bad
       PROVE  \E j \in 1..(l - 1) : v.masters[j] = s.masters[k]
  <2>1. PICK j \in 1..l : u.masters[j] = s.masters[k]
    BY <1>1, <1>11
  <2>2. j # m
    BY <1>4, <1>11, <2>1
  <2>3. CASE j < m
    <3>1. j \in 1..(l - 1)
      BY <1>2, <1>3, <2>3
    <3>2. QED
      BY <1>6, <2>1, <2>3, <3>1
  <2>4. CASE j > m
    <3>1. /\ j - 1 \in 1..(l - 1) /\ ~(j - 1 < m) /\ (j - 1) + 1 = j
      BY <1>2, <1>3, <2>4
    <3>2. v.masters[j - 1] = s.masters[k]
      BY <1>6, <2>1, <3>1
    <3>3. QED
      BY <3>1, <3>2
  <2>5. QED
    BY <1>2, <1>3, <2>2, <2>3, <2>4
<1>12. QED
  BY <1>1, <1>3, <1>6, <1>7, <1>8, <1>9, <1>10, <1>11 DEF AfterRounds, last

\* A round that does not.
LEMMA KeepingRound ==
    ASSUME NEW s, Sound(s), NEW bad,
           NEW i \in 0..(Len(s.masters) - 1), NEW u, AfterRounds(s, bad, i, u),
           s.masters[Len(s.masters) - i].entropy \notin bad
    PROVE  AfterRounds(s, bad, i + 1, u)
<1> DEFINE last == Len(s.masters)
           m == last - i
<1>1. /\ Sound(u) /\ u.recipients = s.recipients
      /\ Len(u.accounts) = Len(s.accounts)
      /\ \A k \in 1..Len(s.accounts) : SameWallet(u.accounts[k], s.accounts[k])
      /\ m <= Len(u.masters)
      /\ \A k \in 1..m : u.masters[k] = s.masters[k]
      /\ \A k \in 1..Len(u.masters) : k > m => u.masters[k].entropy \notin bad
      /\ \A k \in 1..last : s.masters[k].entropy \notin bad =>
            \E j \in 1..Len(u.masters) : u.masters[j] = s.masters[k]
  BY DEF AfterRounds
<1>2. last \in Nat /\ Len(u.masters) \in Nat
  BY <1>1, SoundParts, LimitsAssumption
<1>3. /\ m \in 1..last /\ last - (i + 1) = m - 1 /\ m \in 1..m
      /\ m - 1 <= Len(u.masters)
      /\ \A k \in 1..(m - 1) : k \in 1..m
      /\ \A k \in 1..Len(u.masters) : k > m - 1 => k = m \/ k > m
  <2>1. \A x, y \in Nat : \A j \in 0..(x - 1) : x - j <= y =>
           /\ x - j \in 1..x /\ x - (j + 1) = (x - j) - 1
           /\ x - j \in 1..(x - j) /\ (x - j) - 1 <= y
           /\ \A k \in 1..((x - j) - 1) : k \in 1..(x - j)
           /\ \A k \in 1..y : k > (x - j) - 1 => k = x - j \/ k > x - j
    OBVIOUS
  <2>2. QED
    BY <1>1, <1>2, <2>1
<1>4. u.masters[m].entropy \notin bad
  BY <1>1, <1>3
<1>5. QED
  BY <1>1, <1>3, <1>4 DEF AfterRounds

\* The whole loop: the bad phrases are gone, the others and the wallets stay.
LEMMA EraseMastersKeeps ==
    ASSUME NEW s, Sound(s), NEW bad,
           \A k \in 1..Len(s.accounts) :
               s.accounts[k].kind = "derived" => s.accounts[k].address[1] \notin bad,
           NEW erased,
           erased = {m \in 1..Len(s.masters) : s.masters[m].entropy \in bad}
    PROVE  AfterRounds(s, bad, Len(s.masters), EraseMasters(s, erased))
<1> DEFINE last == Len(s.masters)
<1>1. last \in Nat
  BY SoundParts, LimitsAssumption
<1>2. PICK f : EraseMasters(s, erased) = f[last] /\ Rounds(s, erased, last, f)
  BY <1>1, RoundByRound
<1>3. /\ f[0] = s
      /\ \A i \in 1..last :
            f[i] = IF last + 1 - i \in erased
                   THEN EraseMaster(f[i - 1], last + 1 - i) ELSE f[i - 1]
  <2>1. f = [i \in 0..last |->
               IF i = 0 THEN s
               ELSE IF last + 1 - i \in erased
                    THEN EraseMaster(f[i - 1], last + 1 - i) ELSE f[i - 1]]
    BY <1>2 DEF Rounds
  <2> HIDE DEF last
  <2>2. 0 \in 0..last /\ \A i \in 1..last : i \in 0..last /\ i # 0
    BY <1>1
  <2>3. f[0] = s
    BY <2>1, <2>2
  <2>4. ASSUME NEW i \in 1..last
        PROVE  f[i] = IF last + 1 - i \in erased
                      THEN EraseMaster(f[i - 1], last + 1 - i) ELSE f[i - 1]
    <3>1. i \in 0..last /\ i # 0
      BY <2>2
    <3>2. QED
      BY <2>1, <3>1
  <2>5. QED
    BY <2>3, <2>4
<1> DEFINE N == {i \in Nat : i <= last => AfterRounds(s, bad, i, f[i])}
<1>4. 0 \in N
  <2>1. \A k \in 1..Len(s.accounts) : SameWallet(s.accounts[k], s.accounts[k])
    BY DEF SameWallet
  <2>2. /\ last - 0 = last /\ last <= last
        /\ \A m \in 1..last : ~(m > last)
    BY <1>1
  <2>3. AfterRounds(s, bad, 0, s)
    BY <2>1, <2>2 DEF AfterRounds
  <2>4. QED
    BY <1>3, <2>3
<1>5. ASSUME NEW i \in Nat, i \in N PROVE i + 1 \in N
  <2>1. SUFFICES ASSUME i + 1 <= last
                 PROVE  AfterRounds(s, bad, i + 1, f[i + 1])
    OBVIOUS
  <2>2. /\ i \in 0..(last - 1) /\ i + 1 \in 1..last /\ i <= last
        /\ last + 1 - (i + 1) = last - i /\ (i + 1) - 1 = i
        /\ last - i \in 1..last
    <3>1. \A x \in Nat : i + 1 <= x =>
             /\ i \in 0..(x - 1) /\ i + 1 \in 1..x /\ i <= x
             /\ x + 1 - (i + 1) = x - i /\ (i + 1) - 1 = i
             /\ x - i \in 1..x
      BY <1>5
    <3> HIDE DEF last
    <3>2. QED
      BY <1>1, <2>1, <3>1
  <2>3. AfterRounds(s, bad, i, f[i])
    BY <1>5, <2>2
  <2>4. f[i + 1] = IF last - i \in erased
                   THEN EraseMaster(f[i], last - i) ELSE f[i]
    BY <1>3, <2>2
  <2>5. CASE s.masters[last - i].entropy \in bad
    <3>1. f[i + 1] = EraseMaster(f[i], last - i)
      BY <2>2, <2>4, <2>5
    <3>2. QED
      BY <2>2, <2>3, <2>5, <3>1, ErasingRound
  <2>6. CASE s.masters[last - i].entropy \notin bad
    <3>1. f[i + 1] = f[i]
      BY <2>2, <2>4, <2>6
    <3>2. QED
      BY <2>2, <2>3, <2>6, <3>1, KeepingRound
  <2>7. QED
    BY <2>5, <2>6
<1>6. last \in N
  <2> HIDE DEF N
  <2>1. Nat \subseteq N
    BY <1>4, <1>5, NumberInduction
  <2>2. QED
    BY <1>1, <2>1
<1>7. QED
  BY <1>1, <1>2, <1>6

-----------------------------------------------------------------------------
(* remove_account.                                                         *)

\* The list without one wallet.
LEMMA WithoutAccountKeeps ==
    ASSUME NEW t, Sound(t), NEW n, HasName(t, n),
           NEW s, s = WithoutAccount(t, n)
    PROVE  /\ Sound(s) /\ s.masters = t.masters
           /\ \A i \in 1..Len(s.accounts) :
                 s.accounts[i] \in Accounts(t) /\ s.accounts[i].name # n
           /\ \A a \in Accounts(t) : a.name # n =>
                 \E i \in 1..Len(s.accounts) : s.accounts[i] = a
<1> DEFINE p == Position(t, n)
           l == Len(t.accounts)
<1>1. /\ t.accounts \in Seq(AccountRecords) /\ l \in 0..MaxAccounts
      /\ t \in Tables /\ Len(t.masters) <= MaxMasters
      /\ IsFiniteSet(t.recipients) /\ Cardinality(t.recipients) <= MaxRecipients
      /\ OneNameEach(t) /\ \A i \in 1..l : Refers(t, t.accounts[i])
  BY SoundParts DEF Sound
<1>2. /\ p \in 1..l /\ t.accounts[p].name = n
      /\ MaxAccounts \in Nat /\ l \in Nat /\ l <= MaxAccounts
  BY <1>1, NameFound, LimitsAssumption
<1>3. /\ RemoveAt(t.accounts, p) \in Seq(AccountRecords)
      /\ Len(RemoveAt(t.accounts, p)) = l - 1
      /\ \A i \in 1..(l - 1) :
            RemoveAt(t.accounts, p)[i]
               = IF i < p THEN t.accounts[i] ELSE t.accounts[i + 1]
  BY <1>1, <1>2, RemoveAtEntries
<1>4. /\ s \in Tables /\ s.masters = t.masters /\ s.recipients = t.recipients
      /\ s.accounts = RemoveAt(t.accounts, p)
  BY <1>1, <1>3 DEF WithoutAccount, Tables
<1> HIDE DEF p, l
<1> DEFINE old(i) == IF i < p THEN i ELSE i + 1
<1>5. \A i \in 1..(l - 1) :
         /\ old(i) \in 1..l /\ old(i) # p /\ s.accounts[i] = t.accounts[old(i)]
  BY <1>2, <1>3, <1>4
<1>6. \A i, j \in 1..(l - 1) : old(i) = old(j) => i = j
  BY <1>2
<1>7. \A j \in 1..l : j # p => \E i \in 1..(l - 1) : old(i) = j
  <2>1. SUFFICES ASSUME NEW j \in 1..l, j # p
                 PROVE  \E i \in 1..(l - 1) : old(i) = j
    OBVIOUS
  <2>2. CASE j < p
    <3>1. j \in 1..(l - 1) /\ old(j) = j
      BY <1>2, <2>2
    <3>2. QED
      BY <3>1
  <2>3. CASE j > p
    <3>1. j - 1 \in 1..(l - 1) /\ old(j - 1) = j
      BY <1>2, <2>3
    <3>2. QED
      BY <3>1
  <2>4. QED
    BY <1>2, <2>1, <2>2, <2>3
<1> HIDE DEF old
<1>8. \A i, j \in 1..l : t.accounts[i].name = t.accounts[j].name => i = j
  BY <1>1 DEF OneNameEach, l
<1>9. OneNameEach(s)
  BY <1>3, <1>4, <1>5, <1>6, <1>8 DEF OneNameEach
<1>10. \A i \in 1..(l - 1) : Refers(s, s.accounts[i])
  BY <1>1, <1>4, <1>5 DEF Refers, l
<1>11. Len(s.accounts) = l - 1 /\ l - 1 <= MaxAccounts
  BY <1>2, <1>3, <1>4
<1>12. Sound(s)
  BY <1>1, <1>4, <1>9, <1>10, <1>11 DEF Sound
<1>13. Accounts(t) = {t.accounts[i] : i \in 1..l}
  BY ByPosition DEF l
<1>14. \A i \in 1..(l - 1) :
          s.accounts[i] \in Accounts(t) /\ s.accounts[i].name # n
  BY <1>2, <1>5, <1>8, <1>13
<1>15. ASSUME NEW a \in Accounts(t), a.name # n
       PROVE  \E i \in 1..(l - 1) : s.accounts[i] = a
  <2>1. PICK j \in 1..l : a = t.accounts[j]
    BY <1>13
  <2>2. j # p
    BY <1>2, <1>15, <2>1
  <2>3. PICK i \in 1..(l - 1) : old(i) = j
    BY <1>7, <2>2
  <2>4. QED
    BY <1>5, <2>1, <2>3
<1>16. QED
  BY <1>4, <1>11, <1>12, <1>14, <1>15

\* The wallet goes, and its phrase only on demand and if no other wallet's
\* key comes from it; every other wallet and phrase stays.
LEMMA RemoveAccountKeeps ==
    ASSUME NEW t, Sound(t), NEW n, NEW erase \in BOOLEAN,
           RemoveAccepted(t, n, erase),
           NEW u, u = RemoveAccount(t, n, erase)
    PROVE  /\ Sound(u) /\ KeepsAhead(t, u)
           /\ \A b \in Accounts(u) : HasName(t, b.name) /\ b.name # n
           /\ \A a \in Accounts(t) : ~HasName(u, a.name) =>
                 a = AccountNamed(t, n)
           /\ \A e \in Phrases(t) \ Phrases(u) :
                 /\ erase /\ RecoveryPhraseUse(t, n) = "UnusedAfterDeletion"
                 /\ AccountNamed(t, n).address[1] = e
                 /\ \A a \in Accounts(t) :
                       a.name # n /\ a.kind = "derived" => PhraseOf(t, a) # e
<1> DEFINE a == AccountNamed(t, n)
           s == WithoutAccount(t, n)
           gone == erase /\ a.kind = "derived"
           bad == IF gone THEN {PhraseOf(t, a)} ELSE {}
           erased == IF gone THEN Copies(t, PhraseOf(t, a)) ELSE {}
<1>1. HasName(t, n) /\ (erase => RecoveryPhraseUse(t, n) = "UnusedAfterDeletion")
  BY DEF RemoveAccepted
<1>2. /\ a \in AccountRecords /\ a \in Accounts(t) /\ a.name = n /\ Refers(t, a)
  BY <1>1, NameFound
<1>3. /\ Sound(s) /\ s.masters = t.masters
      /\ \A i \in 1..Len(s.accounts) :
            s.accounts[i] \in Accounts(t) /\ s.accounts[i].name # n
      /\ \A b \in Accounts(t) : b.name # n =>
            \E i \in 1..Len(s.accounts) : s.accounts[i] = b
  BY <1>1, WithoutAccountKeeps
<1>4. u = EraseMasters(s, erased)
  BY DEF RemoveAccount
<1>5. ASSUME gone
      PROVE  \A b \in Accounts(t) :
                b.name # n /\ b.kind = "derived" => PhraseOf(t, b) # PhraseOf(t, a)
  <2>1. RecoveryPhraseUse(t, n) = "UnusedAfterDeletion"
    BY <1>1, <1>5
  <2>2. a.kind # "imported" /\ a.kind = "derived"
    BY <1>5
  <2>3. ~(\E b \in Accounts(t) : b.name # n /\ b.kind = "derived"
                                   /\ PhraseOf(t, b) = PhraseOf(t, a))
    BY <2>1, <2>2 DEF RecoveryPhraseUse
  <2>4. QED
    BY <2>3
<1>6. /\ \A b \in Accounts(t) : Refers(t, b)
      /\ \A b \in Accounts(t) : b.kind = "derived" => b.address[1] = PhraseOf(t, b)
  <2>1. \A b \in Accounts(t) : Refers(t, b)
    BY ByPosition DEF Sound
  <2>2. QED
    BY <2>1 DEF Refers, PhraseOf
<1>7. \A i \in 1..Len(s.accounts) :
         s.accounts[i].kind = "derived" => s.accounts[i].address[1] \notin bad
  BY <1>3, <1>5, <1>6
<1>8. /\ DOMAIN t.masters = 1..Len(t.masters)
      /\ \A m \in 1..Len(t.masters) : t.masters[m].next \in 1..MaxIndex
      /\ Len(t.masters) \in Nat /\ MaxIndex \in Nat
  BY SoundParts, LimitsAssumption
<1>9. erased = {m \in 1..Len(s.masters) : s.masters[m].entropy \in bad}
  BY <1>3, <1>8 DEF Copies
<1> HIDE DEF s, a, gone, erased
<1>10. AfterRounds(s, bad, Len(s.masters), u)
  <2> HIDE DEF bad
  <2>1. AfterRounds(s, bad, Len(s.masters), EraseMasters(s, erased))
    BY <1>3, <1>7, <1>9, EraseMastersKeeps, Zenon
  <2>2. QED
    BY <1>4, <2>1
<1>11. /\ Sound(u)
       /\ Len(u.accounts) = Len(s.accounts)
       /\ \A k \in 1..Len(s.accounts) :
             SameWallet(u.accounts[k], s.accounts[k])
       /\ \A m \in 1..Len(u.masters) : m > 0 => u.masters[m].entropy \notin bad
       /\ \A m \in 1..Len(t.masters) :
             t.masters[m].entropy \notin bad =>
                \E k \in 1..Len(u.masters) : u.masters[k] = t.masters[m]
  <2> HIDE DEF bad
  <2>1. Len(s.masters) - Len(s.masters) = 0
    BY <1>3, <1>8
  <2>2. QED
    BY <1>3, <1>10, <2>1 DEF AfterRounds
<1>12. \A m \in 1..Len(u.masters) : u.masters[m].entropy \notin bad
  <2>1. Len(u.masters) \in Nat
    BY <1>11, SoundParts, LimitsAssumption
  <2> HIDE DEF bad
  <2>2. \A m \in 1..Len(u.masters) : m > 0
    BY <2>1
  <2>3. QED
    BY <1>11, <2>2
<1>13. /\ Accounts(u) = {u.accounts[i] : i \in 1..Len(u.accounts)}
       /\ Phrases(u) = {u.masters[m].entropy : m \in 1..Len(u.masters)}
       /\ \A x : HasName(u, x) <=>
                    \E i \in 1..Len(u.accounts) : u.accounts[i].name = x
  BY <1>11, ByPosition
<1>14. /\ Phrases(t) = {t.masters[m].entropy : m \in 1..Len(t.masters)}
  BY ByPosition
<1>15. KeepsAhead(t, u)
  <2>1. SUFFICES ASSUME NEW m \in 1..Len(t.masters),
                        t.masters[m].entropy \in Phrases(u)
                 PROVE  \E k \in 1..Len(u.masters) :
                            /\ u.masters[k].entropy = t.masters[m].entropy
                            /\ t.masters[m].next <= u.masters[k].next
    BY DEF KeepsAhead
  <2>2. t.masters[m].entropy \notin bad
    BY <1>12, <1>13, <2>1
  <2>3. PICK k \in 1..Len(u.masters) : u.masters[k] = t.masters[m]
    BY <1>11, <2>2
  <2>4. t.masters[m].next <= t.masters[m].next
    BY <1>8
  <2>5. QED
    BY <2>3, <2>4
<1>16. ASSUME NEW b \in Accounts(u)
       PROVE  HasName(t, b.name) /\ b.name # n
  <2>1. PICK i \in 1..Len(s.accounts) : b = u.accounts[i]
    BY <1>11, <1>13
  <2>2. b.name = s.accounts[i].name
    BY <1>11, <2>1 DEF SameWallet
  <2>3. QED
    BY <1>3, <2>2 DEF HasName
<1>17. ASSUME NEW b \in Accounts(t), b.name # n
       PROVE  HasName(u, b.name)
  <2>1. PICK i \in 1..Len(s.accounts) : s.accounts[i] = b
    BY <1>3, <1>17
  <2>2. u.accounts[i].name = b.name
    BY <1>11, <2>1 DEF SameWallet
  <2>3. QED
    BY <1>11, <1>13, <2>2
<1>18. ASSUME NEW b \in Accounts(t), b.name = n
       PROVE  b = a
  <2>1. PICK i \in 1..Len(t.accounts) : b = t.accounts[i]
    BY ByPosition
  <2>2. QED
    BY <1>18, <2>1, NamedAccount DEF a
<1>19. ASSUME NEW e \in Phrases(t) \ Phrases(u)
       PROVE  e \in bad
  <2>1. PICK m \in 1..Len(t.masters) : e = t.masters[m].entropy
    BY <1>14
  <2>2. SUFFICES ASSUME e \notin bad PROVE FALSE
    OBVIOUS
  <2>3. PICK k \in 1..Len(u.masters) : u.masters[k] = t.masters[m]
    BY <1>11, <2>1, <2>2
  <2>4. QED
    BY <1>13, <1>19, <2>1, <2>3
<1>20. ASSUME NEW e \in bad
       PROVE  /\ erase /\ RecoveryPhraseUse(t, n) = "UnusedAfterDeletion"
              /\ a.address[1] = e
              /\ \A b \in Accounts(t) :
                    b.name # n /\ b.kind = "derived" => PhraseOf(t, b) # e
  <2>1. gone /\ e = PhraseOf(t, a)
    OBVIOUS
  <2>2. erase /\ a.kind = "derived"
    BY <2>1 DEF gone
  <2>3. QED
    BY <1>1, <1>2, <1>5, <1>6, <2>1, <2>2
<1>21. QED
  BY <1>11, <1>15, <1>16, <1>17, <1>18, <1>19, <1>20 DEF a

-----------------------------------------------------------------------------
(* The commands.                                                           *)

Indices == 0..(MaxIndex - 1)

\* c is about to save what new, import or remember_recipient make of t.
Grown(t, c) ==
    \/ \E n \in Names, e \in Entropies :
          /\ c.of.op \in {"new", "import"}
          /\ AddMasterAccepted(t, n) /\ c.table = AddMaster(t, n, e)
    \/ \E n \in Names, key \in Keypairs :
          /\ c.of.op = "import"
          /\ AddImportedAccepted(t, n) /\ c.table = AddImported(t, n, key)
    \/ \E n, source \in Names :
          /\ c.of.op = "derive"
          /\ AddDerivedAccepted(t, n, source)
          /\ c.table = AddDerived(t, n, source)
    \/ \E r \in Recipients :
          c.of.op = "remember" /\ c.table = RememberRecipient(t, r)

\* What c has shown is true of t.
SeenIn(t, c) ==
    /\ HasName(t, c.name)
    /\ c.account = AccountNamed(t, c.name)
    /\ c.use = RecoveryPhraseUse(t, c.name)

\* c is about to save what delete makes of t, as it has shown it.
Shrunk(t, c) ==
    /\ c.of.op \in {"delete", "erase"}
    /\ SeenIn(t, c.of)
    /\ RemoveAccepted(t, c.of.name, c.of.op = "erase")
    /\ c.table = RemoveAccount(t, c.of.name, c.of.op = "erase")

FileInv ==
    /\ file \in window
    /\ \A f \in window : f \in Files /\ f.rev <= file.rev /\ Sound(f.table)

\* A command that waits has seen a revision; if it is still the file's, what
\* was seen is still so.
ReviewInv(c) ==
    c.stage \in {"review", "approved"} =>
        /\ c.op \in {"import", "delete", "erase", "key", "mnemonic"}
        /\ c.stage = "approved" => c.op \in {"delete", "erase"}
        /\ c.op = "import" => c.name \in Names
        /\ c.op # "import" =>
              /\ c.rev \in Nat /\ c.rev <= file.rev
              /\ c.rev = file.rev => SeenIn(file.table, c)

\* A save that will not be refused replaces the table it was made from.
SaveInv(c) ==
    c.stage = "save" =>
        /\ c.base \in 0..MaxRev /\ c.base <= file.rev
        /\ Sound(c.table)
        /\ c.base = file.rev => Grown(file.table, c) \/ Shrunk(file.table, c)

RevealedInv(c) ==
    c.stage = "revealed" =>
        c.secret \in Keys /\ c.secret = c.account.address

CommandInv(c) ==
    /\ c.stage \in Stages
    /\ ReviewInv(c) /\ SaveInv(c) /\ RevealedInv(c)

CmdInv ==
    /\ DOMAIN cmd = Procs
    /\ \A p \in Procs : CommandInv(cmd[p])

IssuedInv ==
    /\ issued \subseteq Entropies \X Indices
    /\ \A f \in window : \A a \in issued : Ahead(f.table, a)

WalletsInv == FileInv /\ CmdInv /\ IssuedInv

-----------------------------------------------------------------------------
(* What a save that succeeds does to the table.                            *)

\* An address that is gone or new, and a phrase that is gone, are accounted
\* for; every other address stays behind the table's indices.
GoodChange(t, c) ==
    /\ Sound(c.table) /\ KeepsAhead(t, c.table)
    /\ Printed(c) \subseteq Entropies \X Indices
    /\ \A a \in Printed(c) : Ahead(c.table, a)
    /\ \A b \in Accounts(c.table) :
          ~HasName(t, b.name) /\ b.kind = "derived" /\ b.index > 0 =>
             \A x \in Entropies \X Indices : Ahead(t, x) => b.address # x
    /\ \A a \in Accounts(t) :
          ~HasName(c.table, a.name) =>
             /\ c.of.op \in {"delete", "erase"} /\ c.of.account = a
             /\ c.of.use = RecoveryPhraseUse(t, a.name)
    /\ \A e \in Phrases(t) \ Phrases(c.table) :
          /\ c.of.op = "erase" /\ c.of.use = "UnusedAfterDeletion"
          /\ c.of.account.address[1] = e
          /\ \A a \in Accounts(t) :
                HasName(c.table, a.name) /\ a.kind = "derived" =>
                   PhraseOf(t, a) # e

\* A change that keeps every wallet and phrase, and prints nothing.
LEMMA KeepingIsGood ==
    ASSUME NEW t, NEW c, Keeps(t, c.table), c.of.op # "derive",
           \A b \in Accounts(c.table) :
               ~HasName(t, b.name) => b.kind # "derived" \/ ~(b.index > 0)
    PROVE  GoodChange(t, c)
  BY DEF GoodChange, Keeps, KeepsNames, Printed

\* Every change of a command is good.
LEMMA ChangesAreGood ==
    ASSUME NEW t, Sound(t), NEW c, Grown(t, c) \/ Shrunk(t, c)
    PROVE  GoodChange(t, c)
<1> DEFINE u == c.table
<1>1. CASE \E n \in Names, e \in Entropies :
              /\ c.of.op \in {"new", "import"}
              /\ AddMasterAccepted(t, n) /\ u = AddMaster(t, n, e)
  <2>1. PICK n \in Names, e \in Entropies :
           AddMasterAccepted(t, n) /\ u = AddMaster(t, n, e)
    BY <1>1
  <2>2. Keeps(t, u) /\ \E a : a.index = 0 /\ OnlyNew(t, u, a)
    BY <2>1, AddMasterKeeps
  <2>3. \A b \in Accounts(u) : ~HasName(t, b.name) => ~(b.index > 0)
    BY <2>2 DEF OnlyNew
  <2>4. c.of.op # "derive"
    BY <1>1
  <2>5. QED
    BY <2>2, <2>3, <2>4, KeepingIsGood
<1>2. CASE \E n \in Names, key \in Keypairs :
              /\ c.of.op = "import"
              /\ AddImportedAccepted(t, n) /\ u = AddImported(t, n, key)
  <2>1. PICK n \in Names, key \in Keypairs :
           AddImportedAccepted(t, n) /\ u = AddImported(t, n, key)
    BY <1>2
  <2>2. Keeps(t, u) /\ \E a : a.kind = "imported" /\ OnlyNew(t, u, a)
    BY <2>1, AddImportedKeeps
  <2>3. \A b \in Accounts(u) : ~HasName(t, b.name) => b.kind # "derived"
    BY <2>2 DEF OnlyNew
  <2>4. c.of.op # "derive"
    BY <1>2
  <2>5. QED
    BY <2>2, <2>3, <2>4, KeepingIsGood
<1>3. CASE \E n, source \in Names :
              /\ c.of.op = "derive"
              /\ AddDerivedAccepted(t, n, source)
              /\ u = AddDerived(t, n, source)
  <2>1. PICK n \in Names, source \in Names :
           AddDerivedAccepted(t, n, source) /\ u = AddDerived(t, n, source)
    BY <1>3
  <2>2. Keeps(t, u)
    BY <2>1, AddDerivedKeeps
  <2>3. PICK a \in AccountRecords :
           /\ a.address \in Entropies \X Indices
           /\ OnlyNew(t, u, a) /\ Ahead(u, a.address)
           /\ \A x \in Entropies \X Indices : Ahead(t, x) => a.address # x
    BY <2>1, AddDerivedKeeps DEF Indices
  <2>4. Printed(c) = {a.address}
    BY <1>3, <2>3 DEF Printed, OnlyNew
  <2>5. QED
    BY <2>2, <2>3, <2>4 DEF GoodChange, Keeps, KeepsNames, OnlyNew
<1>4. CASE \E r \in Recipients :
              c.of.op = "remember" /\ u = RememberRecipient(t, r)
  <2>1. PICK r \in Recipients : u = RememberRecipient(t, r)
    BY <1>4
  <2>2. Keeps(t, u) /\ \A b \in Accounts(u) : HasName(t, b.name)
    BY <2>1, RememberKeeps
  <2>3. c.of.op # "derive"
    BY <1>4
  <2>4. QED
    BY <2>2, <2>3, KeepingIsGood
<1>5. CASE Shrunk(t, c)
  <2> DEFINE n == c.of.name
             erase == (c.of.op = "erase")
  <2>1. /\ c.of.op \in {"delete", "erase"} /\ HasName(t, n)
        /\ c.of.account = AccountNamed(t, n)
        /\ c.of.use = RecoveryPhraseUse(t, n)
        /\ RemoveAccepted(t, n, erase) /\ u = RemoveAccount(t, n, erase)
    BY <1>5 DEF Shrunk, SeenIn
  <2>2. erase \in BOOLEAN
    OBVIOUS
  <2> HIDE DEF erase
  <2>3. /\ Sound(u) /\ KeepsAhead(t, u)
        /\ \A b \in Accounts(u) : HasName(t, b.name) /\ b.name # n
        /\ \A a \in Accounts(t) : ~HasName(u, a.name) =>
              a = AccountNamed(t, n)
        /\ \A e \in Phrases(t) \ Phrases(u) :
              /\ erase /\ RecoveryPhraseUse(t, n) = "UnusedAfterDeletion"
              /\ AccountNamed(t, n).address[1] = e
              /\ \A a \in Accounts(t) :
                    a.name # n /\ a.kind = "derived" => PhraseOf(t, a) # e
    BY <2>1, <2>2, RemoveAccountKeeps
  <2>4. Printed(c) = {}
    BY <2>1 DEF Printed
  <2>5. AccountNamed(t, n).name = n
    BY <2>1, NameFound
  <2>6. \A a : HasName(u, a.name) => a.name # n
    BY <2>3 DEF HasName
  <2>7. \A a \in Accounts(t) : ~HasName(u, a.name) =>
           c.of.account = a /\ c.of.use = RecoveryPhraseUse(t, a.name)
    BY <2>1, <2>3, <2>5
  <2>8. \A e \in Phrases(t) \ Phrases(u) :
           /\ c.of.op = "erase" /\ c.of.use = "UnusedAfterDeletion"
           /\ c.of.account.address[1] = e
           /\ \A a \in Accounts(t) :
                 HasName(u, a.name) /\ a.kind = "derived" => PhraseOf(t, a) # e
    BY <2>1, <2>3, <2>6 DEF erase
  <2>9. QED
    BY <2>1, <2>3, <2>4, <2>7, <2>8 DEF GoodChange
<1>6. QED
  BY <1>1, <1>2, <1>3, <1>4, <1>5 DEF Grown

-----------------------------------------------------------------------------
(* The invariant.                                                          *)

\* The initial vault is empty.
LEMMA InitSound ==
    ASSUME Init
    PROVE  WalletsInv
<1>1. /\ file = [rev |-> 0, table |-> Empty] /\ window = {file}
      /\ cmd = [p \in Procs |-> Idle] /\ issued = {}
  BY DEF Init
<1>2. Sound(Empty)
  BY EmptyIsSound
<1>3. Empty \in Tables /\ 0 \in 0..MaxRev
  BY <1>2, RevAssumption DEF Sound
<1>4. FileInv
  BY <1>1, <1>2, <1>3 DEF FileInv, Files
<1>5. CommandInv(Idle)
  BY DEF CommandInv, Idle, Stages, ReviewInv, SaveInv, RevealedInv
<1>6. CmdInv
  BY <1>1, <1>5 DEF CmdInv
<1>7. IssuedInv
  BY <1>1 DEF IssuedInv
<1>8. QED
  BY <1>4, <1>6, <1>7 DEF WalletsInv

\* A process moves on to a command that is in order; the vault stays.
LEMMA BecomeKeeps ==
    ASSUME WalletsInv, NEW p \in Procs, NEW c, CommandInv(c), Become(p, c)
    PROVE  WalletsInv'
<1>1. /\ cmd' = [cmd EXCEPT ![p] = c]
      /\ file' = file /\ window' = window /\ issued' = issued
  BY DEF Become
<1>2. DOMAIN cmd = Procs /\ \A q \in Procs : CommandInv(cmd[q])
  BY DEF WalletsInv, CmdInv
<1>3. DOMAIN cmd' = Procs /\ \A q \in Procs : cmd'[q] = IF q = p THEN c ELSE cmd[q]
  BY <1>1, <1>2
<1>4. FileInv' /\ IssuedInv'
  BY <1>1 DEF WalletsInv, FileInv, IssuedInv
<1>5. ASSUME NEW q \in Procs PROVE CommandInv(cmd[q])'
  <2>1. CommandInv(cmd'[q])
    BY <1>2, <1>3
  <2>2. QED
    BY <1>1, <2>1
       DEF CommandInv, ReviewInv, SaveInv, RevealedInv
<1>6. CmdInv'
  BY <1>3, <1>5 DEF CmdInv
<1>7. QED
  BY <1>4, <1>6 DEF WalletsInv

\* A command that has changed its copy of the vault.
LEMMA ChangedInOrder ==
    ASSUME WalletsInv, NEW of, NEW table,
           LET c == Changed(of, table) IN Grown(file.table, c) \/ Shrunk(file.table, c)
    PROVE  CommandInv(Changed(of, table))
<1> DEFINE c == Changed(of, table)
<1>1. c.stage = "save" /\ c.base = file.rev /\ c.table = table
  BY DEF Changed
<1>2. Sound(file.table) /\ file.rev \in 0..MaxRev
  BY DEF WalletsInv, FileInv, Files
<1> HIDE DEF c
<1>3. GoodChange(file.table, c)
  BY <1>2, ChangesAreGood DEF c
<1>4. Sound(c.table)
  BY <1>3 DEF GoodChange
<1>5. file.rev <= file.rev
  BY <1>2, RevAssumption
<1>6. SaveInv(c)
  BY <1>1, <1>2, <1>4, <1>5 DEF SaveInv, c
<1>7. ReviewInv(c) /\ RevealedInv(c) /\ c.stage \in Stages
  BY <1>1 DEF ReviewInv, RevealedInv, Stages
<1>8. QED
  BY <1>6, <1>7 DEF CommandInv, c

\* What delete and export show is true of the file.
LEMMA ShownInOrder ==
    ASSUME WalletsInv, NEW n, HasName(file.table, n),
           NEW op \in {"delete", "key", "mnemonic"}
    PROVE  CommandInv(Shown(n, "review", op))
<1> DEFINE c == Shown(n, "review", op)
<1>1. /\ c.stage = "review" /\ c.op = op /\ c.name = n /\ c.rev = file.rev
      /\ c.account = AccountNamed(file.table, n)
      /\ c.use = RecoveryPhraseUse(file.table, n)
  BY DEF Shown
<1>2. file.rev \in 0..MaxRev
  BY DEF WalletsInv, FileInv, Files
<1>3. file.rev \in Nat /\ file.rev <= file.rev
  BY <1>2, RevAssumption
<1> HIDE DEF c
<1>4. ReviewInv(c)
  BY <1>1, <1>3 DEF ReviewInv, SeenIn
<1>5. QED
  BY <1>1, <1>4 DEF CommandInv, SaveInv, RevealedInv, Stages, c

\* A save replaces the file by the command's copy.
Saves(p) ==
    /\ cmd[p].stage = "save" /\ file.rev = cmd[p].base /\ file.rev < MaxRev
    /\ file' = Committed(cmd[p])
    /\ cmd' = [cmd EXCEPT ![p] = Idle]

\* The new file, and the change that made it.
LEMMA SavedFile ==
    ASSUME WalletsInv, NEW p \in Procs, Saves(p)
    PROVE  /\ file'.rev = file.rev + 1 /\ file'.table = cmd[p].table
           /\ file.rev \in Nat /\ file'.rev \in 0..MaxRev
           /\ Sound(file.table) /\ GoodChange(file.table, cmd[p])
           /\ file' \in Files
<1>1. file'.rev = file.rev + 1 /\ file'.table = cmd[p].table
  BY DEF Saves, Committed
<1>2. Sound(file.table) /\ file.rev \in 0..MaxRev
  BY DEF WalletsInv, FileInv, Files
<1>3. file.rev \in Nat /\ file'.rev \in 0..MaxRev
  BY <1>1, <1>2, RevAssumption DEF Saves
<1>4. SaveInv(cmd[p]) /\ cmd[p].stage = "save" /\ cmd[p].base = file.rev
  BY DEF WalletsInv, CmdInv, CommandInv, Saves
<1>5. Sound(cmd[p].table) /\ GoodChange(file.table, cmd[p])
  BY <1>2, <1>4, ChangesAreGood DEF SaveInv
<1>6. cmd[p].table \in Tables
  BY <1>5 DEF Sound
<1>7. file' \in Files
  BY <1>1, <1>3, <1>6 DEF Saves, Committed, Files
<1>8. QED
  BY <1>1, <1>2, <1>3, <1>5, <1>7

\* After a save the invariant holds, whatever the window keeps of the old
\* files and the user has been told.
LEMMA SavesKeep ==
    ASSUME WalletsInv, NEW p \in Procs, Saves(p),
           window' \in {{file'}, window \cup {file'}},
           \/ /\ issued' = IssuedIn(cmd[p].table, issued \cup Printed(cmd[p]))
              /\ window' = {file'}
           \/ issued' = IssuedIn(cmd[p].table, issued)
    PROVE  WalletsInv'
<1> DEFINE u == cmd[p].table
           t == file.table
<1>1. /\ file'.rev = file.rev + 1 /\ file'.table = u
      /\ file.rev \in Nat /\ file'.rev \in 0..MaxRev /\ file' \in Files
      /\ Sound(t) /\ GoodChange(t, cmd[p])
  BY SavedFile
<1>2. /\ Sound(u) /\ KeepsAhead(t, u)
      /\ Printed(cmd[p]) \subseteq Entropies \X Indices
      /\ \A a \in Printed(cmd[p]) : Ahead(u, a)
  BY <1>1 DEF GoodChange
<1>3. /\ file \in window
      /\ \A f \in window : f \in Files /\ f.rev <= file.rev /\ Sound(f.table)
      /\ issued \subseteq Entropies \X Indices
      /\ \A f \in window : \A a \in issued : Ahead(f.table, a)
      /\ DOMAIN cmd = Procs
      /\ \A q \in Procs : CommandInv(cmd[q])
  BY DEF WalletsInv, FileInv, IssuedInv, CmdInv
<1>4. \A f \in window : f.rev \in Nat
  BY <1>3, RevAssumption DEF Files
<1>5. FileInv'
  <2>1. \A f \in window' : f \in window \/ f = file'
    OBVIOUS
  <2>2. \A f \in window : f.rev <= file'.rev
    BY <1>1, <1>3, <1>4
  <2>3. file'.rev <= file'.rev
    BY <1>1
  <2>4. QED
    BY <1>1, <1>2, <1>3, <2>1, <2>2, <2>3 DEF FileInv
<1>6. CmdInv'
  <2>1. DOMAIN cmd' = Procs /\ \A q \in Procs :
           cmd'[q] = IF q = p THEN Idle ELSE cmd[q]
    BY <1>3 DEF Saves
  <2>2. ASSUME NEW q \in Procs PROVE CommandInv(cmd[q])'
    <3>1. CASE q = p
      <4>1. cmd'[q] = Idle
        BY <2>1, <3>1
      <4>2. QED
        BY <4>1 DEF CommandInv, Idle, Stages, ReviewInv, SaveInv, RevealedInv
    <3>2. CASE q # p
      <4>1. cmd'[q] = cmd[q] /\ CommandInv(cmd[q])
        BY <1>3, <2>1, <3>2
      <4>2. /\ cmd[q].stage \in Stages
            /\ ReviewInv(cmd[q]) /\ SaveInv(cmd[q]) /\ RevealedInv(cmd[q])
        BY <4>1 DEF CommandInv
      <4>3. ReviewInv(cmd[q])'
        <5>1. SUFFICES ASSUME cmd[q].stage \in {"review", "approved"},
                              cmd[q].op # "import"
                       PROVE  cmd[q].rev <= file'.rev /\ cmd[q].rev # file'.rev
          BY <4>1, <4>2 DEF ReviewInv
        <5>2. cmd[q].rev \in Nat /\ cmd[q].rev <= file.rev
          BY <4>2, <5>1 DEF ReviewInv
        <5>3. QED
          BY <5>2, <1>1
      <4>4. SaveInv(cmd[q])'
        <5>1. SUFFICES ASSUME cmd[q].stage = "save"
                       PROVE  cmd[q].base <= file'.rev /\ cmd[q].base # file'.rev
          BY <4>1, <4>2 DEF SaveInv
        <5>2. cmd[q].base \in 0..MaxRev /\ cmd[q].base <= file.rev
          BY <4>2, <5>1 DEF SaveInv
        <5>3. cmd[q].base \in Nat
          BY <5>2, RevAssumption
        <5>4. QED
          BY <5>2, <5>3, <1>1
      <4>5. RevealedInv(cmd[q])'
        BY <4>1, <4>2 DEF RevealedInv
      <4>6. QED
        BY <4>1, <4>2, <4>3, <4>4, <4>5 DEF CommandInv
    <3>3. QED
      BY <3>1, <3>2
  <2>3. QED
    BY <2>1, <2>2 DEF CmdInv
<1>7. ASSUME NEW a \in issued, a[1] \in Phrases(u)
      PROVE  Ahead(u, a)
  <2>1. Ahead(t, a) /\ a \in Entropies \X Indices
    BY <1>3
  <2>2. PICK m \in 1..Len(t.masters) :
           t.masters[m].entropy = a[1] /\ a[2] < t.masters[m].next
    BY <2>1 DEF Ahead
  <2>3. PICK k \in 1..Len(u.masters) :
           /\ u.masters[k].entropy = t.masters[m].entropy
           /\ t.masters[m].next <= u.masters[k].next
    BY <1>2, <1>7, <2>2 DEF KeepsAhead
  <2>4. /\ t.masters[m].next \in 1..MaxIndex /\ u.masters[k].next \in 1..MaxIndex
        /\ a[2] \in 0..(MaxIndex - 1)
    BY <1>1, <1>2, <2>1, SoundParts DEF Indices
  <2>5. MaxIndex \in Nat
    BY LimitsAssumption
  <2>6. a[2] < u.masters[k].next
    <3>1. \A x, y, z \in Int : x < y /\ y <= z => x < z
      OBVIOUS
    <3>2. /\ \A x \in 1..MaxIndex : x \in Int
          /\ \A x \in 0..(MaxIndex - 1) : x \in Int
      BY <2>5
    <3>3. /\ a[2] \in Int
          /\ t.masters[m].next \in Int /\ u.masters[k].next \in Int
      BY <2>4, <3>2
    <3>4. QED
      BY <2>2, <2>3, <3>1, <3>3
  <2>7. QED
    BY <2>2, <2>3, <2>6 DEF Ahead
<1>8. /\ issued' \subseteq Entropies \X Indices
      /\ \A a \in issued' : Ahead(u, a)
  BY <1>2, <1>3, <1>7 DEF IssuedIn
<1>9. ASSUME NEW f \in window', NEW a \in issued'
      PROVE  Ahead(f.table, a)
  <2>1. CASE f = file'
    BY <1>1, <1>8, <2>1
  <2>2. CASE f # file'
    <3>1. f \in window /\ window' # {file'}
      BY <2>2
    <3>2. a \in issued
      BY <3>1 DEF IssuedIn
    <3>3. QED
      BY <1>3, <3>1, <3>2
  <2>3. QED
    BY <2>1, <2>2
<1>10. IssuedInv'
  BY <1>8, <1>9 DEF IssuedInv
<1>11. QED
  BY <1>5, <1>6, <1>10 DEF WalletsInv

\* Every step keeps the invariant.
LEMMA StepKeeps ==
    ASSUME WalletsInv, [Next]_vars
    PROVE  WalletsInv'
<1>1. /\ DOMAIN cmd = Procs /\ \A p \in Procs : CommandInv(cmd[p])
      /\ file \in window
      /\ \A f \in window : f \in Files /\ f.rev <= file.rev /\ Sound(f.table)
      /\ issued \subseteq Entropies \X Indices
      /\ \A f \in window : \A a \in issued : Ahead(f.table, a)
  BY DEF WalletsInv, FileInv, CmdInv, IssuedInv
<1>2. Sound(file.table) /\ file.rev \in Nat
  BY <1>1, RevAssumption DEF Files
<1>3. CASE UNCHANGED vars
  BY <1>3 DEF vars, WalletsInv, FileInv, CmdInv, IssuedInv, CommandInv,
              ReviewInv, SaveInv, RevealedInv
<1>4. ASSUME NEW p \in Procs, NewMaster(p) PROVE WalletsInv'
  <2>1. PICK n \in Names, e \in Entropies :
           /\ AddMasterAccepted(file.table, n)
           /\ Become(p, Changed([op |-> "new"], AddMaster(file.table, n, e)))
    BY <1>4 DEF NewMaster
  <2> DEFINE c == Changed([op |-> "new"], AddMaster(file.table, n, e))
  <2>2. Grown(file.table, c)
    BY <2>1 DEF Grown, Changed
  <2>3. CommandInv(c)
    BY <2>2, ChangedInOrder
  <2>4. QED
    BY <2>1, <2>3, BecomeKeeps
<1>5. ASSUME NEW p \in Procs, NewDerived(p) PROVE WalletsInv'
  <2>1. PICK n \in Names, source \in Names :
           /\ AddDerivedAccepted(file.table, n, source)
           /\ Become(p, Changed([op |-> "derive"],
                                AddDerived(file.table, n, source)))
    BY <1>5 DEF NewDerived
  <2> DEFINE c == Changed([op |-> "derive"], AddDerived(file.table, n, source))
  <2>2. Grown(file.table, c)
    BY <2>1 DEF Grown, Changed
  <2>3. CommandInv(c)
    BY <2>2, ChangedInOrder
  <2>4. QED
    BY <2>1, <2>3, BecomeKeeps
<1>6. ASSUME NEW p \in Procs, Remember(p) PROVE WalletsInv'
  <2>1. PICK r \in Recipients :
           Become(p, Changed([op |-> "remember"],
                             RememberRecipient(file.table, r)))
    BY <1>6 DEF Remember
  <2> DEFINE c == Changed([op |-> "remember"],
                          RememberRecipient(file.table, r))
  <2>2. Grown(file.table, c)
    BY <2>1 DEF Grown, Changed
  <2>3. CommandInv(c)
    BY <2>2, ChangedInOrder
  <2>4. QED
    BY <2>1, <2>3, BecomeKeeps
<1>7. ASSUME NEW p \in Procs, ReviewImport(p) PROVE WalletsInv'
  <2>1. PICK n \in Names :
           Become(p, [stage |-> "review", op |-> "import", name |-> n])
    BY <1>7 DEF ReviewImport
  <2>2. CommandInv([stage |-> "review", op |-> "import", name |-> n])
    BY DEF CommandInv, ReviewInv, SaveInv, RevealedInv, Stages
  <2>3. QED
    BY <2>1, <2>2, BecomeKeeps
<1>8. ASSUME NEW p \in Procs, ImportPhrase(p) PROVE WalletsInv'
  <2>1. PICK e \in Entropies :
           Become(p, Changed(cmd[p], AddMaster(file.table, cmd[p].name, e)))
    BY <1>8 DEF ImportPhrase
  <2>2. /\ AddMasterAccepted(file.table, cmd[p].name) /\ cmd[p].op = "import"
    BY <1>8 DEF ImportPhrase
  <2> DEFINE c == Changed(cmd[p], AddMaster(file.table, cmd[p].name, e))
  <2>3. cmd[p].name \in Names
    BY <1>1, <1>8, <2>2 DEF ImportPhrase, CommandInv, ReviewInv
  <2>4. Grown(file.table, c)
    BY <2>1, <2>2, <2>3 DEF Grown, Changed
  <2>5. CommandInv(c)
    BY <2>4, ChangedInOrder
  <2>6. QED
    BY <2>1, <2>5, BecomeKeeps
<1>9. ASSUME NEW p \in Procs, ImportKey(p) PROVE WalletsInv'
  <2>1. PICK key \in Keypairs :
           Become(p, Changed(cmd[p], AddImported(file.table, cmd[p].name, key)))
    BY <1>9 DEF ImportKey
  <2>2. AddImportedAccepted(file.table, cmd[p].name) /\ cmd[p].op = "import"
    BY <1>9 DEF ImportKey
  <2> DEFINE c == Changed(cmd[p], AddImported(file.table, cmd[p].name, key))
  <2>3. cmd[p].name \in Names
    BY <1>1, <1>9, <2>2 DEF ImportKey, CommandInv, ReviewInv
  <2>4. Grown(file.table, c)
    BY <2>1, <2>2, <2>3 DEF Grown, Changed
  <2>5. CommandInv(c)
    BY <2>4, ChangedInOrder
  <2>6. QED
    BY <2>1, <2>5, BecomeKeeps
<1>10. ASSUME NEW p \in Procs, ReviewDelete(p) PROVE WalletsInv'
  <2>1. PICK n \in Names : /\ HasName(file.table, n)
                           /\ Become(p, Shown(n, "review", "delete"))
    BY <1>10 DEF ReviewDelete
  <2>2. CommandInv(Shown(n, "review", "delete"))
    BY <2>1, ShownInOrder
  <2>3. QED
    BY <2>1, <2>2, BecomeKeeps
<1>11. ASSUME NEW p \in Procs, ApproveDelete(p) PROVE WalletsInv'
  <2>1. PICK erase \in BOOLEAN :
           Become(p, [cmd[p] EXCEPT !.stage = "approved",
                                    !.op = IF erase THEN "erase" ELSE @])
    BY <1>11 DEF ApproveDelete
  <2>2. cmd[p].stage = "review" /\ cmd[p].op = "delete"
    BY <1>11 DEF ApproveDelete
  <2> DEFINE c == [cmd[p] EXCEPT !.stage = "approved",
                                 !.op = IF erase THEN "erase" ELSE @]
  <2>3. /\ cmd[p].rev \in Nat /\ cmd[p].rev <= file.rev
        /\ cmd[p].rev = file.rev => SeenIn(file.table, cmd[p])
    BY <1>1, <2>2 DEF CommandInv, ReviewInv
  <2>4. /\ c.stage = "approved" /\ c.op \in {"delete", "erase"}
        /\ c.name = cmd[p].name /\ c.rev = cmd[p].rev
        /\ c.account = cmd[p].account /\ c.use = cmd[p].use
    BY <2>2
  <2>5. CommandInv(c)
    <3> HIDE DEF c
    <3>1. QED
      BY <2>3, <2>4
         DEF CommandInv, ReviewInv, SeenIn, SaveInv, RevealedInv, Stages
  <2>6. QED
    BY <2>1, <2>5, BecomeKeeps
<1>12. ASSUME NEW p \in Procs, DeleteWallet(p) PROVE WalletsInv'
  <2> DEFINE erase == (cmd[p].op = "erase")
             c == Changed(cmd[p], RemoveAccount(file.table, cmd[p].name, erase))
  <2>1. /\ cmd[p].stage = "approved" /\ file.rev = cmd[p].rev
        /\ RemoveAccepted(file.table, cmd[p].name, erase)
        /\ Become(p, c)
    BY <1>12 DEF DeleteWallet
  <2>2. cmd[p].op \in {"delete", "erase"} /\ SeenIn(file.table, cmd[p])
    BY <1>1, <2>1 DEF CommandInv, ReviewInv
  <2>3. Shrunk(file.table, c)
    BY <2>1, <2>2 DEF Shrunk, Changed
  <2>4. CommandInv(c)
    BY <2>3, ChangedInOrder
  <2>5. QED
    BY <2>1, <2>4, BecomeKeeps
<1>13. ASSUME NEW p \in Procs, ReviewExport(p) PROVE WalletsInv'
  <2>1. PICK n \in Names, kind \in {"key", "mnemonic"} :
           HasName(file.table, n) /\ Become(p, Shown(n, "review", kind))
    BY <1>13 DEF ReviewExport
  <2>2. CommandInv(Shown(n, "review", kind))
    BY <2>1, ShownInOrder
  <2>3. QED
    BY <2>1, <2>2, BecomeKeeps
<1>14. ASSUME NEW p \in Procs, Reveal(p) PROVE WalletsInv'
  <2> DEFINE a == AccountNamed(file.table, cmd[p].name)
             key == KeyOf(file.table, a)
             c == [stage |-> "revealed", account |-> cmd[p].account,
                   secret |-> key]
  <2>1. /\ HasName(file.table, cmd[p].name)
        /\ a.address = cmd[p].account.address /\ Become(p, c)
    BY <1>14 DEF Reveal, StillShown
  <2>2. a \in Accounts(file.table)
    BY <1>2, <2>1, NameFound
  <2>3. key = a.address /\ a.address \in Keys
    BY <1>2, <2>2, SoundIsGood
  <2> HIDE DEF key
  <2>4. CommandInv(c)
    BY <2>1, <2>3 DEF CommandInv, ReviewInv, SaveInv, RevealedInv, Stages
  <2>5. QED
    BY <2>1, <2>4, BecomeKeeps
<1>15. ASSUME NEW p \in Procs, SaveOk(p) PROVE WalletsInv'
  <2>1. Saves(p)
    BY <1>15 DEF SaveOk, Saves
  <2>2. /\ window' = {file'}
        /\ issued' = IssuedIn(cmd[p].table, issued \cup Printed(cmd[p]))
    BY <1>15 DEF SaveOk
  <2>3. QED
    BY <2>1, <2>2, SavesKeep
<1>16. ASSUME NEW p \in Procs, SaveUncertain(p) PROVE WalletsInv'
  <2>1. Saves(p)
    BY <1>16 DEF SaveUncertain, Saves
  <2>2. /\ window' = window \cup {file'}
        /\ issued' = IssuedIn(cmd[p].table, issued)
    BY <1>16 DEF SaveUncertain
  <2>3. QED
    BY <2>1, <2>2, SavesKeep
<1>17. ASSUME NEW p \in Procs, GiveUp(p) PROVE WalletsInv'
  <2>1. CommandInv(Idle)
    BY DEF CommandInv, Idle, ReviewInv, SaveInv, RevealedInv, Stages
  <2>2. QED
    BY <1>17, <2>1, BecomeKeeps DEF GiveUp
<1>18. CASE PowerLoss
  <2>1. /\ file' \in window /\ window' = {file'}
        /\ cmd' = [p \in Procs |-> Idle] /\ issued' = issued
    BY <1>18 DEF PowerLoss
  <2>2. file'.rev <= file'.rev
    <3>1. file'.rev \in Nat
      BY <1>1, <2>1, RevAssumption DEF Files
    <3>2. QED
      BY <3>1
  <2>3. FileInv' /\ IssuedInv'
    BY <1>1, <2>1, <2>2 DEF FileInv, IssuedInv
  <2>4. ASSUME NEW p \in Procs PROVE CommandInv(cmd[p])'
    <3>1. cmd'[p] = Idle
      BY <2>1
    <3>2. QED
      BY <3>1 DEF CommandInv, Idle, ReviewInv, SaveInv, RevealedInv, Stages
  <2>5. CmdInv'
    BY <2>1, <2>4 DEF CmdInv
  <2>6. QED
    BY <2>3, <2>5 DEF WalletsInv
<1>19. QED
  BY <1>3, <1>4, <1>5, <1>6, <1>7, <1>8, <1>9, <1>10, <1>11, <1>12, <1>13,
     <1>14, <1>15, <1>16, <1>17, <1>18 DEF Next

\* What the vault holds and what the commands know of it stay in order,
\* whatever the processes do and whenever the power fails.
THEOREM WalletsInvariant == Spec => []WalletsInv
<1>1. Init => WalletsInv
  BY InitSound
<1>2. WalletsInv /\ [Next]_vars => WalletsInv'
  BY StepKeeps
<1>3. QED
  BY <1>1, <1>2, PTL DEF Spec

-----------------------------------------------------------------------------
(* The properties of Wallets.                                              *)

\* Every variable stays in its type.
THEOREM TypeCorrect == Spec => []TypeOK
<1>1. WalletsInv => TypeOK
  <2>1. SUFFICES ASSUME WalletsInv PROVE TypeOK
    OBVIOUS
  <2>2. /\ file \in Files /\ window \subseteq Files /\ DOMAIN cmd = Procs
        /\ issued \subseteq Entropies \X Indices
    BY <2>1 DEF WalletsInv, FileInv, CmdInv, IssuedInv
  <2>3. Entropies \X Indices \subseteq Keys
    BY DEF Keys, Indices
  <2>4. ASSUME NEW p \in Procs
        PROVE  /\ cmd[p].stage \in Stages
               /\ cmd[p].stage = "save" =>
                     cmd[p].base \in 0..MaxRev /\ cmd[p].table \in Tables
               /\ cmd[p].stage = "revealed" => cmd[p].secret \in Keys
    <3>1. CommandInv(cmd[p])
      BY <2>1 DEF WalletsInv, CmdInv
    <3>2. QED
      BY <3>1 DEF CommandInv, SaveInv, RevealedInv, Sound
  <2>5. QED
    BY <2>2, <2>3, <2>4 DEF TypeOK
<1>2. QED
  BY <1>1, WalletsInvariant, PTL

\* No sequence of commands leaves a vault, on disk or to come back after a
\* power loss, that decode would refuse.
THEOREM NeverLockedOut == Spec => []AlwaysDecodable
<1>1. WalletsInv => AlwaysDecodable
  BY SoundIsGood DEF WalletsInv, FileInv, AlwaysDecodable
<1>2. QED
  BY <1>1, WalletsInvariant, PTL

\* Every wallet's key leads to the address stored beside it, however often
\* remove_account has renumbered the masters.
THEOREM WalletsKeepTheirKeys == Spec => []KeysMatch
<1>1. WalletsInv => KeysMatch
  BY SoundIsGood DEF WalletsInv, FileInv, KeysMatch
<1>2. QED
  BY <1>1, WalletsInvariant, PTL

\* export prints the secret of the address that the user approved.
THEOREM ExportsWhatWasShown == Spec => []RevealsWhatWasShown
<1>1. WalletsInv => RevealsWhatWasShown
  BY DEF WalletsInv, CmdInv, CommandInv, RevealedInv, RevealsWhatWasShown
<1>2. QED
  BY <1>1, WalletsInvariant, PTL

\* Only a save makes a later revision.
LEMMA CommitIsSave ==
    ASSUME WalletsInv, Next, Commit
    PROVE  \E p \in Procs : Saves(p)
<1>1. /\ file \in window
      /\ \A f \in window : f \in Files /\ f.rev <= file.rev
      /\ \A f \in window : f.rev \in Nat
  BY RevAssumption DEF WalletsInv, FileInv, Files
<1>2. file' # file
  BY <1>1 DEF Commit
<1>3. ~PowerLoss
  <2>1. SUFFICES ASSUME PowerLoss PROVE FALSE
    OBVIOUS
  <2>2. file'.rev <= file.rev /\ file'.rev \in Nat /\ file.rev \in Nat
    BY <1>1, <2>1 DEF PowerLoss
  <2>3. QED
    BY <2>2 DEF Commit
<1>4. \A p, c : ~Become(p, c)
  BY <1>2 DEF Become
<1>5. QED
  BY <1>3, <1>4
     DEF Next, NewMaster, NewDerived, Remember, ReviewImport, ImportPhrase,
         ImportKey, ReviewDelete, ApproveDelete, DeleteWallet, ReviewExport,
         Reveal, GiveUp, SaveOk, SaveUncertain, Saves

\* What a commit does: the change of one process, which is then idle.
LEMMA CommitIsGood ==
    ASSUME WalletsInv, Next, Commit
    PROVE  \E p \in Procs : /\ cmd[p].stage = "save" /\ cmd'[p] = Idle
                            /\ file'.table = cmd[p].table
                            /\ GoodChange(file.table, cmd[p])
<1>1. PICK p \in Procs : Saves(p)
  BY CommitIsSave
<1>2. file'.table = cmd[p].table /\ GoodChange(file.table, cmd[p])
  BY <1>1, SavedFile
<1>3. cmd'[p] = Idle /\ cmd[p].stage = "save"
  BY <1>1 DEF Saves, WalletsInv, CmdInv
<1>4. QED
  BY <1>2, <1>3

\* new prints no address twice while its phrase stays in the vault.
THEOREM AddressesAreNew == Spec => NeverReissued
<1> DEFINE Fresh == Commit => \A a \in Added :
                       a.kind = "derived" /\ a.index > 0 => a.address \notin issued
<1>1. ASSUME WalletsInv, [Next]_vars PROVE [Fresh]_vars
  <2>1. SUFFICES ASSUME Next, Commit, NEW a \in Added, a.kind = "derived",
                        a.index > 0
                 PROVE  a.address \notin issued
    BY <1>1
  <2>2. PICK p \in Procs : /\ file'.table = cmd[p].table
                           /\ GoodChange(file.table, cmd[p])
    BY <1>1, <2>1, CommitIsGood
  <2>3. a \in Accounts(cmd[p].table) /\ ~HasName(file.table, a.name)
    BY <2>1, <2>2 DEF Added
  <2>4. \A x \in Entropies \X Indices : Ahead(file.table, x) => a.address # x
    BY <2>1, <2>2, <2>3 DEF GoodChange
  <2>5. \A x \in issued : x \in Entropies \X Indices /\ Ahead(file.table, x)
    BY <1>1 DEF WalletsInv, FileInv, IssuedInv
  <2>6. QED
    BY <2>4, <2>5
<1>2. WalletsInv /\ [Next]_vars => [Fresh]_vars
  BY <1>1
<1>3. QED
  BY <1>2, WalletsInvariant, PTL DEF Spec, NeverReissued

\* A phrase leaves the vault only if the user, told that nothing else uses
\* it, asked for that, and it is still so.
THEOREM PhrasesGoByConsent == Spec => PhraseErasedByConsent
<1> DEFINE ByConsent ==
             Commit => \A e \in Phrases(file.table) \ Phrases(file'.table) :
               /\ \E p \in Procs : /\ cmd[p].stage = "save"
                                   /\ cmd'[p] = Idle
                                   /\ cmd[p].of.op = "erase"
                                   /\ cmd[p].of.use = "UnusedAfterDeletion"
                                   /\ cmd[p].of.account.address[1] = e
               /\ \A a \in Accounts(file.table) \ Removed :
                     a.kind = "derived" => PhraseOf(file.table, a) # e
<1>1. ASSUME WalletsInv, [Next]_vars PROVE [ByConsent]_vars
  <2>1. SUFFICES ASSUME Next, Commit PROVE ByConsent
    BY <1>1
  <2>2. PICK p \in Procs : /\ cmd[p].stage = "save" /\ cmd'[p] = Idle
                           /\ file'.table = cmd[p].table
                           /\ GoodChange(file.table, cmd[p])
    BY <1>1, <2>1, CommitIsGood
  <2>3. ASSUME NEW e \in Phrases(file.table) \ Phrases(file'.table)
        PROVE  /\ cmd[p].of.op = "erase"
               /\ cmd[p].of.use = "UnusedAfterDeletion"
               /\ cmd[p].of.account.address[1] = e
               /\ \A a \in Accounts(file.table) \ Removed :
                     a.kind = "derived" => PhraseOf(file.table, a) # e
    <3>1. \A a \in Accounts(file.table) \ Removed :
             HasName(cmd[p].table, a.name)
      BY <2>2 DEF Removed
    <3>2. QED
      BY <2>2, <2>3, <3>1 DEF GoodChange
  <2>4. QED
    BY <2>2, <2>3
<1>2. WalletsInv /\ [Next]_vars => [ByConsent]_vars
  BY <1>1
<1>3. QED
  BY <1>2, WalletsInvariant, PTL DEF Spec, PhraseErasedByConsent

\* A wallet leaves the vault only as the user saw it.
THEOREM DeletesWhatWasShown == Spec => DeletedAsShown
<1> DEFINE AsShown ==
             Commit => \A a \in Removed :
               \E p \in Procs : /\ cmd[p].stage = "save"
                                /\ cmd'[p] = Idle
                                /\ cmd[p].of.op \in {"delete", "erase"}
                                /\ cmd[p].of.account = a
                                /\ cmd[p].of.use
                                      = RecoveryPhraseUse(file.table, a.name)
<1>1. ASSUME WalletsInv, [Next]_vars PROVE [AsShown]_vars
  <2>1. SUFFICES ASSUME Next, Commit PROVE AsShown
    BY <1>1
  <2>2. PICK p \in Procs : /\ cmd[p].stage = "save" /\ cmd'[p] = Idle
                           /\ file'.table = cmd[p].table
                           /\ GoodChange(file.table, cmd[p])
    BY <1>1, <2>1, CommitIsGood
  <2>3. ASSUME NEW a \in Removed
        PROVE  /\ cmd[p].of.op \in {"delete", "erase"}
               /\ cmd[p].of.account = a
               /\ cmd[p].of.use = RecoveryPhraseUse(file.table, a.name)
    <3>1. a \in Accounts(file.table) /\ ~HasName(cmd[p].table, a.name)
      BY <2>2 DEF Removed
    <3>2. QED
      BY <2>2, <3>1 DEF GoodChange
  <2>4. QED
    BY <2>2, <2>3
<1>2. WalletsInv /\ [Next]_vars => [AsShown]_vars
  BY <1>1
<1>3. QED
  BY <1>2, WalletsInvariant, PTL DEF Spec, DeletedAsShown
=============================================================================
