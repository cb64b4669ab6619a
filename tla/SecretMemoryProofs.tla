------------------------ MODULE SecretMemoryProofs --------------------------
(***************************************************************************)
(* What is proved of SecretMemory for any number of slots, any sizes and   *)
(* any limits: no page holds a secret without being locked, and with the   *)
(* allowance no operation runs into the limit.  The plans are shown to     *)
(* treat every owner in the right order; the invariant then follows each   *)
(* of them through the memory, and the sum of what is locked is bounded by *)
(* that over all owners.                                                   *)
(***************************************************************************)
EXTENDS SecretMemory, DataTheorems, TLAPS

-----------------------------------------------------------------------------
(* What a plan presupposes and leaves behind.                              *)

Ops == {"map", "lock", "protect", "fill", "drop"} \X Owners

\* The owners that are locked, and the one that is only mapped so far.
Holdings == [held : SUBSET Owners, pending : Owners \cup {"none"}]
At(owners) == [held |-> owners, pending |-> "none"]

\* A step of a plan is in order, and leads from x to y.
Does(op, x, y) ==
    \/ /\ op[1] = "map" /\ x.pending = "none" /\ op[2] \notin x.held
       /\ y = [held |-> x.held, pending |-> op[2]]
    \/ /\ op[1] = "lock" /\ x.pending = op[2]
       /\ y = At(x.held \cup {op[2]})
    \/ /\ op[1] = "protect" /\ y = x
    \/ /\ op[1] = "fill" /\ x.pending = "none" /\ op[2] \in x.held /\ y = x
    \/ /\ op[1] = "drop" /\ x.pending = "none" /\ op[2] \in x.held
       /\ y = At(x.held \ {op[2]})

\* All steps of p are in order, one after the other.
Leads(p, x, y) ==
    /\ p \in Seq(Ops)
    /\ \E st \in [0..Len(p) -> Holdings] :
          /\ st[0] = x /\ st[Len(p)] = y
          /\ \A i \in 1..Len(p) : Does(p[i], st[i - 1], st[i])

\* A set of owners alone is a possible state of a plan.
LEMMA AtType == ASSUME NEW H \in SUBSET Owners PROVE At(H) \in Holdings
  BY DEF At, Holdings

\* A plan of one step leads where the step does.
LEMMA LeadsOne ==
    ASSUME NEW op \in Ops, NEW x \in Holdings, NEW y \in Holdings,
           Does(op, x, y)
    PROVE  Leads(<<op>>, x, y)
<1>. DEFINE st == [i \in 0..1 |-> IF i = 0 THEN x ELSE y]
<1>1. st \in [0..Len(<<op>>) -> Holdings]
  OBVIOUS
<1>2. \A i \in 1..Len(<<op>>) : Does(<<op>>[i], st[i - 1], st[i])
  OBVIOUS
<1>3. st[0] = x /\ st[Len(<<op>>)] = y
  OBVIOUS
<1>4. <<op>> \in Seq(Ops)
  OBVIOUS
<1>. HIDE DEF st
<1>. QED
  BY <1>1, <1>2, <1>3, <1>4 DEF Leads

\* Plans can be joined.
LEMMA LeadsConcat ==
    ASSUME NEW p, NEW q, NEW x, NEW y, NEW z,
           Leads(p, x, y), Leads(q, y, z)
    PROVE  Leads(p \o q, x, z)
<1>. p \in Seq(Ops) /\ q \in Seq(Ops)
  BY DEF Leads
<1>1. PICK s \in [0..Len(p) -> Holdings] :
        /\ s[0] = x /\ s[Len(p)] = y
        /\ \A i \in 1..Len(p) : Does(p[i], s[i - 1], s[i])
  BY DEF Leads
<1>2. PICK t \in [0..Len(q) -> Holdings] :
        /\ t[0] = y /\ t[Len(q)] = z
        /\ \A i \in 1..Len(q) : Does(q[i], t[i - 1], t[i])
  BY DEF Leads
<1>. DEFINE n == Len(p)
            st == [i \in 0..(n + Len(q)) |-> IF i <= n THEN s[i] ELSE t[i - n]]
<1>3. Len(p \o q) = n + Len(q) /\ n \in Nat /\ Len(q) \in Nat
  OBVIOUS
<1>4. st \in [0..Len(p \o q) -> Holdings]
  BY <1>3
<1>5. st[0] = x /\ st[Len(p \o q)] = z
  <2>1. s[0] = x /\ s[n] = y /\ t[0] = y /\ t[Len(q)] = z
    BY <1>1, <1>2
  <2>2. st[0] = s[0]
    BY <1>3
  <2>3. CASE Len(q) = 0
    BY <1>3, <2>1, <2>2, <2>3
  <2>4. CASE Len(q) > 0
    <3>1. st[n + Len(q)] = t[(n + Len(q)) - n] /\ (n + Len(q)) - n = Len(q)
      BY <1>3, <2>4
    <3>. QED
      BY <1>3, <2>1, <2>2, <3>1
  <2>. QED
    BY <1>3, <2>3, <2>4
<1>6. ASSUME NEW i \in 1..Len(p \o q)
      PROVE  Does((p \o q)[i], st[i - 1], st[i])
  <2>1. CASE i <= n
    <3>1. (p \o q)[i] = p[i] /\ st[i - 1] = s[i - 1] /\ st[i] = s[i]
      BY <1>3, <2>1
    <3>. QED
      BY <1>1, <1>3, <2>1, <3>1
  <2>2. CASE i > n
    <3>1. i - n \in 1..Len(q)
      BY <1>3, <2>2
    <3>2. (p \o q)[i] = q[i - n] /\ st[i] = t[i - n]
      BY <1>3, <2>2, <3>1
    <3>3. st[i - 1] = t[(i - n) - 1]
      <4>1. s[n] = t[0]
        BY <1>1, <1>2
      <4>2. CASE i - n = 1
        BY <1>3, <3>1, <4>1, <4>2
      <4>3. CASE i - n > 1
        <5>1. /\ (i - 1) - n = (i - n) - 1 /\ ~(i - 1 <= n)
              /\ i - 1 \in 0..(n + Len(q))
          BY <1>3, <3>1, <4>3
        <5>. QED
          BY <5>1
      <4>. QED
        BY <1>3, <3>1, <4>2, <4>3
    <3>. QED
      BY <1>2, <3>1, <3>2, <3>3
  <2>. QED
    BY <1>3, <2>1, <2>2
<1>7. p \o q \in Seq(Ops)
  OBVIOUS
<1>. HIDE DEF st
<1>. QED
  BY <1>4, <1>5, <1>6, <1>7 DEF Leads

\* What is left of a plan after its first step is in order, too.
LEMMA LeadsTail ==
    ASSUME NEW p, p # <<>>, NEW x, NEW z, Leads(p, x, z)
    PROVE  \E y \in Holdings : Does(Head(p), x, y) /\ Leads(Tail(p), y, z)
<1>. p \in Seq(Ops)
  BY DEF Leads
<1>1. PICK s \in [0..Len(p) -> Holdings] :
        /\ s[0] = x /\ s[Len(p)] = z
        /\ \A i \in 1..Len(p) : Does(p[i], s[i - 1], s[i])
  BY DEF Leads
<1>2. Len(p) \in Nat \ {0} /\ Len(Tail(p)) = Len(p) - 1
  OBVIOUS
<1>. DEFINE st == [i \in 0..(Len(p) - 1) |-> s[i + 1]]
<1>3. st \in [0..Len(Tail(p)) -> Holdings] /\ st[0] = s[1]
      /\ st[Len(Tail(p))] = z
  BY <1>1, <1>2
<1>4. ASSUME NEW i \in 1..Len(Tail(p))
      PROVE  Does(Tail(p)[i], st[i - 1], st[i])
  <2>1. Tail(p)[i] = p[i + 1] /\ i + 1 \in 1..Len(p)
    BY <1>2
  <2>2. st[i - 1] = s[(i + 1) - 1] /\ st[i] = s[i + 1]
    BY <1>2
  <2>. QED
    BY <1>1, <2>1, <2>2
<1>5. Leads(Tail(p), s[1], z)
  <2>1. Tail(p) \in Seq(Ops)
    OBVIOUS
  <2>. HIDE DEF st
  <2>. QED
    BY <2>1, <1>3, <1>4 DEF Leads
<1>6. Head(p) = p[1] /\ Does(p[1], s[1 - 1], s[1]) /\ s[1] \in Holdings
  BY <1>1, <1>2
<1>. QED
  BY <1>1, <1>5, <1>6

\* Nothing is left to do where an empty plan leads.
LEMMA LeadsNowhere ==
    ASSUME NEW x \in Holdings
    PROVE  Leads(<<>>, x, x) /\ \A y : Leads(<<>>, x, y) => x = y
<1>. DEFINE st == [i \in 0..0 |-> x]
<1>1. /\ st \in [0..Len(<<>>) -> Holdings]
      /\ st[0] = x /\ st[Len(<<>>)] = x
      /\ \A i \in 1..Len(<<>>) : Does(<<>>[i], st[i - 1], st[i])
  OBVIOUS
<1>2. Leads(<<>>, x, x)
  <2>. HIDE DEF st
  <2>. QED
    BY <1>1 DEF Leads
<1>. QED
  BY <1>2 DEF Leads
-----------------------------------------------------------------------------
(* What the parts of the plans do.                                         *)

\* After Get the owner is locked.
LEMMA GetLeads ==
    ASSUME NEW r \in Owners, NEW H \in SUBSET Owners, r \notin H
    PROVE  Leads(Get(r), At(H), At(H \cup {r}))
<1>. DEFINE x == [held |-> H, pending |-> r]
<1>1. At(H) \in Holdings /\ x \in Holdings /\ At(H \cup {r}) \in Holdings
  BY DEF At, Holdings
<1>2. <<"map", r>> \in Ops /\ <<"lock", r>> \in Ops /\ <<"protect", r>> \in Ops
  BY DEF Ops
<1>3. Does(<<"map", r>>, At(H), x)
  BY DEF Does, At
<1>4. Does(<<"lock", r>>, x, At(H \cup {r}))
  BY DEF Does, At
<1>5. Does(<<"protect", r>>, At(H \cup {r}), At(H \cup {r}))
  BY DEF Does
<1>. HIDE DEF x
<1>6. Leads(<<<<"map", r>>>>, At(H), x)
  BY <1>1, <1>2, <1>3, LeadsOne
<1>7. Leads(<<<<"lock", r>>>>, x, At(H \cup {r}))
  BY <1>1, <1>2, <1>4, LeadsOne
<1>8. Leads(<<<<"protect", r>>>>, At(H \cup {r}), At(H \cup {r}))
  BY <1>1, <1>2, <1>5, LeadsOne
<1>9. Leads((<<<<"map", r>>>> \o <<<<"lock", r>>>>) \o <<<<"protect", r>>>>,
            At(H), At(H \cup {r}))
  BY <1>6, <1>7, <1>8, LeadsConcat
<1>10. Get(r) = (<<<<"map", r>>>> \o <<<<"lock", r>>>>) \o <<<<"protect", r>>>>
  BY DEF Get
<1>. QED
  BY <1>9, <1>10

\* Only what is locked may be filled.
LEMMA FillLeads ==
    ASSUME NEW r \in Owners, NEW H \in SUBSET Owners, r \in H
    PROVE  Leads(Fill(r), At(H), At(H))
<1>1. At(H) \in Holdings /\ <<"fill", r>> \in Ops
  BY DEF At, Holdings, Ops
<1>2. Does(<<"fill", r>>, At(H), At(H))
  BY DEF Does, At
<1>. QED
  BY <1>1, <1>2, LeadsOne DEF Fill

\* What is dropped is no longer held.
LEMMA DropLeads ==
    ASSUME NEW r \in Owners, NEW H \in SUBSET Owners, r \in H
    PROVE  Leads(Drop(r), At(H), At(H \ {r}))
<1>1. At(H) \in Holdings /\ At(H \ {r}) \in Holdings /\ <<"drop", r>> \in Ops
  BY DEF At, Holdings, Ops
<1>2. Does(<<"drop", r>>, At(H), At(H \ {r}))
  BY DEF Does, At
<1>. QED
  BY <1>1, <1>2, LeadsOne DEF Drop

\* Both buffers of a prompt.
LEMMA PromptLeads ==
    ASSUME NEW r \in Owners, NEW H \in SUBSET Owners,
           r \notin H, "byte" \notin H, r # "byte"
    PROVE  Leads(Prompt(r), At(H), At(H \cup {r}))
<1>1. Leads(Get(r), At(H), At(H \cup {r}))
  BY GetLeads DEF Owners
<1>2. Leads(Get("byte"), At(H \cup {r}), At(H \cup {r, "byte"}))
  BY GetLeads DEF Owners
<1>3. Leads(Fill("byte"), At(H \cup {r, "byte"}), At(H \cup {r, "byte"}))
  BY FillLeads DEF Owners
<1>4. Leads(Fill(r), At(H \cup {r, "byte"}), At(H \cup {r, "byte"}))
  BY FillLeads DEF Owners
<1>5. Leads(Drop("byte"), At(H \cup {r, "byte"}), At(H \cup {r}))
  <2>1. (H \cup {r, "byte"}) \ {"byte"} = H \cup {r}
    BY DEF Owners
  <2>. QED
    BY <2>1, DropLeads DEF Owners
<1>. QED
  BY <1>1, <1>2, <1>3, <1>4, <1>5, LeadsConcat DEF Prompt

\* The key and the memory of Argon2id.
LEMMA DeriveLeads ==
    ASSUME NEW H \in SUBSET Owners, "key" \notin H, "scratch" \notin H
    PROVE  Leads(Derive, At(H), At(H \cup {"key"}))
<1>1. Leads(Get("key"), At(H), At(H \cup {"key"}))
  BY GetLeads DEF Owners
<1>2. Leads(Get("scratch"),
            At(H \cup {"key"}),
            At(H \cup {"key", "scratch"}))
  BY GetLeads DEF Owners
<1>3. Leads(Fill("scratch"),
            At(H \cup {"key", "scratch"}),
            At(H \cup {"key", "scratch"}))
  BY FillLeads DEF Owners
<1>4. Leads(Fill("key"),
            At(H \cup {"key", "scratch"}),
            At(H \cup {"key", "scratch"}))
  BY FillLeads DEF Owners
<1>5. Leads(Drop("scratch"),
            At(H \cup {"key", "scratch"}),
            At(H \cup {"key"}))
  <2>1. (H \cup {"key", "scratch"}) \ {"scratch"} = H \cup {"key"}
    BY DEF Owners
  <2>. QED
    BY <2>1, DropLeads DEF Owners
<1>. QED
  BY <1>1, <1>2, <1>3, <1>4, <1>5, LeadsConcat DEF Derive

\* The plaintext and what decode takes out of it.
LEMMA DecryptLeads ==
    ASSUME NEW H \in SUBSET Owners, "plain" \notin H, "vault" \notin H
    PROVE  Leads(Decrypt, At(H), At(H \cup {"vault"}))
<1>1. Leads(Get("plain"), At(H), At(H \cup {"plain"}))
  BY GetLeads DEF Owners
<1>2. Leads(Fill("plain"), At(H \cup {"plain"}), At(H \cup {"plain"}))
  BY FillLeads DEF Owners
<1>3. Leads(Get("vault"),
            At(H \cup {"plain"}),
            At(H \cup {"plain", "vault"}))
  BY GetLeads DEF Owners
<1>4. Leads(Fill("vault"),
            At(H \cup {"plain", "vault"}),
            At(H \cup {"plain", "vault"}))
  BY FillLeads DEF Owners
<1>5. Leads(Drop("plain"),
            At(H \cup {"plain", "vault"}),
            At(H \cup {"vault"}))
  <2>1. (H \cup {"plain", "vault"}) \ {"plain"} = H \cup {"vault"}
    BY DEF Owners
  <2>. QED
    BY <2>1, DropLeads DEF Owners
<1>. QED
  BY <1>1, <1>2, <1>3, <1>4, <1>5, LeadsConcat DEF Decrypt

\* Unlocking leaves the key.
LEMMA UnlockLeads ==
    Leads(UnlockPlan, At({}), At({"key"}))
<1>1. Leads(Prompt("password"), At({}), At({"password"}))
  BY PromptLeads DEF Owners
<1>2. Leads(Derive, At({"password"}), At({"password", "key"}))
  BY DeriveLeads DEF Owners
<1>3. Leads(Decrypt,
            At({"password", "key"}),
            At({"password", "key", "vault"}))
  BY DecryptLeads DEF Owners
<1>4. Leads(Drop("vault"),
            At({"password", "key", "vault"}),
            At({"password", "key"}))
  <2>1. {"password", "key", "vault"} \ {"vault"} = {"password", "key"}
    BY DEF Owners
  <2>. QED
    BY <2>1, DropLeads DEF Owners
<1>5. Leads(Drop("password"), At({"password", "key"}), At({"key"}))
  <2>1. {"password", "key"} \ {"password"} = {"key"}
    BY DEF Owners
  <2>. QED
    BY <2>1, DropLeads DEF Owners
<1>. QED
  BY <1>1, <1>2, <1>3, <1>4, <1>5, LeadsConcat DEF UnlockPlan

\* Loading leaves the key alone.
LEMMA LoadLeads ==
    Leads(LoadPlan, At({"key"}), At({"key"}))
<1>1. Leads(Decrypt, At({"key"}), At({"key", "vault"}))
  BY DecryptLeads DEF Owners
<1>2. Leads(Drop("vault"), At({"key", "vault"}), At({"key"}))
  <2>1. {"key", "vault"} \ {"vault"} = {"key"}
    BY DEF Owners
  <2>. QED
    BY <2>1, DropLeads DEF Owners
<1>. QED
  BY <1>1, <1>2, LeadsConcat DEF LoadPlan

\* Giving up the key leaves nothing.
LEMMA ForgetLeads ==
    Leads(ForgetPlan, At({"key"}), At({}))
<1>1. Leads(Drop("key"), At({"key"}), At({}))
  <2>1. {"key"} \ {"key"} = {}
    BY DEF Owners
  <2>. QED
    BY <2>1, DropLeads DEF Owners
<1>. QED
  BY <1>1, LeadsConcat DEF ForgetPlan

\* Creating a vault leaves the key.
LEMMA InitLeads ==
    Leads(InitPlan, At({}), At({"key"}))
<1>1. Leads(Prompt("password"), At({}), At({"password"}))
  BY PromptLeads DEF Owners
<1>2. Leads(Prompt("confirmation"),
            At({"password"}),
            At({"password", "confirmation"}))
  BY PromptLeads DEF Owners
<1>3. Leads(Get("vault"),
            At({"password", "confirmation"}),
            At({"password", "confirmation", "vault"}))
  BY GetLeads DEF Owners
<1>4. Leads(Fill("vault"),
            At({"password", "confirmation", "vault"}),
            At({"password", "confirmation", "vault"}))
  BY FillLeads DEF Owners
<1>5. Leads(Get("phrase"),
            At({"password", "confirmation", "vault"}),
            At({"password", "confirmation", "vault", "phrase"}))
  BY GetLeads DEF Owners
<1>6. Leads(Fill("phrase"),
            At({"password", "confirmation", "vault", "phrase"}),
            At({"password", "confirmation", "vault", "phrase"}))
  BY FillLeads DEF Owners
<1>7. Leads(Derive,
            At({"password", "confirmation", "vault", "phrase"}),
            At({"password", "confirmation", "vault", "phrase", "key"}))
  BY DeriveLeads DEF Owners
<1>8. Leads(Get("plain"),
            At({"password", "confirmation", "vault", "phrase", "key"}),
            At({"password", "confirmation", "vault", "phrase", "key", "plain"}))
  BY GetLeads DEF Owners
<1>9. Leads(Fill("plain"),
            At({"password", "confirmation", "vault", "phrase", "key", "plain"}),
            At({"password", "confirmation", "vault", "phrase", "key", "plain"}))
  BY FillLeads DEF Owners
<1>10. Leads(Drop("plain"),
             At({"password", "confirmation", "vault", "phrase", "key", "plain"}),
             At({"password", "confirmation", "vault", "phrase", "key"}))
  <2>1. {"password", "confirmation", "vault", "phrase", "key", "plain"} \ {"plain"}
          = {"password", "confirmation", "vault", "phrase", "key"}
    BY DEF Owners
  <2>. QED
    BY <2>1, DropLeads DEF Owners
<1>11. Leads(Drop("phrase"),
             At({"password", "confirmation", "vault", "phrase", "key"}),
             At({"password", "confirmation", "vault", "key"}))
  <2>1. {"password", "confirmation", "vault", "phrase", "key"} \ {"phrase"}
          = {"password", "confirmation", "vault", "key"}
    BY DEF Owners
  <2>. QED
    BY <2>1, DropLeads DEF Owners
<1>12. Leads(Drop("vault"),
             At({"password", "confirmation", "vault", "key"}),
             At({"password", "confirmation", "key"}))
  <2>1. {"password", "confirmation", "vault", "key"} \ {"vault"}
          = {"password", "confirmation", "key"}
    BY DEF Owners
  <2>. QED
    BY <2>1, DropLeads DEF Owners
<1>13. Leads(Drop("confirmation"),
             At({"password", "confirmation", "key"}),
             At({"password", "key"}))
  <2>1. {"password", "confirmation", "key"} \ {"confirmation"}
          = {"password", "key"}
    BY DEF Owners
  <2>. QED
    BY <2>1, DropLeads DEF Owners
<1>14. Leads(Drop("password"), At({"password", "key"}), At({"key"}))
  <2>1. {"password", "key"} \ {"password"} = {"key"}
    BY DEF Owners
  <2>. QED
    BY <2>1, DropLeads DEF Owners
<1>. QED
  BY <1>1, <1>2, <1>3, <1>4, <1>5, <1>6, <1>7, <1>8, <1>9, <1>10, <1>11,
     <1>12, <1>13, <1>14, LeadsConcat DEF InitPlan

-----------------------------------------------------------------------------
(* The invariant.                                                          *)

Regions == [owner : Owners \cup {"none"},
            state : {"none", "mapped", "locked", "erased"},
            content : {"zero", "secret"}]

\* Every slot in use belongs to another owner, and is listed once.
MemInv ==
    /\ mem \in [Slots -> Regions]
    /\ \A s \in Slots : mem[s].state = "none" <=> mem[s].owner = "none"
    /\ \A s, t \in InUse : mem[s].owner = mem[t].owner => s = t
    /\ live \in Seq(Slots)
    /\ \A i, j \in 1..Len(live) : live[i] = live[j] => i = j
    /\ \A s \in Slots : s \in InUse <=> \E i \in 1..Len(live) : live[i] = s

\* Memory is as the rest of the plan presupposes.  Only the region that is
\* dropped next may be unlocked already.
Matches(x) ==
    /\ \A r \in Owners :
          (\E s \in InUse : mem[s].owner = r) <=> r \in x.held \cup {x.pending}
    /\ \A s \in InUse :
          mem[s].owner \in x.held =>
              \/ mem[s].state = "locked"
              \/ plan # <<>> /\ Head(plan) = <<"drop", mem[s].owner>>
    /\ x.pending \notin x.held
    /\ x.pending # "none" => live # <<>> /\ mem[Top].owner = x.pending
                             /\ mem[Top].state = "mapped"

\* The rest of the plan leaves nothing but the key.
PlanInv ==
    /\ plan \in Seq(Ops) /\ failing \in BOOLEAN
    /\ failing => plan = <<>>
    /\ ~failing => \E x \in Holdings, H \in SUBSET {"key"} :
                       Leads(plan, x, At(H)) /\ Matches(x)

\* Steps that do not take the key away.
Spares(p) == \A i \in 1..Len(p) : p[i] # <<"drop", "key">>

\* The key that was there before outlives a failure.
BaseInv ==
    \/ base = 0
    \/ /\ base = 1
       /\ \/ /\ live # <<>> /\ Spares(plan)
             /\ mem[live[1]].owner = "key" /\ mem[live[1]].state = "locked"
          \/ plan = ForgetPlan /\ ~failing
          \/ plan = <<>> /\ ~failing

\* Nothing is done, and nobody asked, before the limit has been seen to.
LimitInv ==
    /\ soft \in Nat \cup {Unlimited} /\ hard \in Nat \cup {Unlimited}
    /\ (asked \/ plan # <<>> \/ live # <<>> \/ failing) => Sufficient(soft)

MemoryInv == MemInv /\ PlanInv /\ BaseInv /\ LimitInv /\ SecretsLocked

-----------------------------------------------------------------------------
(* How the steps change the memory.                                        *)

\* The youngest owner's region is in use.
LEMMA TopInUse ==
    ASSUME MemInv, live # <<>>
    PROVE  /\ Top \in InUse /\ Top \in Slots
           /\ Len(live) \in Nat \ {0} /\ Top = live[Len(live)]
<1>1. Len(live) \in Nat \ {0} /\ Top = live[Len(live)] /\ Top \in Slots
  BY DEF MemInv, Top
<1>. QED
  BY <1>1 DEF MemInv

\* Between two operations memory holds the key or nothing.
LEMMA IdleMemory ==
    ASSUME MemoryInv, Idle
    PROVE  \E H \in SUBSET {"key"} : Matches(At(H))
<1>1. PICK x \in Holdings, H \in SUBSET {"key"} :
        Leads(<<>>, x, At(H)) /\ Matches(x)
  BY DEF MemoryInv, PlanInv, Idle
<1>2. x = At(H)
  BY <1>1, LeadsNowhere
<1>. QED
  BY <1>1, <1>2

\* Without owners nothing is in use.
LEMMA NothingLive ==
    ASSUME MemInv, live = <<>>
    PROVE  InUse = {}
  BY DEF MemInv, InUse

\* An idle memory with an owner is that of the session: its key, locked.
LEMMA KeyAlone ==
    ASSUME MemoryInv, Idle, live # <<>>
    PROVE  /\ Matches(At({"key"})) /\ Len(live) = 1
           /\ mem[live[1]].owner = "key" /\ mem[live[1]].state = "locked"
<1>1. PICK H \in SUBSET {"key"} : Matches(At(H))
  BY IdleMemory
<1>2. Top \in InUse /\ Len(live) \in Nat \ {0} /\ Top \in Slots
  BY TopInUse DEF MemoryInv
<1>3. \A s \in InUse : mem[s].owner \in Owners
  BY DEF MemoryInv, MemInv, Regions, InUse
<1>4. \A s \in InUse : mem[s].owner \in H
  BY <1>1, <1>3 DEF Matches, At, Owners
<1>5. H = {"key"}
  BY <1>2, <1>4
<1>6. \A i \in 1..Len(live) : live[i] \in InUse
  BY DEF MemoryInv, MemInv
<1>7. \A i \in 1..Len(live) : live[i] = live[1]
  <2>1. ASSUME NEW i \in 1..Len(live) PROVE live[i] = live[1]
    <3>1. live[i] \in InUse /\ live[1] \in InUse
      BY <1>2, <1>6
    <3>2. mem[live[i]].owner = "key" /\ mem[live[1]].owner = "key"
      BY <1>4, <1>5, <3>1
    <3>. QED
      BY <3>1, <3>2 DEF MemoryInv, MemInv
  <2>. QED
    BY <2>1
<1>8. Len(live) = 1
  <2>1. /\ live[Len(live)] = live[1]
        /\ 1 \in 1..Len(live) /\ Len(live) \in 1..Len(live)
    BY <1>2, <1>7
  <2>2. \A i, j \in 1..Len(live) : live[i] = live[j] => i = j
    BY DEF MemoryInv, MemInv
  <2>. QED
    BY <1>2, <2>1, <2>2
<1>9. live[1] \in InUse /\ mem[live[1]].owner = "key"
  BY <1>4, <1>5, <1>6, <1>8
<1>10. mem[live[1]].state = "locked"
  BY <1>1, <1>5, <1>9 DEF Matches, At, Idle
<1>. QED
  BY <1>1, <1>5, <1>8, <1>9, <1>10

\* Steps of one plan and of another.
LEMMA SparesConcat ==
    ASSUME NEW p \in Seq(Ops), NEW q \in Seq(Ops), Spares(p), Spares(q)
    PROVE  p \o q \in Seq(Ops) /\ Spares(p \o q)
<1>1. Len(p \o q) = Len(p) + Len(q) /\ Len(p) \in Nat /\ Len(q) \in Nat
  OBVIOUS
<1>2. ASSUME NEW i \in 1..Len(p \o q) PROVE (p \o q)[i] # <<"drop", "key">>
  <2>1. CASE i <= Len(p)
    BY <1>1, <2>1 DEF Spares
  <2>2. CASE i > Len(p)
    <3>1. (p \o q)[i] = q[i - Len(p)] /\ i - Len(p) \in 1..Len(q)
      BY <1>1, <2>2
    <3>. QED
      BY <3>1 DEF Spares
  <2>. QED
    BY <1>1, <2>1, <2>2
<1>. QED
  BY <1>2 DEF Spares

\* Loading a vault does not touch the key.
LEMMA LoadSpares == LoadPlan \in Seq(Ops) /\ Spares(LoadPlan)
<1>1. \A r \in {"plain", "vault"} :
        /\ Get(r) \in Seq(Ops) /\ Fill(r) \in Seq(Ops) /\ Drop(r) \in Seq(Ops)
        /\ Spares(Get(r)) /\ Spares(Fill(r)) /\ Spares(Drop(r))
  BY DEF Get, Fill, Drop, Spares, Ops, Owners
<1>2. Decrypt \in Seq(Ops) /\ Spares(Decrypt)
  BY <1>1, SparesConcat DEF Decrypt
<1>. QED
  BY <1>1, <1>2, SparesConcat DEF LoadPlan

\* What is done after an empty plan begins in order.
LEMMA PrepareKeeps ==
    ASSUME MemoryInv, NEW next, Leads(next, At({}), At({"key"})),
           Prepare(next)
    PROVE  MemoryInv'
<1>1. InUse = {} /\ Idle
  BY NothingLive DEF Prepare, MemoryInv
<1>2. MemInv'
  BY DEF MemoryInv, MemInv, InUse, Prepare
<1>3. PlanInv'
  <2>1. Matches(At({}))'
    <3>1. InUse' = {}
      BY <1>1 DEF InUse, Prepare
    <3>2. At({}).held = {} /\ At({}).pending = "none" /\ "none" \notin Owners
      BY DEF At, Owners
    <3>. QED
      BY <3>1, <3>2 DEF Matches
  <2>2. At({}) \in Holdings /\ {"key"} \in SUBSET {"key"}
    BY AtType
  <2>3. next \in Seq(Ops) /\ failing' = FALSE
    BY DEF Leads, Prepare, Idle
  <2>. QED
    BY <2>1, <2>2, <2>3 DEF PlanInv, Prepare
<1>4. BaseInv'
  BY DEF BaseInv, Prepare
<1>5. LimitInv'
  <2>1. Sufficient(soft)'
    BY MemoryAssumption DEF Prepare, Sufficient
  <2>2. soft' \in Nat \cup {Unlimited}
    BY MemoryAssumption DEF MemoryInv, LimitInv, Prepare
  <2>. QED
    BY <2>1, <2>2 DEF MemoryInv, LimitInv, Prepare
<1>6. SecretsLocked'
  BY DEF MemoryInv, SecretsLocked, Prepare
<1>. QED
  BY <1>2, <1>3, <1>4, <1>5, <1>6 DEF MemoryInv

\* So does what is done with a key.
LEMMA BeginWithKeyKeeps ==
    ASSUME MemoryInv, BeginWithKey
    PROVE  MemoryInv'
<1>1. /\ Matches(At({"key"})) /\ Len(live) = 1 /\ live # <<>>
      /\ mem[live[1]].owner = "key" /\ mem[live[1]].state = "locked"
  BY KeyAlone DEF BeginWithKey
<1>2. MemInv'
  BY DEF MemoryInv, MemInv, InUse, BeginWithKey
<1>3. PlanInv'
  <2>1. Matches(At({"key"}))'
    BY <1>1 DEF Matches, At, InUse, BeginWithKey, Idle, Top
  <2>2. At({"key"}) \in Holdings
    BY AtType DEF Owners
  <2>3. \E H \in SUBSET {"key"} : Leads(plan', At({"key"}), At(H))
    BY LoadLeads, ForgetLeads DEF BeginWithKey
  <2>4. plan' \in Seq(Ops) /\ failing' = FALSE
    BY <2>3 DEF Leads, BeginWithKey, Idle
  <2>. QED
    BY <2>1, <2>2, <2>3, <2>4 DEF PlanInv
<1>4. BaseInv'
  BY <1>1, LoadSpares DEF BaseInv, BeginWithKey, Idle
<1>5. LimitInv'
  BY <1>1 DEF MemoryInv, LimitInv, BeginWithKey, Sufficient
<1>6. SecretsLocked'
  BY DEF MemoryInv, SecretsLocked, BeginWithKey
<1>. QED
  BY <1>2, <1>3, <1>4, <1>5, <1>6 DEF MemoryInv

\* A step that is taken is the one the memory is prepared for.
LEMMA StepInOrder ==
    ASSUME MemoryInv, NEW op, Step(op)
    PROVE  /\ Head(plan) = <<op, Head(plan)[2]>> /\ Head(plan)[2] \in Owners
           /\ plan \in Seq(Ops) /\ plan # <<>> /\ Tail(plan) \in Seq(Ops)
           /\ failing = FALSE
           /\ \E x, y \in Holdings, H \in SUBSET {"key"} :
                 /\ Matches(x) /\ Does(Head(plan), x, y)
                 /\ Leads(plan, x, At(H)) /\ Leads(Tail(plan), y, At(H))
<1>1. plan \in Seq(Ops) /\ plan # <<>> /\ ~failing /\ failing \in BOOLEAN
  BY DEF MemoryInv, PlanInv, Step
<1>2. Head(plan) \in Ops /\ Tail(plan) \in Seq(Ops)
  BY <1>1
<1>3. Head(plan) = <<op, Head(plan)[2]>> /\ Head(plan)[2] \in Owners
  BY <1>2 DEF Ops, Step
<1>4. PICK x \in Holdings, H \in SUBSET {"key"} :
        Leads(plan, x, At(H)) /\ Matches(x)
  BY <1>1 DEF MemoryInv, PlanInv
<1>5. PICK y \in Holdings :
        Does(Head(plan), x, y) /\ Leads(Tail(plan), y, At(H))
  BY <1>1, <1>4, LeadsTail
<1>. QED
  BY <1>1, <1>2, <1>3, <1>4, <1>5

\* The rest of a plan spares the key if all of it did; only giving up the
\* key begins with a step that does not.
LEMMA BaseStep ==
    ASSUME MemoryInv, NEW op, Step(op), base # 0
    PROVE  /\ base = 1
           /\ \/ /\ live # <<>> /\ Spares(plan) /\ Spares(Tail(plan))
                 /\ mem[live[1]].owner = "key" /\ mem[live[1]].state = "locked"
                 /\ live[1] \in InUse /\ Head(plan) # <<"drop", "key">>
              \/ /\ plan = ForgetPlan /\ Tail(plan) = <<>> /\ op = "drop"
                 /\ Head(plan) = <<"drop", "key">>
<1>1. base = 1 /\ plan \in Seq(Ops) /\ plan # <<>>
  BY StepInOrder DEF MemoryInv, BaseInv
<1>2. CASE plan = ForgetPlan
  BY <1>1, <1>2 DEF ForgetPlan, Drop, Step
<1>3. CASE /\ live # <<>> /\ Spares(plan)
           /\ mem[live[1]].owner = "key" /\ mem[live[1]].state = "locked"
  <2>1. Len(live) \in Nat \ {0}
    BY <1>3, TopInUse DEF MemoryInv
  <2>2. live[1] \in InUse
    <3>1. 1 \in 1..Len(live) /\ live[1] \in Slots
      BY <2>1 DEF MemoryInv, MemInv
    <3>. QED
      BY <3>1 DEF MemoryInv, MemInv
  <2>3. Spares(Tail(plan)) /\ Head(plan) # <<"drop", "key">>
    BY <1>1, <1>3 DEF Spares
  <2>. QED
    BY <1>1, <1>3, <2>2, <2>3
<1>. QED
  BY <1>1, <1>2, <1>3 DEF MemoryInv, BaseInv

-----------------------------------------------------------------------------
(* The steps, one by one.                                                  *)

\* A fresh mapping holds no secret, and its owner had none.
LEMMA MapKeeps ==
    ASSUME MemoryInv, Map
    PROVE  MemoryInv'
<1>. DEFINE r == Head(plan)[2]
<1>1. Step("map")
  BY DEF Map
<1>2. PICK x \in Holdings, y \in Holdings, H \in SUBSET {"key"} :
        /\ Matches(x) /\ Does(Head(plan), x, y) /\ Leads(Tail(plan), y, At(H))
  BY <1>1, StepInOrder
<1>3. /\ Head(plan) = <<"map", r>> /\ r \in Owners /\ plan # <<>>
      /\ plan \in Seq(Ops) /\ Tail(plan) \in Seq(Ops) /\ failing = FALSE
  BY <1>1, StepInOrder
<1>4. PICK s \in Slots \ InUse :
        /\ mem' = [mem EXCEPT ![s] = [owner |-> r, state |-> "mapped",
                                      content |-> "zero"]]
        /\ live' = Append(live, s)
  <2>1. \E s \in Slots \ InUse : TRUE
    BY DEF Map, InUse
  <2>. QED
    BY <2>1 DEF Map
<1>5. plan' = Tail(plan) /\ UNCHANGED <<soft, hard, base, failing, asked>>
  BY DEF Map
<1>6. /\ x.pending = "none" /\ r \notin x.held
      /\ y = [held |-> x.held, pending |-> r]
  BY <1>2, <1>3 DEF Does
<1>7. mem \in [Slots -> Regions] /\ live \in Seq(Slots)
  BY DEF MemoryInv, MemInv
<1>8. /\ mem' \in [Slots -> Regions]
      /\ mem'[s] = [owner |-> r, state |-> "mapped", content |-> "zero"]
      /\ \A t \in Slots \ {s} : mem'[t] = mem[t]
  BY <1>3, <1>4, <1>7 DEF Regions
<1>9. InUse' = InUse \cup {s}
  BY <1>4, <1>8 DEF InUse
<1>10. \A t \in InUse :
          mem[t].owner # r /\ t # s /\ mem'[t] = mem[t] /\ t \in Slots
  BY <1>2, <1>3, <1>4, <1>6, <1>8 DEF Matches, Owners, InUse
<1>11. /\ Len(live) \in Nat /\ Len(live') = Len(live) + 1
       /\ live' \in Seq(Slots) /\ live'[Len(live) + 1] = s
       /\ \A i \in 1..Len(live) : live'[i] = live[i]
  BY <1>4, <1>7
<1>12. MemInv'
  <2>1. \A t \in Slots : mem'[t].state = "none" <=> mem'[t].owner = "none"
    <3>1. r # "none"
      BY <1>3 DEF Owners
    <3>. QED
      BY <1>8, <3>1 DEF MemoryInv, MemInv
  <2>2. \A t, u \in InUse' : mem'[t].owner = mem'[u].owner => t = u
    BY <1>8, <1>9, <1>10 DEF MemoryInv, MemInv
  <2>3. \A i \in 1..Len(live) : live[i] \in InUse
    BY DEF MemoryInv, MemInv
  <2>4. \A i, j \in 1..Len(live') : live'[i] = live'[j] => i = j
    <3>1. \A i, j \in 1..Len(live) : live[i] = live[j] => i = j
      BY DEF MemoryInv, MemInv
    <3>. QED
      BY <1>4, <1>11, <2>3, <3>1
  <2>5. \A t \in Slots : t \in InUse' <=> \E i \in 1..Len(live') : live'[i] = t
    <3>1. \A t \in Slots : t \in InUse <=> \E i \in 1..Len(live) : live[i] = t
      BY DEF MemoryInv, MemInv
    <3>2. \A t \in Slots : (\E i \in 1..Len(live') : live'[i] = t)
                              <=> t = s \/ \E i \in 1..Len(live) : live[i] = t
      BY <1>11
    <3>. QED
      BY <1>9, <3>1, <3>2
  <2>. QED
    BY <1>8, <1>11, <2>1, <2>2, <2>4, <2>5 DEF MemInv
<1>13. Matches(y)'
  <2>1. \A q \in Owners : (\E t \in InUse' : mem'[t].owner = q)
                             <=> q \in y.held \cup {y.pending}
    <3>1. \A q \in Owners : (\E t \in InUse' : mem'[t].owner = q)
                               <=> q = r \/ \E t \in InUse : mem[t].owner = q
      BY <1>8, <1>9, <1>10
    <3>. QED
      BY <1>2, <1>6, <3>1 DEF Matches, Owners
  <2>2. \A t \in InUse' : mem'[t].owner \in y.held => mem'[t].state = "locked"
    <3>1. \A t \in InUse : mem[t].owner \in x.held => mem[t].state = "locked"
      BY <1>2, <1>3 DEF Matches
    <3>. QED
      BY <1>6, <1>8, <1>9, <1>10, <3>1
  <2>3. live' # <<>> /\ mem'[Top'] = mem'[s]
    BY <1>11 DEF Top
  <2>. QED
    BY <1>6, <1>8, <2>1, <2>2, <2>3 DEF Matches
<1>14. PlanInv'
  BY <1>2, <1>3, <1>5, <1>13 DEF PlanInv
<1>15. BaseInv'
  <2>1. CASE base = 0
    BY <1>5, <2>1 DEF BaseInv
  <2>2. CASE base # 0
    <3>1. /\ base = 1 /\ live # <<>> /\ Spares(Tail(plan)) /\ live[1] \in InUse
          /\ mem[live[1]].owner = "key" /\ mem[live[1]].state = "locked"
      BY <1>1, <2>2, BaseStep
    <3>2. live'[1] = live[1] /\ live' # <<>>
      BY <1>7, <1>11, <3>1
    <3>. QED
      BY <1>5, <1>10, <3>1, <3>2 DEF BaseInv, Spares
  <2>. QED
    BY <2>1, <2>2
<1>16. LimitInv'
  BY <1>3, <1>5 DEF MemoryInv, LimitInv, Sufficient
<1>17. SecretsLocked'
  BY <1>8 DEF MemoryInv, SecretsLocked
<1>. QED
  BY <1>12, <1>14, <1>15, <1>16, <1>17 DEF MemoryInv

\* A region that changes hands with nobody leaves the table in order.
LEMMA RegionChanges ==
    ASSUME MemInv, NEW s \in InUse, NEW region \in Regions,
           region.owner = mem[s].owner, region.state # "none",
           mem' = [mem EXCEPT ![s] = region], live' = live
    PROVE  /\ MemInv' /\ InUse' = InUse /\ s \in Slots
           /\ mem'[s] = region
           /\ \A t \in Slots \ {s} : mem'[t] = mem[t]
           /\ \A t \in Slots : mem'[t].owner = mem[t].owner
<1>1. s \in Slots /\ mem[s].state # "none" /\ mem \in [Slots -> Regions]
  BY DEF InUse, MemInv
<1>2. /\ mem' \in [Slots -> Regions] /\ mem'[s] = region
      /\ \A t \in Slots \ {s} : mem'[t] = mem[t]
  BY <1>1
<1>3. \A t \in Slots : mem'[t].owner = mem[t].owner
  BY <1>2
<1>4. InUse' = InUse
  BY <1>1, <1>2 DEF InUse
<1>5. \A t \in Slots : mem'[t].state = "none" <=> mem'[t].owner = "none"
  BY <1>1, <1>2 DEF MemInv
<1>6. \A t, u \in InUse' : mem'[t].owner = mem'[u].owner => t = u
  BY <1>3, <1>4 DEF MemInv, InUse
<1>. QED
  BY <1>1, <1>2, <1>3, <1>4, <1>5, <1>6 DEF MemInv

\* What is left when the region of slot s, the i-th, is unmapped.
LEMMA RegionGone ==
    ASSUME MemInv, NEW s \in InUse, NEW region \in Regions,
           region.owner = "none", region.state = "none",
           mem' = [mem EXCEPT ![s] = region],
           NEW i \in 1..Len(live), live[i] = s, live' = RemoveAt(live, i)
    PROVE  /\ MemInv' /\ InUse' = InUse \ {s} /\ s \in Slots
           /\ mem'[s] = region
           /\ \A t \in Slots \ {s} : mem'[t] = mem[t]
           /\ live[1] # s => live' # <<>> /\ live'[1] = live[1]
<1>1. s \in Slots /\ mem \in [Slots -> Regions] /\ live \in Seq(Slots)
  BY DEF InUse, MemInv
<1>2. /\ mem' \in [Slots -> Regions] /\ mem'[s] = region
      /\ \A t \in Slots \ {s} : mem'[t] = mem[t]
  BY <1>1
<1>3. InUse' = InUse \ {s}
  BY <1>1, <1>2 DEF InUse
<1>. DEFINE n == Len(live)
<1>4. n \in Nat /\ i \in 1..n
  BY <1>1
<1>5. /\ live' \in Seq(Slots) /\ Len(live') = n - 1
      /\ \A k \in 1..(n - 1) :
            live'[k] = IF k < i THEN live[k] ELSE live[k + 1]
  BY <1>1, <1>4, RemoveAtEntries
<1>6. \A j, k \in 1..n : live[j] = live[k] => j = k
  BY DEF MemInv
<1>7. \A j, k \in 1..Len(live') : live'[j] = live'[k] => j = k
  <2>1. ASSUME NEW j \in 1..Len(live'), NEW k \in 1..Len(live'),
               live'[j] = live'[k]
        PROVE  j = k
    <3>. DEFINE g == IF j < i THEN j ELSE j + 1
                h == IF k < i THEN k ELSE k + 1
    <3>1. g \in 1..n /\ h \in 1..n /\ live[g] = live[h]
      BY <1>4, <1>5, <2>1
    <3>2. g = h
      BY <1>6, <3>1
    <3>. QED
      BY <1>4, <1>5, <3>2
  <2>. QED
    BY <2>1
<1>8. \A t \in Slots : t \in InUse' <=> \E k \in 1..Len(live') : live'[k] = t
  <2>1. \A t \in Slots : t \in InUse <=> \E k \in 1..n : live[k] = t
    BY DEF MemInv
  <2>2. ASSUME NEW t \in Slots, t \in InUse'
        PROVE  \E k \in 1..Len(live') : live'[k] = t
    <3>1. PICK k \in 1..n : live[k] = t
      BY <1>3, <2>1, <2>2
    <3>2. k # i
      BY <1>3, <2>2, <3>1
    <3>3. CASE k < i
      BY <1>4, <1>5, <3>1, <3>3
    <3>4. CASE k > i
      <4>1. k - 1 \in 1..(n - 1) /\ ~(k - 1 < i) /\ (k - 1) + 1 = k
        BY <1>4, <3>4
      <4>2. live'[k - 1] = t
        BY <1>5, <3>1, <4>1
      <4>. QED
        BY <1>5, <4>1, <4>2
    <3>. QED
      BY <1>4, <3>2, <3>3, <3>4
  <2>3. ASSUME NEW t \in Slots, NEW k \in 1..Len(live'), live'[k] = t
        PROVE  t \in InUse'
    <3>. DEFINE h == IF k < i THEN k ELSE k + 1
    <3>1. h \in 1..n /\ live[h] = t /\ h # i
      BY <1>4, <1>5, <2>3
    <3>2. t \in InUse /\ t # s
      BY <1>4, <1>6, <2>1, <3>1
    <3>. QED
      BY <1>3, <3>2
  <2>. QED
    BY <2>2, <2>3
<1>9. \A t \in Slots : mem'[t].state = "none" <=> mem'[t].owner = "none"
  BY <1>2 DEF MemInv
<1>10. \A t, u \in InUse' : mem'[t].owner = mem'[u].owner => t = u
  <2>1. \A t \in InUse' : t \in InUse /\ mem'[t] = mem[t]
    BY <1>2, <1>3 DEF InUse
  <2>. QED
    BY <2>1 DEF MemInv
<1>11. MemInv'
  BY <1>2, <1>5, <1>7, <1>8, <1>9, <1>10 DEF MemInv
<1>12. live[1] # s => live' # <<>> /\ live'[1] = live[1]
  <2>1. SUFFICES ASSUME live[1] # s PROVE live' # <<>> /\ live'[1] = live[1]
    OBVIOUS
  <2>2. i > 1
    BY <1>4, <2>1
  <2>3. 1 \in 1..(n - 1) /\ 1 < i
    BY <1>4, <2>2
  <2>. QED
    BY <1>5, <2>3
<1>. QED
  BY <1>1, <1>2, <1>3, <1>11, <1>12

\* mlock either succeeds for the region mapped last, or the error begins.
LEMMA LockKeeps ==
    ASSUME MemoryInv, Lock
    PROVE  MemoryInv'
<1>. DEFINE r == Head(plan)[2]
            region == [mem[Top] EXCEPT !.state = "locked"]
<1>1. Step("lock") /\ UNCHANGED <<soft, hard, live, base, asked>>
  BY DEF Lock
<1>2. PICK x \in Holdings, y \in Holdings, H \in SUBSET {"key"} :
        /\ Matches(x) /\ Does(Head(plan), x, y) /\ Leads(Tail(plan), y, At(H))
  BY <1>1, StepInOrder
<1>3. /\ Head(plan) = <<"lock", r>> /\ r \in Owners /\ plan # <<>>
      /\ plan \in Seq(Ops) /\ Tail(plan) \in Seq(Ops) /\ failing = FALSE
  BY <1>1, StepInOrder
<1>4. x.pending = r /\ y.held = x.held \cup {r} /\ y.pending = "none"
  BY <1>2, <1>3 DEF Does, At
<1>5. /\ live # <<>> /\ mem[Top].owner = r /\ r \notin x.held
      /\ Top \in InUse /\ r # "none"
  BY <1>2, <1>3, <1>4, TopInUse DEF Matches, Owners, MemoryInv
<1>6. LimitInv'
  BY <1>1, <1>3 DEF MemoryInv, LimitInv, Sufficient
<1>7. CASE /\ mem' = [mem EXCEPT ![Top].state = "locked"]
           /\ plan' = Tail(plan) /\ failing' = failing
  <2>1. mem[Top] \in Regions /\ region \in Regions
    BY <1>5, TopInUse DEF MemoryInv, MemInv, Regions
  <2>2. region.owner = mem[Top].owner /\ region.state = "locked"
    BY <2>1 DEF Regions
  <2>3. mem' = [mem EXCEPT ![Top] = region]
    BY <1>7
  <2>. HIDE DEF region
  <2>4. /\ MemInv' /\ InUse' = InUse /\ Top \in Slots /\ mem'[Top] = region
        /\ \A t \in Slots \ {Top} : mem'[t] = mem[t]
        /\ \A t \in Slots : mem'[t].owner = mem[t].owner
    BY <1>1, <1>5, <2>1, <2>2, <2>3, RegionChanges DEF MemoryInv
  <2>5. \A t \in InUse : t \in Slots
    BY DEF InUse
  <2>6. Matches(y)'
    <3>1. \A q \in Owners : (\E t \in InUse' : mem'[t].owner = q)
                               <=> q \in y.held \cup {y.pending}
      BY <1>2, <1>4, <1>5, <2>4, <2>5 DEF Matches, Owners
    <3>2. \A t \in InUse' :
             mem'[t].owner \in y.held => mem'[t].state = "locked"
      <4>1. \A t \in InUse : mem[t].owner \in x.held => mem[t].state = "locked"
        BY <1>2, <1>3 DEF Matches
      <4>2. \A t \in InUse : mem[t].owner = r => t = Top
        BY <1>5 DEF MemoryInv, MemInv
      <4>. QED
        BY <1>4, <2>2, <2>4, <2>5, <4>1, <4>2
    <3>3. y.pending \notin y.held
      BY <1>2, <1>4, <1>5 DEF Holdings, Owners
    <3>. QED
      BY <1>4, <3>1, <3>2, <3>3 DEF Matches
  <2>7. PlanInv'
    BY <1>2, <1>3, <1>7, <2>6 DEF PlanInv
  <2>8. BaseInv'
    <3>1. CASE base = 0
      BY <1>1, <3>1 DEF BaseInv
    <3>2. CASE base # 0
      <4>1. /\ base = 1 /\ Spares(Tail(plan)) /\ live[1] \in InUse
            /\ mem[live[1]].owner = "key" /\ mem[live[1]].state = "locked"
        BY <1>1, <3>2, BaseStep
      <4>2. mem'[live[1]].owner = "key" /\ mem'[live[1]].state = "locked"
        BY <2>2, <2>4, <2>5, <4>1
      <4>. QED
        BY <1>1, <1>5, <1>7, <4>1, <4>2 DEF BaseInv, Spares
    <3>. QED
      BY <3>1, <3>2
  <2>9. SecretsLocked'
    BY <2>2, <2>4 DEF MemoryInv, SecretsLocked
  <2>. QED
    BY <1>6, <2>4, <2>7, <2>8, <2>9 DEF MemoryInv
<1>8. CASE failing' = TRUE /\ plan' = <<>> /\ mem' = mem
  <2>1. MemInv' /\ SecretsLocked'
    BY <1>1, <1>8 DEF MemoryInv, MemInv, SecretsLocked, InUse
  <2>2. PlanInv'
    BY <1>8 DEF PlanInv
  <2>3. BaseInv'
    <3>1. base # 0 => /\ base = 1 /\ live # <<>>
                      /\ mem[live[1]].owner = "key"
                      /\ mem[live[1]].state = "locked"
      BY <1>1, BaseStep
    <3>. QED
      BY <1>1, <1>8, <3>1 DEF BaseInv, Spares
  <2>. QED
    BY <1>6, <2>1, <2>2, <2>3 DEF MemoryInv
<1>. QED
  BY <1>7, <1>8 DEF Lock

\* madvise changes nothing that is kept here.
LEMMA ProtectKeeps ==
    ASSUME MemoryInv, Protect
    PROVE  MemoryInv'
<1>1. /\ Step("protect") /\ plan' = Tail(plan)
      /\ UNCHANGED <<soft, hard, mem, live, base, failing, asked>>
  BY DEF Protect
<1>2. PICK x \in Holdings, y \in Holdings, H \in SUBSET {"key"} :
        /\ Matches(x) /\ Does(Head(plan), x, y) /\ Leads(Tail(plan), y, At(H))
  BY <1>1, StepInOrder
<1>3. /\ Head(plan) = <<"protect", Head(plan)[2]>> /\ plan # <<>>
      /\ plan \in Seq(Ops) /\ Tail(plan) \in Seq(Ops) /\ failing = FALSE
  BY <1>1, StepInOrder
<1>4. y = x
  BY <1>2, <1>3 DEF Does
<1>5. MemInv' /\ SecretsLocked' /\ LimitInv'
  BY <1>1, <1>3
     DEF MemoryInv, MemInv, SecretsLocked, InUse, LimitInv, Sufficient
<1>6. Matches(y)'
  <2>1. InUse' = InUse /\ Top' = Top
    BY <1>1 DEF InUse, Top
  <2>2. \A s \in InUse : mem[s].owner \in x.held => mem[s].state = "locked"
    BY <1>2, <1>3 DEF Matches
  <2>. QED
    BY <1>1, <1>2, <1>4, <2>1, <2>2 DEF Matches
<1>7. PlanInv'
  BY <1>1, <1>2, <1>3, <1>6 DEF PlanInv
<1>8. BaseInv'
  BY <1>1, BaseStep DEF MemoryInv, BaseInv, Spares
<1>. QED
  BY <1>5, <1>7, <1>8 DEF MemoryInv

\* A value is written where the plan holds the owner, thus into a locked
\* region.
LEMMA WriteKeeps ==
    ASSUME MemoryInv, Write
    PROVE  MemoryInv'
<1>. DEFINE r == Head(plan)[2]
<1>1. /\ Step("fill") /\ plan' = Tail(plan)
      /\ UNCHANGED <<soft, hard, live, base, failing>>
  BY DEF Write
<1>2. PICK x \in Holdings, y \in Holdings, H \in SUBSET {"key"} :
        /\ Matches(x) /\ Does(Head(plan), x, y) /\ Leads(Tail(plan), y, At(H))
  BY <1>1, StepInOrder
<1>3. /\ Head(plan) = <<"fill", r>> /\ r \in Owners /\ plan # <<>>
      /\ plan \in Seq(Ops) /\ Tail(plan) \in Seq(Ops) /\ failing = FALSE
  BY <1>1, StepInOrder
<1>4. x.pending = "none" /\ r \in x.held /\ y = x
  BY <1>2, <1>3 DEF Does
<1>5. PICK s \in InUse : /\ mem[s].owner = r
                         /\ mem' = [mem EXCEPT ![s].content = "secret"]
  BY DEF Write
<1>. DEFINE region == [mem[s] EXCEPT !.content = "secret"]
<1>6. mem[s].state = "locked"
  BY <1>2, <1>3, <1>4, <1>5 DEF Matches
<1>7. mem[s] \in Regions /\ region \in Regions
  BY DEF MemoryInv, MemInv, Regions, InUse
<1>8. region.owner = mem[s].owner /\ region.state = "locked"
  BY <1>6, <1>7 DEF Regions
<1>9. mem' = [mem EXCEPT ![s] = region]
  BY <1>5
<1>. HIDE DEF region
<1>10. /\ MemInv' /\ InUse' = InUse /\ s \in Slots /\ mem'[s] = region
       /\ \A t \in Slots \ {s} : mem'[t] = mem[t]
       /\ \A t \in Slots : mem'[t].owner = mem[t].owner
  BY <1>1, <1>7, <1>8, <1>9, RegionChanges DEF MemoryInv
<1>11. \A t \in Slots : mem'[t].state = mem[t].state
  BY <1>6, <1>8, <1>10
<1>12. \A t \in InUse : t \in Slots
  BY DEF InUse
<1>13. Matches(y)'
  <2>1. \A t \in InUse : mem[t].owner \in x.held => mem[t].state = "locked"
    BY <1>2, <1>3 DEF Matches
  <2>2. \A q \in Owners : (\E t \in InUse' : mem'[t].owner = q)
                             <=> q \in y.held \cup {y.pending}
    BY <1>2, <1>4, <1>10, <1>12 DEF Matches
  <2>3. \A t \in InUse' : mem'[t].owner \in y.held => mem'[t].state = "locked"
    BY <1>4, <1>10, <1>11, <1>12, <2>1
  <2>4. y.pending \notin y.held
    BY <1>2, <1>4 DEF Matches
  <2>. QED
    BY <1>4, <2>2, <2>3, <2>4 DEF Matches
<1>14. PlanInv'
  BY <1>1, <1>2, <1>3, <1>13 DEF PlanInv
<1>15. BaseInv'
  <2>1. base # 0 => /\ base = 1 /\ live # <<>> /\ Spares(Tail(plan))
                    /\ live[1] \in InUse /\ mem[live[1]].owner = "key"
                    /\ mem[live[1]].state = "locked"
    BY <1>1, BaseStep
  <2>. QED
    BY <1>1, <1>10, <1>11, <1>12, <2>1 DEF BaseInv, Spares
<1>16. LimitInv'
  BY <1>1, <1>3 DEF MemoryInv, LimitInv, Sufficient
<1>17. SecretsLocked'
  BY <1>8, <1>10 DEF MemoryInv, SecretsLocked
<1>. QED
  BY <1>10, <1>14, <1>15, <1>16, <1>17 DEF MemoryInv

\* An error leaves memory as it is, and the key that was there before.
LEMMA FailKeeps ==
    ASSUME MemoryInv, Fail
    PROVE  MemoryInv'
<1>1. PICK op \in {"map", "lock", "protect", "fill"} : Step(op)
  BY DEF Fail
<1>2. /\ failing' = TRUE /\ plan' = <<>>
      /\ UNCHANGED <<soft, hard, mem, live, base, asked>>
  BY DEF Fail
<1>3. MemInv' /\ SecretsLocked'
  BY <1>2 DEF MemoryInv, MemInv, SecretsLocked, InUse
<1>4. PlanInv'
  BY <1>2 DEF PlanInv
<1>5. BaseInv'
  <2>1. base # 0 => /\ base = 1 /\ live # <<>>
                    /\ mem[live[1]].owner = "key"
                    /\ mem[live[1]].state = "locked"
    BY <1>1, BaseStep
  <2>. QED
    BY <1>2, <2>1 DEF BaseInv, Spares
<1>6. LimitInv'
  BY <1>1, <1>2, StepInOrder DEF MemoryInv, LimitInv, Sufficient
<1>. QED
  BY <1>3, <1>4, <1>5, <1>6 DEF MemoryInv

\* The calls of Drop, one after the other, never unlock what is not erased.
LEMMA DroppedRegion ==
    ASSUME NEW region \in Regions, region.state # "none"
    PROVE  /\ Dropped(region) \in Regions
           /\ Dropped(region).state = "none" <=> region.state = "mapped"
           /\ IF region.state = "mapped" THEN Dropped(region).owner = "none"
              ELSE Dropped(region).owner = region.owner
           /\ Dropped(region).content = "secret"
                  => region.content = "secret" /\ region.state # "locked"
<1>1. region.state \in {"locked", "erased", "mapped"}
  BY DEF Regions
<1>2. CASE region.state = "locked"
  <2>1. Dropped(region) =
           [region EXCEPT !.state = "erased", !.content = "zero"]
    BY <1>2 DEF Dropped
  <2>. QED
    BY <1>2, <2>1 DEF Regions
<1>3. CASE region.state = "erased"
  <2>1. Dropped(region) = [region EXCEPT !.state = "mapped"]
    BY <1>3 DEF Dropped
  <2>. QED
    BY <1>3, <2>1 DEF Regions
<1>4. CASE region.state = "mapped"
  <2>1. Dropped(region) = [Free EXCEPT !.content = region.content]
    BY <1>4 DEF Dropped
  <2>. QED
    BY <1>4, <2>1 DEF Regions, Free
<1>. QED
  BY <1>1, <1>2, <1>3, <1>4

\* One call of Drop: the table stays in order, no secret is uncovered, and
\* slots of others are left alone.
LEMMA DropSlotKeeps ==
    ASSUME MemInv, SecretsLocked, NEW s \in InUse, NEW done, DropSlot(s, done)
    PROVE  /\ MemInv' /\ SecretsLocked' /\ s \in Slots
           /\ \A t \in Slots \ {s} : mem'[t] = mem[t]
           /\ UNCHANGED <<soft, hard, base, failing, asked>>
           /\ \/ /\ InUse' = InUse /\ live' = live /\ plan' = plan
                 /\ mem'[s].owner = mem[s].owner
              \/ /\ InUse' = InUse \ {s} /\ plan' = done
                 /\ live[1] # s => live' # <<>> /\ live'[1] = live[1]
<1>. DEFINE region == Dropped(mem[s])
<1>1. /\ s \in Slots /\ mem[s] \in Regions /\ mem[s].state # "none"
      /\ mem \in [Slots -> Regions] /\ live \in Seq(Slots)
  BY DEF MemInv, InUse
<1>2. /\ region \in Regions
      /\ region.state = "none" <=> mem[s].state = "mapped"
      /\ IF mem[s].state = "mapped" THEN region.owner = "none"
         ELSE region.owner = mem[s].owner
      /\ region.content = "secret"
             => mem[s].content = "secret" /\ mem[s].state # "locked"
  BY <1>1, DroppedRegion
<1>3. region.content # "secret"
  BY <1>1, <1>2 DEF SecretsLocked
<1>4. /\ mem' = [mem EXCEPT ![s] = region]
      /\ UNCHANGED <<soft, hard, base, failing, asked>>
  BY DEF DropSlot
<1>. HIDE DEF region
<1>5. mem'[s] = region /\ \A t \in Slots \ {s} : mem'[t] = mem[t]
  BY <1>1, <1>4
<1>6. SecretsLocked'
  BY <1>3, <1>5 DEF SecretsLocked
<1>7. CASE region.state # "none"
  <2>1. live' = live /\ plan' = plan
    BY <1>5, <1>7 DEF DropSlot
  <2>2. region.owner = mem[s].owner
    BY <1>2, <1>7
  <2>3. MemInv' /\ InUse' = InUse
    BY <1>2, <1>4, <1>7, <2>1, <2>2, RegionChanges
  <2>. QED
    BY <1>1, <1>4, <1>5, <1>6, <2>1, <2>2, <2>3
<1>8. CASE region.state = "none"
  <2>1. plan' = done
        /\ \E i \in DOMAIN live : live[i] = s /\ live' = RemoveAt(live, i)
    BY <1>5, <1>8 DEF DropSlot
  <2>2. DOMAIN live = 1..Len(live)
    BY <1>1
  <2>3. PICK i \in 1..Len(live) : live[i] = s /\ live' = RemoveAt(live, i)
    BY <2>1, <2>2
  <2>4. region.owner = "none"
    BY <1>2, <1>8
  <2>5. /\ MemInv' /\ InUse' = InUse \ {s}
        /\ live[1] # s => live' # <<>> /\ live'[1] = live[1]
    BY <1>2, <1>4, <1>8, <2>3, <2>4, RegionGone
  <2>. QED
    BY <1>1, <1>4, <1>5, <1>6, <2>1, <2>5
<1>. QED
  BY <1>7, <1>8

\* A drop in the plan gives up what was held.
LEMMA DropOwnerKeeps ==
    ASSUME MemoryInv, DropOwner
    PROVE  MemoryInv'
<1>. DEFINE r == Head(plan)[2]
<1>1. Step("drop")
  BY DEF DropOwner
<1>2. PICK x \in Holdings, y \in Holdings, H \in SUBSET {"key"} :
        /\ Matches(x) /\ Does(Head(plan), x, y)
        /\ Leads(plan, x, At(H)) /\ Leads(Tail(plan), y, At(H))
  BY <1>1, StepInOrder
<1>3. /\ Head(plan) = <<"drop", r>> /\ r \in Owners /\ plan # <<>>
      /\ plan \in Seq(Ops) /\ Tail(plan) \in Seq(Ops) /\ failing = FALSE
  BY <1>1, StepInOrder
<1>4. /\ x.pending = "none" /\ r \in x.held
      /\ y.held = x.held \ {r} /\ y.pending = "none"
  BY <1>2, <1>3 DEF Does, At
<1>5. PICK s \in InUse : mem[s].owner = r /\ DropSlot(s, Tail(plan))
  BY DEF DropOwner
<1>6. /\ MemInv' /\ SecretsLocked' /\ s \in Slots
      /\ \A t \in Slots \ {s} : mem'[t] = mem[t]
      /\ UNCHANGED <<soft, hard, base, failing, asked>>
      /\ \/ /\ InUse' = InUse /\ live' = live /\ plan' = plan
            /\ mem'[s].owner = mem[s].owner
         \/ /\ InUse' = InUse \ {s} /\ plan' = Tail(plan)
            /\ live[1] # s => live' # <<>> /\ live'[1] = live[1]
  BY <1>5, DropSlotKeeps DEF MemoryInv
<1>7. \A t \in InUse : t \in Slots /\ (mem[t].owner = r => t = s)
  BY <1>5 DEF MemoryInv, MemInv, InUse
<1>8. \A t \in InUse :
         mem[t].owner \in x.held /\ t # s => mem[t].state = "locked"
  BY <1>2, <1>3, <1>7 DEF Matches
<1>9. \A q \in Owners : (\E t \in InUse : mem[t].owner = q)
                           <=> q \in x.held \cup {x.pending}
  BY <1>2 DEF Matches
<1>10. PlanInv'
  <2>1. CASE /\ InUse' = InUse /\ live' = live /\ plan' = plan
             /\ mem'[s].owner = mem[s].owner
    <3>1. \A q \in Owners : (\E t \in InUse' : mem'[t].owner = q)
                               <=> q \in x.held \cup {x.pending}
      BY <1>6, <1>7, <1>9, <2>1
    <3>2. \A t \in InUse' : mem'[t].owner \in x.held =>
              \/ mem'[t].state = "locked"
              \/ plan' # <<>> /\ Head(plan') = <<"drop", mem'[t].owner>>
      BY <1>3, <1>5, <1>6, <1>7, <1>8, <2>1
    <3>3. Matches(x)'
      BY <1>2, <1>4, <3>1, <3>2 DEF Matches
    <3>. QED
      BY <1>2, <1>3, <1>6, <2>1, <3>3 DEF PlanInv
  <2>2. CASE InUse' = InUse \ {s} /\ plan' = Tail(plan)
    <3>1. \A t \in InUse' : t \in InUse /\ t # s /\ mem'[t] = mem[t]
                            /\ mem[t].owner # r
      BY <1>6, <1>7, <2>2
    <3>2. \A q \in Owners : (\E t \in InUse' : mem'[t].owner = q)
                               <=> q # r /\ \E t \in InUse : mem[t].owner = q
      BY <1>5, <1>6, <1>7, <2>2, <3>1
    <3>3. \A q \in Owners : (\E t \in InUse' : mem'[t].owner = q)
                               <=> q \in y.held \cup {y.pending}
      BY <1>4, <1>9, <3>2 DEF Owners
    <3>4. \A t \in InUse' :
             mem'[t].owner \in y.held => mem'[t].state = "locked"
      BY <1>4, <1>8, <3>1
    <3>5. y.pending \notin y.held
      BY <1>2, <1>4 DEF Matches
    <3>6. Matches(y)'
      BY <1>4, <3>3, <3>4, <3>5 DEF Matches
    <3>. QED
      BY <1>2, <1>3, <1>6, <2>2, <3>6 DEF PlanInv
  <2>. QED
    BY <1>6, <2>1, <2>2
<1>11. BaseInv'
  <2>1. CASE base = 0
    BY <1>6, <2>1 DEF BaseInv
  <2>2. CASE /\ base = 1 /\ live # <<>> /\ Spares(plan) /\ Spares(Tail(plan))
             /\ mem[live[1]].owner = "key" /\ mem[live[1]].state = "locked"
             /\ live[1] \in InUse /\ Head(plan) # <<"drop", "key">>
    <3>1. live[1] # s /\ live[1] \in Slots
      BY <1>3, <1>5, <1>7, <2>2
    <3>2. mem'[live[1]] = mem[live[1]] /\ live' # <<>> /\ live'[1] = live[1]
      BY <1>6, <2>2, <3>1
    <3>3. Spares(plan')
      BY <1>6, <2>2
    <3>. QED
      BY <1>6, <2>2, <3>2, <3>3 DEF BaseInv
  <2>3. CASE base = 1 /\ plan = ForgetPlan /\ Tail(plan) = <<>>
    BY <1>3, <1>6, <2>3 DEF BaseInv
  <2>. QED
    BY <1>1, <2>1, <2>2, <2>3, BaseStep
<1>12. LimitInv'
  BY <1>3, <1>6 DEF MemoryInv, LimitInv, Sufficient
<1>. QED
  BY <1>6, <1>10, <1>11, <1>12 DEF MemoryInv

\* An error drops the youngest owner, and stops before the key.
LEMMA UnwindKeeps ==
    ASSUME MemoryInv, Unwind
    PROVE  MemoryInv'
<1>1. /\ failing /\ plan = <<>> /\ failing = TRUE /\ DropSlot(Top, <<>>)
      /\ Len(live) > base /\ (base = 0 \/ base = 1) /\ live \in Seq(Slots)
  BY DEF Unwind, MemoryInv, PlanInv, BaseInv, MemInv
<1>2. live # <<>>
  BY <1>1
<1>3. Top \in InUse /\ Len(live) \in Nat \ {0} /\ Top = live[Len(live)]
  BY <1>2, TopInUse DEF MemoryInv
<1>4. /\ MemInv' /\ SecretsLocked'
      /\ \A t \in Slots \ {Top} : mem'[t] = mem[t]
      /\ UNCHANGED <<soft, hard, base, failing, asked>>
      /\ \/ live' = live /\ plan' = plan
         \/ /\ plan' = <<>>
            /\ live[1] # Top => live' # <<>> /\ live'[1] = live[1]
  BY <1>1, <1>3, DropSlotKeeps DEF MemoryInv
<1>5. PlanInv'
  <2>1. plan' = <<>> /\ failing' = TRUE
    BY <1>1, <1>4
  <2>. QED
    BY <2>1 DEF PlanInv
<1>6. BaseInv'
  <2>1. CASE base = 0
    BY <1>4, <2>1 DEF BaseInv
  <2>2. CASE base = 1
    <3>1. mem[live[1]].owner = "key" /\ mem[live[1]].state = "locked"
      BY <1>1, <2>2 DEF MemoryInv, BaseInv
    <3>2. \A i, j \in 1..Len(live) : live[i] = live[j] => i = j
      BY DEF MemoryInv, MemInv
    <3>3. 1 \in 1..Len(live) /\ Len(live) \in 1..Len(live) /\ 1 # Len(live)
      BY <1>1, <1>3, <2>2
    <3>4. live[1] # Top /\ live[1] \in Slots
      <4>1. live[1] # live[Len(live)]
        BY <3>2, <3>3
      <4>. QED
        BY <1>1, <1>3, <3>3, <4>1
    <3>5. mem'[live[1]] = mem[live[1]] /\ live' # <<>> /\ live'[1] = live[1]
      BY <1>2, <1>4, <3>4
    <3>6. Spares(plan')
      BY <1>1, <1>4 DEF Spares
    <3>. QED
      BY <1>4, <2>2, <3>1, <3>5, <3>6 DEF BaseInv
  <2>. QED
    BY <1>1, <2>1, <2>2
<1>7. LimitInv'
  BY <1>1, <1>4 DEF MemoryInv, LimitInv, Sufficient
<1>. QED
  BY <1>4, <1>5, <1>6, <1>7 DEF MemoryInv

\* When the error has come up, memory is as it was before the operation.
LEMMA ReportKeeps ==
    ASSUME MemoryInv, Report
    PROVE  MemoryInv'
<1>1. /\ failing = TRUE /\ plan = <<>> /\ Len(live) = base /\ failing' = FALSE
      /\ UNCHANGED <<soft, hard, mem, live, plan, base, asked>>
      /\ live \in Seq(Slots) /\ (base = 0 \/ base = 1)
  BY DEF Report, MemoryInv, PlanInv, BaseInv, MemInv
<1>2. MemInv' /\ SecretsLocked'
  BY <1>1 DEF MemoryInv, MemInv, SecretsLocked, InUse
<1>3. \E H \in SUBSET {"key"} : Matches(At(H))'
  <2>1. \A H \in SUBSET Owners : At(H).held = H /\ At(H).pending = "none"
    BY DEF At
  <2>2. "none" \notin Owners /\ "key" \in Owners
    BY DEF Owners
  <2>3. CASE base = 0
    <3>1. live = <<>>
      BY <1>1, <2>3
    <3>2. InUse' = {}
      BY <1>1, <3>1, NothingLive DEF MemoryInv, InUse
    <3>3. At({}).held = {} /\ At({}).pending = "none"
      BY <2>1
    <3>4. Matches(At({}))'
      BY <2>2, <3>2, <3>3 DEF Matches
    <3>. QED
      BY <3>4
  <2>4. CASE base = 1
    <3>1. /\ live # <<>> /\ mem[live[1]].owner = "key"
          /\ mem[live[1]].state = "locked"
      BY <1>1, <2>4 DEF MemoryInv, BaseInv
    <3>2. \A s \in InUse : s = live[1]
      <4>1. \A i \in 1..Len(live) : i = 1
        BY <1>1, <2>4
      <4>2. \A s \in InUse : s \in Slots /\ \E i \in 1..Len(live) : live[i] = s
        BY DEF MemoryInv, MemInv, InUse
      <4>. QED
        BY <4>1, <4>2
    <3>3. Top \in InUse
      BY <3>1, TopInUse DEF MemoryInv
    <3>4. InUse' = InUse /\ live[1] \in InUse
      BY <1>1, <3>2, <3>3 DEF InUse
    <3>5. Matches(At({"key"}))'
      BY <1>1, <2>1, <2>2, <3>1, <3>2, <3>4 DEF Matches
    <3>. QED
      BY <3>5
  <2>. QED
    BY <1>1, <2>3, <2>4
<1>4. PlanInv'
  <2>1. PICK H \in SUBSET {"key"} : Matches(At(H))'
    BY <1>3
  <2>2. At(H) \in Holdings
    BY AtType DEF Owners
  <2>3. Leads(<<>>, At(H), At(H))
    BY <2>2, LeadsNowhere
  <2>4. plan' \in Seq(Ops) /\ plan' = <<>>
    BY <1>1
  <2>. QED
    BY <1>1, <2>1, <2>2, <2>3, <2>4 DEF PlanInv
<1>5. BaseInv'
  BY <1>1 DEF BaseInv
<1>6. LimitInv'
  BY <1>1 DEF MemoryInv, LimitInv, Sufficient
<1>. QED
  BY <1>2, <1>4, <1>5, <1>6 DEF MemoryInv

-----------------------------------------------------------------------------
(* What is locked, and the limit.                                          *)

\* There are eight kinds of owners.
LEMMA OwnersFinite == IsFiniteSet(Owners)
<1>1. \A S, x : IsFiniteSet(S) => IsFiniteSet(S \cup {x})
  BY FS_AddElement
<1>2. Owners = {} \cup {"password"} \cup {"confirmation"} \cup {"byte"}
                 \cup {"key"} \cup {"scratch"} \cup {"plain"} \cup {"vault"}
                 \cup {"phrase"}
  BY DEF Owners
<1>. QED
  BY <1>1, <1>2, FS_EmptySet

Locked == {s \in Slots : mem[s].state \in {"locked", "erased"}}
Weight == [s \in Locked |-> Pages[mem[s].owner]]

\* The locked pages are the sum that they are said to be.
LEMMA LockedSum ==
    ASSUME MemInv, IsFiniteSet(Locked), NEW f, IsSum(Locked, Weight, f)
    PROVE  LockedPages = f[Locked]
<1>. DEFINE Eq(g) == g = [s \in SUBSET Locked |->
                             IF s = {} THEN 0
                             ELSE Pages[mem[OneOf(s)].owner] + g[s \ {OneOf(s)}]]
            chosen == CHOOSE g : Eq(g)
<1>1. LockedPages = chosen[Locked]
  BY DEF LockedPages, MapThenSumSet, MapThenFoldSet, OneOf, Locked
<1>2. \A s \in SUBSET Locked :
         s # {} => Pages[mem[OneOf(s)].owner] = Weight[OneOf(s)]
  <2>1. \A s \in SUBSET Locked : s # {} => OneOf(s) \in Locked
    BY DEF OneOf
  <2>. QED
    BY <2>1 DEF Weight
<1>3. \A g : Eq(g) <=> IsSum(Locked, Weight, g)
  BY <1>2 DEF IsSum
<1>4. Eq(f)
  BY <1>3
<1>. HIDE DEF Eq
<1>5. Eq(chosen)
  BY <1>4
<1>. HIDE DEF chosen
<1>6. Weight \in [Locked -> Nat]
  <2>1. \A s \in Locked : mem[s].owner \in Owners
    BY DEF Locked, MemInv, Regions
  <2>. QED
    BY <2>1, MemoryAssumption DEF Weight
<1>7. chosen = f
  BY <1>3, <1>5, <1>6, SumUnique
<1>. QED
  BY <1>1, <1>7

\* Every owner has one region at most, so what is locked, and one owner more,
\* is no more than what all owners take.
LEMMA LockedFits ==
    ASSUME MemInv, NEW r \in Owners, \A s \in Locked : mem[s].owner # r
    PROVE  /\ LockedPages + Pages[r] <= Required
           /\ LockedPages \in Nat /\ Pages[r] \in Nat
<1>. DEFINE owner == [s \in Locked |-> mem[s].owner]
            image(s) == {mem[t].owner : t \in s}
<1>1. \A s \in Locked : mem[s].owner \in Owners /\ s \in InUse
  BY DEF Locked, MemInv, Regions, InUse
<1>2. \A s, t \in Locked : mem[s].owner = mem[t].owner => s = t
  BY <1>1 DEF MemInv
<1>3. IsFiniteSet(Locked)
  <2>1. owner \in Injection(Locked, Owners)
    BY <1>1, <1>2 DEF Injection, IsInjective
  <2>. QED
    BY <2>1, OwnersFinite, FS_Injection
<1>4. Pages \in [Owners -> Nat] /\ Weight \in [Locked -> Nat]
  BY <1>1, MemoryAssumption DEF Weight
<1>5. PICK f : IsSum(Owners, Pages, f)
  BY <1>4, OwnersFinite, SumExists
<1>6. SumLaw(Owners, Pages, f)
  BY <1>4, <1>5, OwnersFinite, SumStep
<1>. DEFINE g == [s \in SUBSET Locked |-> f[image(s)]]
<1>7. IsSum(Locked, Weight, g)
  <2>1. g[{}] = 0
    <3>1. image({}) = {}
      OBVIOUS
    <3>. QED
      BY <1>6, <3>1 DEF SumLaw
  <2>2. ASSUME NEW s \in SUBSET Locked, s # {}
        PROVE  g[s] = Weight[OneOf(s)] + g[s \ {OneOf(s)}]
    <3>. DEFINE a == OneOf(s)
    <3>1. a \in s
      BY <2>2 DEF OneOf
    <3>. HIDE DEF a
    <3>2. image(s) \in SUBSET Owners /\ mem[a].owner \in image(s)
      BY <1>1, <3>1
    <3>3. image(s \ {a}) = image(s) \ {mem[a].owner}
      BY <1>2, <3>1
    <3>4. f[image(s)] = Pages[mem[a].owner] + f[image(s \ {a})]
      BY <1>6, <3>2, <3>3 DEF SumLaw
    <3>5. Weight[a] = Pages[mem[a].owner]
      BY <3>1 DEF Weight
    <3>. QED
      BY <3>4, <3>5 DEF a
  <2>. QED
    BY <2>1, <2>2 DEF IsSum
<1>8. LockedPages = f[image(Locked)]
  <2>1. LockedPages = g[Locked]
    <3>. HIDE DEF g
    <3>. QED
      BY <1>3, <1>7, LockedSum
  <2>. QED
    BY <2>1
<1>. DEFINE all == image(Locked) \cup {r}
<1>9. all \in SUBSET Owners /\ r \in all /\ all \ {r} = image(Locked)
  BY <1>1
<1>10. f[all] = Pages[r] + f[image(Locked)]
  BY <1>6, <1>9 DEF SumLaw
<1>11. f[all] <= f[Owners] /\ f[all] \in Nat /\ f[Owners] \in Nat
       /\ f[image(Locked)] \in Nat
  <2>1. Owners \in SUBSET Owners /\ image(Locked) \in SUBSET Owners
    BY <1>9
  <2>2. f[all] <= f[Owners]
    BY <1>4, <1>5, <1>9, <2>1, OwnersFinite, SumMonotone
  <2>. QED
    BY <1>6, <1>9, <2>1, <2>2 DEF SumLaw
<1>12. f[Owners] <= Required /\ Required \in Nat
  <2>1. MapThenSumSet(LAMBDA x : Pages[x], Owners) = f[Owners]
    BY <1>4, <1>5, OwnersFinite, SumOfSet
  <2>. QED
    BY <2>1, MemoryAssumption
<1>13. Pages[r] \in Nat
  BY <1>4
<1>. HIDE DEF all, image
<1>. QED
  BY <1>8, <1>10, <1>11, <1>12, <1>13

\* mlock is not refused where the allowance has been seen to.
LEMMA NotRefused ==
    ASSUME MemoryInv, ~refused, [Next]_vars
    PROVE  ~refused'
<1>1. CASE Lock
  <2>. DEFINE r == Head(plan)[2]
  <2>1. Step("lock") /\ UNCHANGED <<soft>>
    BY <1>1 DEF Lock
  <2>2. PICK x \in Holdings, y \in Holdings, H \in SUBSET {"key"} :
          Matches(x) /\ Does(Head(plan), x, y)
    BY <2>1, StepInOrder
  <2>3. Head(plan) = <<"lock", r>> /\ r \in Owners /\ plan # <<>>
    BY <2>1, StepInOrder
  <2>4. /\ mem[Top].owner = r /\ mem[Top].state = "mapped" /\ Top \in InUse
    BY <2>2, <2>3, TopInUse DEF Does, Matches, Owners, MemoryInv
  <2>5. \A s \in Locked : mem[s].owner # r
    BY <2>4 DEF Locked, InUse, MemoryInv, MemInv
  <2>6. /\ LockedPages + Pages[r] <= Required
        /\ LockedPages \in Nat /\ Pages[r] \in Nat
    BY <2>3, <2>5, LockedFits DEF MemoryInv
  <2>7. Sufficient(soft) /\ soft \in Nat \cup {Unlimited}
    BY <2>3 DEF MemoryInv, LimitInv
  <2>8. soft = Unlimited \/ LockedPages + Pages[r] <= soft
    <3>1. CASE soft = Unlimited
      BY <3>1
    <3>2. CASE soft # Unlimited
      <4>1. soft \in Nat /\ Required \in Nat /\ Required <= soft
        BY <2>7, <3>2, MemoryAssumption DEF Sufficient
      <4>. QED
        BY <2>6, <4>1
    <3>. QED
      BY <3>1, <3>2
  <2>. QED
    BY <1>1, <2>8 DEF Lock
<1>2. CASE Next /\ ~Lock
  BY <1>2 DEF Next, BeginUnlock, BeginInit, Prepare, BeginWithKey, Map,
              Protect, Write, Fail, DropOwner, DropSlot, Unwind, Report
<1>3. CASE UNCHANGED vars
  BY <1>3 DEF vars
<1>. QED
  BY <1>1, <1>2, <1>3

-----------------------------------------------------------------------------
(* The theorems.                                                           *)

\* In the beginning nothing is mapped.
LEMMA InitMemory ==
    ASSUME Init
    PROVE  MemoryInv
<1>1. /\ mem = [s \in Slots |-> Free] /\ live = <<>> /\ plan = <<>>
      /\ base = 0 /\ failing = FALSE /\ asked = FALSE
      /\ soft \in Limits /\ hard \in Limits
  BY DEF Init
<1>2. InUse = {} /\ Free \in Regions
  BY <1>1 DEF InUse, Free, Regions
<1>3. MemInv /\ SecretsLocked
  BY <1>1, <1>2 DEF MemInv, SecretsLocked, Free
<1>4. Matches(At({}))
  <2>1. At({}).held = {} /\ At({}).pending = "none" /\ "none" \notin Owners
    BY DEF At, Owners
  <2>. QED
    BY <1>2, <2>1 DEF Matches
<1>5. PlanInv
  <2>1. At({}) \in Holdings
    BY AtType
  <2>2. Leads(<<>>, At({}), At({})) /\ plan \in Seq(Ops)
    BY <1>1, <2>1, LeadsNowhere
  <2>. QED
    BY <1>1, <1>4, <2>1, <2>2 DEF PlanInv
<1>6. BaseInv /\ LimitInv
  BY <1>1, MemoryAssumption DEF BaseInv, LimitInv
<1>. QED
  BY <1>3, <1>5, <1>6 DEF MemoryInv

\* Every step keeps the invariant.
LEMMA NextMemory ==
    ASSUME MemoryInv, [Next]_vars
    PROVE  MemoryInv'
<1>1. CASE BeginUnlock
  BY <1>1, PrepareKeeps, UnlockLeads DEF BeginUnlock
<1>2. CASE BeginInit
  BY <1>2, PrepareKeeps, InitLeads DEF BeginInit
<1>3. CASE BeginWithKey
  BY <1>3, BeginWithKeyKeeps
<1>4. CASE Map
  BY <1>4, MapKeeps
<1>5. CASE Lock
  BY <1>5, LockKeeps
<1>6. CASE Protect
  BY <1>6, ProtectKeeps
<1>7. CASE Write
  BY <1>7, WriteKeeps
<1>8. CASE Fail
  BY <1>8, FailKeeps
<1>9. CASE DropOwner
  BY <1>9, DropOwnerKeeps
<1>10. CASE Unwind
  BY <1>10, UnwindKeeps
<1>11. CASE Report
  BY <1>11, ReportKeeps
<1>12. CASE UNCHANGED vars
  <2>1. UNCHANGED <<soft, hard, mem, live, plan, base, failing, asked>>
    BY <1>12 DEF vars
  <2>. QED
    BY <2>1 DEF MemoryInv, MemInv, PlanInv, BaseInv, LimitInv, SecretsLocked,
                Matches, InUse, Top, Sufficient
<1>. QED
  BY <1>1, <1>2, <1>3, <1>4, <1>5, <1>6, <1>7, <1>8, <1>9, <1>10, <1>11, <1>12
     DEF Next

\* The invariant holds in every state of every behaviour.
THEOREM MemoryInvariant == Spec => []MemoryInv
<1>1. Init => MemoryInv
  BY InitMemory
<1>2. MemoryInv /\ [Next]_vars => MemoryInv'
  BY NextMemory
<1>. QED
  BY <1>1, <1>2, PTL DEF Spec

\* No page ever holds a secret without being locked: LockedRegion::new locks
\* before anything is written, and its Drop erases before it unlocks.
THEOREM SecretsStayLocked == Spec => []SecretsLocked
<1>1. MemoryInv => SecretsLocked
  BY DEF MemoryInv
<1>. QED
  BY <1>1, MemoryInvariant, PTL

\* With the allowance nothing runs into the limit, nobody is asked without
\* it, and between two operations only the session's key is in memory,
\* however the operations before have ended.
THEOREM AllowanceIsEnough == Spec => []AllowanceSuffices
<1>1. Init => MemoryInv /\ ~refused
  BY InitMemory DEF Init
<1>2. MemoryInv /\ ~refused /\ [Next]_vars => (MemoryInv /\ ~refused)'
  BY NextMemory, NotRefused
<1>3. MemoryInv /\ ~refused => AllowanceSuffices
  <2>1. SUFFICES ASSUME MemoryInv, ~refused PROVE AllowanceSuffices
    OBVIOUS
  <2>2. asked => Sufficient(soft)
    BY <2>1 DEF MemoryInv, LimitInv
  <2>3. ASSUME Idle, NEW s \in InUse PROVE mem[s].owner = "key" /\ live = <<s>>
    <3>1. \E i \in 1..Len(live) : live[i] = s
      BY <2>1 DEF MemoryInv, MemInv, InUse
    <3>2. live # <<>> /\ live \in Seq(Slots)
      BY <2>1, <3>1 DEF MemoryInv, MemInv
    <3>3. Len(live) = 1 /\ mem[live[1]].owner = "key"
      BY <2>1, <2>3, <3>2, KeyAlone
    <3>4. live[1] = s
      BY <3>1, <3>3
    <3>. QED
      BY <3>2, <3>3, <3>4
  <2>. QED
    BY <2>1, <2>2, <2>3 DEF AllowanceSuffices
<1>. QED
  BY <1>1, <1>2, <1>3, PTL DEF Spec
=============================================================================
