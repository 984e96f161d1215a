------------------------ MODULE TelegramStore_proofs ------------------------
(***************************************************************************)
(* Proofs about TelegramStore for any files, limits and retries.  The plan *)
(* of a batch is a recursive function of the batch: that it exists, and    *)
(* that it puts every file in one group of one source, is proved by        *)
(* induction from the last file, which here is the fact that a set of      *)
(* numbers has a least one.  The invariant then says of which group every  *)
(* message is, and what an attempt has still to bring of its group.        *)
(***************************************************************************)
EXTENDS TelegramStore, FiniteSetTheorems, WellFoundedInduction, SequenceTheorems, TLAPS

\* A set of numbers has a least one.
LEMMA LeastNat ==
    ASSUME NEW T \in SUBSET Nat, T # {}
    PROVE  \E m \in T : \A k \in T : m <= k
<1> DEFINE Below == {0..k : k \in T}
<1>1. \A k \in T : 0..k \in FiniteSubsetsOf(Nat)
  <2>1. \A k \in T : IsFiniteSet(0..k)
    BY FS_Interval
  <2>2. QED
    BY <2>1 DEF FiniteSubsetsOf
<1>2. Below \subseteq FiniteSubsetsOf(Nat) /\ Below # {}
  BY <1>1
<1>3. PICK b \in Below : \A c \in Below : ~(<<c, b>> \in StrictSubsetOrdering(Nat))
  <2> HIDE DEF Below
  <2>1. IsWellFoundedOn(StrictSubsetOrdering(Nat), FiniteSubsetsOf(Nat))
    BY FS_StrictSubsetOrderingWellFounded
  <2>2. QED
    BY <1>2, <2>1, WFMin
<1>4. PICK m \in T : b = 0..m
  BY <1>3
<1>5. ASSUME NEW k \in T, k < m PROVE FALSE
  <2>1. 0..k \subseteq 0..m /\ m \in 0..m /\ m \notin 0..k
    BY <1>5
  <2>2. <<0..k, 0..m>> \in StrictSubsetOrdering(Nat)
    <3>1. 0..k \in SUBSET Nat /\ 0..m \in SUBSET Nat /\ 0..k # 0..m
      BY <2>1
    <3>2. QED
      BY <2>1, <3>1 DEF StrictSubsetOrdering
  <2>3. QED
    BY <1>3, <1>4, <2>2
<1>6. QED
  BY <1>5

\* Induction from the end, for a set in place of a predicate.
LEMMA FromTheEnd ==
    ASSUME NEW n \in Nat, NEW S, n + 1 \in S,
           \A i \in 1..n : ((i + 1)..(n + 1)) \subseteq S => i \in S
    PROVE  1..(n + 1) \subseteq S
<1> DEFINE T == {d \in 0..n : n + 1 - d \notin S}
<1>1. SUFFICES ASSUME T # {} PROVE FALSE
  <2>1. \A i \in 1..(n + 1) : n + 1 - i \in 0..n /\ n + 1 - (n + 1 - i) = i
    OBVIOUS
  <2>2. QED
    BY <2>1
<1>2. T \in SUBSET Nat
  OBVIOUS
<1>3. PICK d \in T : \A k \in T : d <= k
  BY <1>1, <1>2, LeastNat
<1> DEFINE i == n + 1 - d
<1>4. d \in 0..n /\ i \notin S /\ i \in 1..(n + 1)
  BY <1>3
<1>5. i # n + 1
  BY <1>4
<1>6. ((i + 1)..(n + 1)) \subseteq S
  <2>1. SUFFICES ASSUME NEW j \in (i + 1)..(n + 1), j \notin S PROVE FALSE
    OBVIOUS
  <2>2. n + 1 - j \in 0..n /\ n + 1 - (n + 1 - j) = j /\ n + 1 - j < d
    BY <1>4
  <2>3. QED
    BY <1>3, <2>1, <2>2
<1>7. QED
  BY <1>4, <1>5, <1>6

\* A group before the others.
Prepend(g, groups) == << g >> \o groups

\* A function that is defined from its values further on.
LEMMA BackwardFunction ==
    ASSUME NEW n \in Nat, NEW grp, NEW next, \A i \in 1..n : next[i] \in (i + 1)..(n + 1)
    PROVE  \E f : /\ f[n + 1] = <<>>
                  /\ \A i \in 1..n : f[i] = Prepend(grp[i], f[next[i]])
<1> DEFINE Def(f, k) == f = [i \in k..(n + 1) |-> IF i > n THEN <<>> ELSE Prepend(grp[i], f[next[i]])]
           S == {k \in 1..(n + 1) : \E f : Def(f, k)}
<1>1. n + 1 \in S
  <2> DEFINE g == [i \in (n + 1)..(n + 1) |-> <<>>]
  <2>1. \A i \in (n + 1)..(n + 1) : i > n /\ g[i] = <<>>
    OBVIOUS
  <2>2. g = [i \in (n + 1)..(n + 1) |-> g[i]]
    OBVIOUS
  <2>3. g = [i \in (n + 1)..(n + 1) |-> IF i > n THEN <<>> ELSE Prepend(grp[i], g[next[i]])]
    <3> HIDE DEF g
    <3>1. QED
      BY <2>1, <2>2
  <2>4. Def(g, n + 1)
    BY <2>3
  <2> HIDE DEF g, Def
  <2>5. QED
    BY <2>4
<1>2. ASSUME NEW m \in 1..n, ((m + 1)..(n + 1)) \subseteq S PROVE m \in S
  <2>1. m + 1 \in S
    <3>1. m + 1 \in (m + 1)..(n + 1)
      OBVIOUS
    <3> HIDE DEF S
    <3>2. QED
      BY <1>2, <3>1
  <2>2. PICK f : Def(f, m + 1)
    BY <2>1
  <2> DEFINE g == [i \in m..(n + 1) |-> IF i = m THEN Prepend(grp[m], f[next[m]]) ELSE f[i]]
  <2>3. \A i \in (m + 1)..(n + 1) : g[i] = f[i]
    OBVIOUS
  <2>4. \A i \in m..n : next[i] \in (m + 1)..(n + 1)
    OBVIOUS
  <2>5. \A i \in m..n : g[next[i]] = f[next[i]]
    BY <2>3, <2>4
  <2>6. \A i \in (m + 1)..(n + 1) : f[i] = IF i > n THEN <<>> ELSE Prepend(grp[i], f[next[i]])
    BY <2>2
  <2>7. \A i \in m..(n + 1) : g[i] = IF i > n THEN <<>> ELSE Prepend(grp[i], g[next[i]])
    <3> SUFFICES ASSUME NEW i \in m..(n + 1)
                 PROVE  g[i] = IF i > n THEN <<>> ELSE Prepend(grp[i], g[next[i]])
      OBVIOUS
    <3>1. CASE i = m
      <4>1. g[m] = Prepend(grp[m], f[next[m]]) /\ g[next[m]] = f[next[m]] /\ ~(m > n)
        BY <2>5
      <4>2. QED
        BY <3>1, <4>1
    <3>2. CASE i # m
      <4>1. i \in (m + 1)..(n + 1)
        BY <3>2
      <4>2. i > n \/ i \in m..n
        BY <4>1
      <4> HIDE DEF g
      <4>3. QED
        BY <4>1, <4>2, <2>3, <2>5, <2>6
    <3>3. QED
      BY <3>1, <3>2
  <2>8. Def(g, m)
    <3>1. g = [i \in m..(n + 1) |-> g[i]]
      OBVIOUS
    <3> HIDE DEF g
    <3>2. QED
      BY <2>7, <3>1
  <2> HIDE DEF g, Def
  <2>9. QED
    BY <2>8
<1>3. 1 \in S
  <2> HIDE DEF S
  <2>1. 1..(n + 1) \subseteq S
    BY <1>1, <1>2, FromTheEnd
  <2>2. QED
    BY <2>1
<1>4. PICK f : Def(f, 1)
  BY <1>3
<1>6. \A i \in 1..(n + 1) : f[i] = IF i > n THEN <<>> ELSE Prepend(grp[i], f[next[i]])
  BY <1>4
<1>7. f[n + 1] = <<>> /\ \A i \in 1..n : f[i] = Prepend(grp[i], f[next[i]])
  <2>1. n + 1 \in 1..(n + 1) /\ n + 1 > n /\ \A i \in 1..n : i \in 1..(n + 1) /\ ~(i > n)
    OBVIOUS
  <2>2. QED
    BY <1>6, <2>1
<1>8. QED
  BY <1>7

-----------------------------------------------------------------------------

\* What the plan is made of, for the files that follow i.
Group1(i) == [k \in 1..(End(i) - i) |-> i + k - 1]

\* Where a group ends: it has room for one file, what is in it joins its first,
\* and an album is never longer than allowed.
LEMMA EndIs ==
    ASSUME items \in Seq(Item), NEW i \in 1..Len(items)
    PROVE  /\ End(i) \in (i + 1)..(Len(items) + 1)
           /\ End(i) - i <= MaxAlbumItems
           /\ End(i) = i + 1 \/ ~Alone(i)
           /\ ~Alone(i) => \A k \in (i + 1)..(End(i) - 1) : Joins(i, k)
<1> DEFINE n == Len(items)
<1>1. n \in Nat /\ i \in Nat /\ MaxAlbumItems \in Nat /\ MaxAlbumItems > 1
  BY StoreAssumption
<1>2. CASE Alone(i)
  <2>1. End(i) = i + 1
    BY <1>2 DEF End
  <2>2. QED
    BY <1>1, <1>2, <2>1
<1>3. CASE ~Alone(i)
  <2> DEFINE Stop(e) == e = n + 1 \/ e - i >= MaxAlbumItems \/ ~Joins(i, e)
             Ok(e) == /\ \A k \in (i + 1)..(e - 1) : k - i < MaxAlbumItems /\ Joins(i, k)
                      /\ Stop(e)
             T == {e \in (i + 1)..(n + 1) : Stop(e)}
  <2>1. T \in SUBSET Nat /\ n + 1 \in T
    BY <1>1
  <2>2. PICK e \in T : \A k \in T : e <= k
    <3> HIDE DEF T
    <3>1. QED
      BY <2>1, LeastNat
  <2>3. e \in (i + 1)..(n + 1) /\ Ok(e)
    <3>1. e \in (i + 1)..(n + 1) /\ Stop(e)
      OBVIOUS
    <3>2. ASSUME NEW k \in (i + 1)..(e - 1) PROVE k - i < MaxAlbumItems /\ Joins(i, k)
      <4>1. k \in (i + 1)..(n + 1) /\ ~(e <= k) /\ k # n + 1
        BY <1>1, <3>1
      <4>2. ~Stop(k)
        BY <2>2, <4>1
      <4>3. QED
        BY <1>1, <4>1, <4>2
    <3>3. QED
      BY <3>1, <3>2
  <2>4. End(i) = CHOOSE x \in (i + 1)..(n + 1) : Ok(x)
    BY <1>3 DEF End
  <2> HIDE DEF Ok
  <2>5. End(i) \in (i + 1)..(n + 1) /\ Ok(End(i))
    BY <2>3, <2>4
  <2>6. \A k \in (i + 1)..(End(i) - 1) : k - i < MaxAlbumItems /\ Joins(i, k)
    BY <2>5 DEF Ok
  <2>7. End(i) - i <= MaxAlbumItems
    <3>1. CASE End(i) = i + 1
      BY <1>1, <3>1
    <3>2. CASE End(i) # i + 1
      <4>1. End(i) - 1 \in (i + 1)..(End(i) - 1)
        BY <1>1, <2>5, <3>2
      <4>2. End(i) - 1 - i < MaxAlbumItems
        BY <2>6, <4>1
      <4>3. QED
        BY <1>1, <2>5, <4>2
    <3>3. QED
      BY <3>1, <3>2
  <2>8. QED
    BY <1>3, <2>5, <2>6, <2>7
<1>4. QED
  BY <1>2, <1>3

\* A function that gives the plan of the files from i on exists.
LEMMA PlanFrom ==
    ASSUME items \in Seq(Item)
    PROVE  \E f : /\ f[Len(items) + 1] = <<>>
                  /\ \A i \in 1..Len(items) : f[i] = Prepend(Group1(i), f[End(i)])
<1>1. Len(items) \in Nat
  OBVIOUS
<1>2. PICK group : \A i \in 1..Len(items) : group[i] = Group1(i)
  <2>1. \A i \in 1..Len(items) : [k \in 1..Len(items) |-> Group1(k)][i] = Group1(i)
    OBVIOUS
  <2>2. QED
    BY <2>1
<1>3. PICK end : \A i \in 1..Len(items) : end[i] = End(i)
  <2>1. \A i \in 1..Len(items) : [k \in 1..Len(items) |-> End(k)][i] = End(i)
    OBVIOUS
  <2>2. QED
    BY <2>1
<1>4. \A i \in 1..Len(items) : end[i] \in (i + 1)..(Len(items) + 1)
  BY <1>3, EndIs
<1>5. \E f : /\ f[Len(items) + 1] = <<>>
             /\ \A i \in 1..Len(items) : f[i] = Prepend(group[i], f[end[i]])
  BY <1>1, <1>4, BackwardFunction
<1>6. QED
  BY <1>2, <1>3, <1>5

\* The plan of the files from i on: the group of i, and the plan of what is left.
LEMMA PlanIs ==
    ASSUME items \in Seq(Item)
    PROVE  \E f : /\ PlanMediaGroups = f[1]
                  /\ f[Len(items) + 1] = <<>>
                  /\ \A i \in 1..Len(items) : f[i] = Prepend(Group1(i), f[End(i)])
<1> DEFINE n == Len(items)
           Def(f) == f = [i \in 1..(n + 1) |-> IF i > n THEN <<>> ELSE Prepend(Group1(i), f[End(i)])]
<1>1. n \in Nat
  OBVIOUS
<1>2. \E f : Def(f)
  <2>1. \A i \in 1..n : End(i) \in (i + 1)..(n + 1)
    BY EndIs
  <2>2. PICK f : f[n + 1] = <<>> /\ \A i \in 1..n : f[i] = Prepend(Group1(i), f[End(i)])
    BY PlanFrom
  <2> HIDE DEF n
  <2> DEFINE g == [i \in 1..(n + 1) |-> f[i]]
  <2>4. \A i \in 1..(n + 1) : g[i] = IF i > n THEN <<>> ELSE Prepend(Group1(i), g[End(i)])
    <3>1. \A i \in 1..(n + 1) : IF i > n THEN i = n + 1 ELSE i \in 1..n /\ End(i) \in 1..(n + 1)
      BY <1>1, <2>1
    <3>2. \A i \in 1..(n + 1) : g[i] = f[i]
      OBVIOUS
    <3> HIDE DEF g
    <3>3. QED
      BY <2>2, <3>1, <3>2
  <2>5. Def(g)
    <3>1. g = [i \in 1..(n + 1) |-> g[i]]
      OBVIOUS
    <3> HIDE DEF g
    <3>2. QED
      BY <2>4, <3>1
  <2> HIDE DEF g, Def
  <2>6. QED
    BY <2>5
<1> DEFINE from == CHOOSE f : Def(f)
<1>3. Def(from)
  <2> HIDE DEF Def
  <2>1. QED
    BY <1>2
<1>4. PlanMediaGroups = from[1]
  BY DEF PlanMediaGroups, Group1, Prepend
<1>5. from[n + 1] = <<>> /\ \A i \in 1..n : from[i] = Prepend(Group1(i), from[End(i)])
  <2> HIDE DEF from, n
  <2>1. n + 1 \in 1..(n + 1) /\ n + 1 > n /\ \A i \in 1..n : i \in 1..(n + 1) /\ ~(i > n)
    BY <1>1
  <2>2. QED
    BY <1>3, <2>1
<1> HIDE DEF from
<1>6. QED
  BY <1>4, <1>5

-----------------------------------------------------------------------------

Members(g) == {g[k] : k \in 1..Len(g)}

\* A group of more than one file is an album of one source group in one chat.
OneSource(g) ==
    Len(g) = 1 \/ \A k \in 1..Len(g) :
        /\ AlbumEligible(g[k]) /\ items[g[k]].key # NoKey
        /\ items[g[k]].chat = items[g[1]].chat /\ items[g[k]].key = items[g[1]].key

GoodGroup(g) == g \in Seq(1..Len(items)) /\ Len(g) \in 1..MaxAlbumItems /\ OneSource(g)

\* p plans the files from i on: each of them is in one group, and no other is.
PlansFrom(p, i) ==
    /\ p \in Seq(Seq(1..Len(items)))
    /\ \A g \in 1..Len(p) : GoodGroup(p[g]) /\ \A j \in Members(p[g]) : i <= j
    /\ \A j \in i..Len(items) : \E g \in 1..Len(p) : j \in Members(p[g])
    /\ \A g, h \in 1..Len(p) : g # h => Members(p[g]) \cap Members(p[h]) = {}

LEMMA PrependIs ==
    ASSUME NEW T, NEW x \in T, NEW s \in Seq(T)
    PROVE  /\ Prepend(x, s) \in Seq(T)
           /\ Len(Prepend(x, s)) = Len(s) + 1
           /\ Prepend(x, s)[1] = x
           /\ \A k \in 1..Len(s) : Prepend(x, s)[k + 1] = s[k]
           /\ \A k \in 2..Len(s) + 1 : Prepend(x, s)[k] = s[k - 1]
BY DEF Prepend

\* The group of i is a good one and has the files from i to where it ends.
LEMMA Group1Is ==
    ASSUME items \in Seq(Item), NEW i \in 1..Len(items)
    PROVE  GoodGroup(Group1(i)) /\ Members(Group1(i)) = i..(End(i) - 1)
<1> DEFINE n == Len(items)
           e == End(i)
           g == Group1(i)
<1>1. n \in Nat /\ i \in Nat /\ e \in (i + 1)..(n + 1) /\ e - i <= MaxAlbumItems
      /\ MaxAlbumItems \in Nat
  BY EndIs, StoreAssumption
<1>2. e - i \in 1..MaxAlbumItems
  <2> HIDE DEF e
  <2>1. QED
    BY <1>1
<1>3. g \in Seq(1..n) /\ Len(g) = e - i /\ \A k \in 1..(e - i) : g[k] = i + k - 1 /\ g[k] \in i..(e - 1)
  <2>1. \A k \in 1..(e - i) : i + k - 1 \in i..(e - 1) /\ i + k - 1 \in 1..n
    <3> HIDE DEF e
    <3>1. QED
      BY <1>1
  <2>2. g = [k \in 1..(e - i) |-> i + k - 1]
    BY DEF Group1
  <2> HIDE DEF g, e, n
  <2>3. QED
    BY <1>1, <1>2, <2>1, <2>2
<1>4. Members(g) = i..(e - 1)
  <2>1. \A j \in i..(e - 1) : j - i + 1 \in 1..(e - i) /\ i + (j - i + 1) - 1 = j
    <3> HIDE DEF e
    <3>1. QED
      BY <1>1
  <2> HIDE DEF g, e, n
  <2>2. \A j \in i..(e - 1) : j \in Members(g)
    BY <1>3, <2>1 DEF Members
  <2>3. \A j \in Members(g) : j \in i..(e - 1)
    BY <1>3 DEF Members
  <2>4. QED
    BY <2>2, <2>3
<1>5. OneSource(g)
  <2>1. CASE e = i + 1
    <3>1. Len(g) = 1
      BY <1>1, <1>3, <2>1
    <3>2. QED
      BY <3>1 DEF OneSource
  <2>2. CASE e # i + 1
    <3>1. ~Alone(i) /\ \A k \in (i + 1)..(e - 1) : Joins(i, k)
      BY <2>2, EndIs
    <3>2. \A k \in i..(e - 1) : /\ AlbumEligible(k) /\ items[k].key # NoKey
                                /\ items[k].chat = items[i].chat /\ items[k].key = items[i].key
      <4>1. \A k \in i..(e - 1) : k = i \/ k \in (i + 1)..(e - 1)
        BY <1>1
      <4>2. QED
        BY <3>1, <4>1 DEF Alone, Joins
    <3>3. g[1] = i /\ Len(g) = e - i
      <4> HIDE DEF g, e
      <4>1. QED
        BY <1>1, <1>2, <1>3
    <3> HIDE DEF g, e
    <3>4. QED
      BY <1>3, <3>2, <3>3 DEF OneSource
  <2>3. QED
    BY <2>1, <2>2
<1>6. QED
  BY <1>2, <1>3, <1>4, <1>5 DEF GoodGroup

\* The group of i before a plan of what follows it is a plan from i.
LEMMA PlanStep ==
    ASSUME items \in Seq(Item), NEW i \in 1..Len(items), NEW q, PlansFrom(q, End(i))
    PROVE  PlansFrom(Prepend(Group1(i), q), i)
<1> DEFINE n == Len(items)
           e == End(i)
           g == Group1(i)
           p == Prepend(g, q)
           G == Seq(1..n)
<1>1. n \in Nat /\ i \in Nat /\ e \in (i + 1)..(n + 1)
  BY EndIs
<1>2. GoodGroup(g) /\ Members(g) = i..(e - 1) /\ g \in G
  BY Group1Is DEF GoodGroup
<1>3. /\ q \in Seq(G)
      /\ \A a \in 1..Len(q) : GoodGroup(q[a]) /\ \A j \in Members(q[a]) : e <= j /\ j \in 1..n
      /\ \A j \in e..n : \E a \in 1..Len(q) : j \in Members(q[a])
      /\ \A a, b \in 1..Len(q) : a # b => Members(q[a]) \cap Members(q[b]) = {}
  <2>1. \A a \in 1..Len(q) : GoodGroup(q[a]) => \A j \in Members(q[a]) : j \in 1..n
    BY DEF GoodGroup, Members
  <2>2. QED
    BY <2>1 DEF PlansFrom
<1> HIDE DEF e, g, n, p
<1>4. /\ p \in Seq(G) /\ Len(p) = Len(q) + 1 /\ p[1] = g
      /\ \A a \in 1..Len(q) : p[a + 1] = q[a]
      /\ \A a \in 2..Len(q) + 1 : p[a] = q[a - 1]
  <2>1. g \in G /\ q \in Seq(G)
    BY <1>2, <1>3
  <2> HIDE DEF G
  <2>2. p \in Seq(G) /\ Len(p) = Len(q) + 1
    BY <2>1, PrependIs DEF p
  <2>3. p[1] = g
    BY <2>1, PrependIs DEF p
  <2>4. \A a \in 1..Len(q) : p[a + 1] = q[a]
    BY <2>1, PrependIs DEF p
  <2>5. \A a \in 2..Len(q) + 1 : p[a] = q[a - 1]
    BY <2>1, PrependIs DEF p
  <2>6. QED
    BY <2>2, <2>3, <2>4, <2>5
<1>5. Len(q) \in Nat
  BY <1>3
<1>6. \A a \in 1..Len(p) : a = 1 \/ (a - 1 \in 1..Len(q) /\ p[a] = q[a - 1])
  BY <1>4, <1>5
<1>7. \A a \in 1..Len(p) : GoodGroup(p[a]) /\ \A j \in Members(p[a]) : i <= j
  <2>1. \A j \in Members(g) : i <= j
    BY <1>1, <1>2
  <2>2. \A a \in 1..Len(q) : \A j \in Members(q[a]) : i <= j
    <3>1. \A j \in 1..n : e <= j => i <= j
      BY <1>1
    <3>2. QED
      BY <1>3, <3>1
  <2>3. QED
    BY <1>2, <1>3, <1>4, <1>6, <2>1, <2>2
<1>8. \A j \in i..n : \E a \in 1..Len(p) : j \in Members(p[a])
  <2>1. ASSUME NEW j \in i..n PROVE \E a \in 1..Len(p) : j \in Members(p[a])
    <3>1. CASE j \in i..(e - 1)
      <4>1. 1 \in 1..Len(p)
        BY <1>4, <1>5
      <4>2. QED
        BY <1>2, <1>4, <3>1, <4>1
    <3>2. CASE j \in e..n
      <4>1. PICK a \in 1..Len(q) : j \in Members(q[a])
        BY <1>3, <3>2
      <4>2. a + 1 \in 1..Len(p) /\ p[a + 1] = q[a]
        BY <1>4, <1>5
      <4>3. QED
        BY <4>1, <4>2
    <3>3. QED
      BY <1>1, <3>1, <3>2
  <2>2. QED
    BY <2>1
<1>9. \A a, b \in 1..Len(p) : a # b => Members(p[a]) \cap Members(p[b]) = {}
  <2>1. \A a \in 1..Len(q) : Members(g) \cap Members(q[a]) = {}
    BY <1>1, <1>2, <1>3
  <2>2. SUFFICES ASSUME NEW a \in 1..Len(p), NEW b \in 1..Len(p), a # b
                 PROVE  Members(p[a]) \cap Members(p[b]) = {}
    OBVIOUS
  <2>3. CASE a = 1
    BY <1>4, <1>6, <2>1, <2>2, <2>3
  <2>4. CASE b = 1
    BY <1>4, <1>6, <2>1, <2>2, <2>4
  <2>5. CASE a # 1 /\ b # 1
    <3>1. a - 1 # b - 1
      BY <1>4, <1>5, <2>2
    <3>2. QED
      BY <1>3, <1>6, <2>5, <3>1
  <2>6. QED
    BY <2>3, <2>4, <2>5
<1>10. PlansFrom(p, i)
  BY <1>4, <1>7, <1>8, <1>9 DEF PlansFrom, n, G
<1>11. QED
  BY <1>10 DEF p, g

\* The plan of a batch puts every file in one group, and every group is a file of
\* its own or an album of one source.
LEMMA PlanIsGood ==
    ASSUME items \in Seq(Item)
    PROVE  PlansFrom(PlanMediaGroups, 1)
<1>1. PICK f : /\ PlanMediaGroups = f[1]
               /\ f[Len(items) + 1] = <<>>
               /\ \A i \in 1..Len(items) : f[i] = Prepend(Group1(i), f[End(i)])
  BY PlanIs
<1> DEFINE n == Len(items)
           S == {i \in 1..(n + 1) : PlansFrom(f[i], i)}
<1>2. n \in Nat
  OBVIOUS
<1>3. n + 1 \in S
  <2>1. PlansFrom(<<>>, n + 1)
    <3>1. <<>> \in Seq(Seq(1..n)) /\ Len(<<>>) = 0 /\ 1..0 = {} /\ (n + 1)..n = {}
      BY <1>2
    <3>2. QED
      BY <3>1 DEF PlansFrom
  <2>2. n + 1 \in 1..(n + 1)
    BY <1>2
  <2>3. QED
    BY <1>1, <2>1, <2>2
<1>4. ASSUME NEW i \in 1..n, ((i + 1)..(n + 1)) \subseteq S PROVE i \in S
  <2>1. End(i) \in (i + 1)..(n + 1)
    BY EndIs
  <2>2. PlansFrom(f[End(i)], End(i))
    BY <1>4, <2>1
  <2>3. PlansFrom(f[i], i)
    BY <1>1, <2>2, PlanStep
  <2>4. i \in 1..(n + 1)
    BY <1>2
  <2>5. QED
    BY <2>3, <2>4
<1>5. 1 \in S
  <2> HIDE DEF S, n
  <2>1. 1..(n + 1) \subseteq S
    BY <1>2, <1>3, <1>4, FromTheEnd
  <2>2. QED
    BY <1>2, <2>1
<1>6. QED
  BY <1>1, <1>5

-----------------------------------------------------------------------------
(* The invariant *)

PieceType == [item : 1..Len(items), cut : {"whole", "zip", "video"}, of : Nat \ {0}, part : Nat \ {0}]

Typed ==
    /\ items \in Seq(Item) /\ call \in {"save", "batch"} /\ (call = "save" => Len(items) = 1)
    /\ pc \in {"plan", "try", "upload", "send", "backoff", "done"}
    /\ at \in Nat \ {0} /\ tries \in Nat
    /\ todo \in Seq(PieceType) /\ prepared \in Seq(PieceType) /\ sent \in Seq(Seq(PieceType))
    /\ lost \in BOOLEAN /\ cancelled \in BOOLEAN
    /\ result \in {"none", "ok", "failed", "panic"} /\ (result = "none" <=> pc # "done")

\* Nothing is sent without a plan, and nothing is uploaded between two attempts.
Planned ==
    /\ pc = "plan" => at = 1 /\ sent = <<>>
    /\ pc \in {"plan", "try", "backoff"} => todo = <<>> /\ prepared = <<>>
    /\ pc \in {"try", "upload", "send", "backoff"} => at <= Len(plan)
    /\ pc \in {"try", "upload", "send", "backoff"} \/ result = "ok" \/ sent # <<>> => PlansFrom(plan, 1)
    /\ result = "ok" => at > Len(plan)

OnTheWay == PiecesOf(todo) \cup PiecesOf(prepared)

\* An archive of more parts than an album takes is sent in several.
InSeveral(pieces) == ZipParts > MaxAlbumItems /\ \A p \in pieces : p.cut = "zip"

\* Into how many pieces a file is cut.
Counts == {1, ZipParts} \cup 2..MaxAlbumItems

\* Every part of file i is in S.
Entire(i, S) ==
    \E c \in {"whole", "zip", "video"}, n \in Counts : \A k \in 1..n : Piece(i, c, n, k) \in S

\* What an attempt has uploaded or is going to is of its group, fits in an album
\* if it is not an archive, and is all that Telegram does not have of it.
Attempt ==
    pc \in {"upload", "send"} =>
        /\ pc = "send" <=> todo = <<>>
        /\ \A p \in OnTheWay : p.item \in Members(Group)
        /\ Len(todo) + Len(prepared) <= MaxAlbumItems \/ InSeveral(OnTheWay)
        /\ \A i \in Members(Group) : Entire(i, OnTheWay \cup InTelegram)

\* Every message is of a group that was come to.  One of the group at hand has
\* been sent before only if its answer was lost or more albums follow it.
OfOneGroup ==
    \A m \in 1..Len(sent) :
        /\ Len(sent[m]) <= MaxAlbumItems
        /\ \E g \in 1..Len(plan) :
              /\ g <= at
              /\ \A p \in PiecesOf(sent[m]) : p.item \in Members(plan[g])
              /\ g = at => lost \/ InSeveral(PiecesOf(sent[m]))

\* The groups before the one at hand are in Telegram.
GroupsSaved ==
    \A g \in 1..Len(plan) : g < at =>
        \A i \in Members(plan[g]) : Skipped(i) \/ Entire(i, InTelegram)

IInv == Typed /\ Planned /\ Attempt /\ OfOneGroup /\ GroupsSaved /\ SentTwiceForCause

-----------------------------------------------------------------------------
(* Sequences of pieces *)

LEMMA PiecesOfEmpty == PiecesOf(<<>>) = {}
BY DEF PiecesOf

LEMMA PiecesAppend ==
    ASSUME NEW T, NEW s \in Seq(T), NEW x \in T
    PROVE  PiecesOf(Append(s, x)) = PiecesOf(s) \cup {x}
<1>1. /\ Len(Append(s, x)) = Len(s) + 1 /\ Len(s) \in Nat
      /\ \A k \in 1..Len(s) : Append(s, x)[k] = s[k]
      /\ Append(s, x)[Len(s) + 1] = x
  OBVIOUS
<1>2. \A k \in 1..(Len(s) + 1) : k \in 1..Len(s) \/ k = Len(s) + 1
  BY <1>1
<1>3. Len(s) + 1 \in 1..(Len(s) + 1) /\ \A k \in 1..Len(s) : k \in 1..(Len(s) + 1)
  BY <1>1
<1>4. QED
  BY <1>1, <1>2, <1>3 DEF PiecesOf

LEMMA PiecesTail ==
    ASSUME NEW T, NEW s \in Seq(T), s # <<>>
    PROVE  /\ Head(s) \in T /\ Tail(s) \in Seq(T)
           /\ Len(s) \in Nat /\ Len(Tail(s)) \in Nat /\ Len(s) = Len(Tail(s)) + 1
           /\ PiecesOf(s) = {Head(s)} \cup PiecesOf(Tail(s))
<1>1. /\ Head(s) \in T /\ Tail(s) \in Seq(T) /\ Len(s) \in Nat /\ Len(Tail(s)) \in Nat
      /\ Len(s) = Len(Tail(s)) + 1
      /\ Head(s) = s[1]
      /\ \A k \in 1..Len(Tail(s)) : Tail(s)[k] = s[k + 1]
  OBVIOUS
<1>2. \A k \in 1..Len(s) : k = 1 \/ (k - 1 \in 1..Len(Tail(s)) /\ k - 1 + 1 = k)
  BY <1>1
<1>3. 1 \in 1..Len(s) /\ \A k \in 1..Len(Tail(s)) : k + 1 \in 1..Len(s)
  BY <1>1
<1>4. \A x \in PiecesOf(s) : x = Head(s) \/ x \in PiecesOf(Tail(s))
  <2>1. SUFFICES ASSUME NEW k \in 1..Len(s), k # 1 PROVE s[k] \in PiecesOf(Tail(s))
    BY <1>1 DEF PiecesOf
  <2>2. Tail(s)[k - 1] = s[k] /\ k - 1 \in 1..Len(Tail(s))
    BY <1>1, <1>2, <2>1
  <2>3. QED
    BY <2>2 DEF PiecesOf
<1>5. \A x \in PiecesOf(Tail(s)) : x \in PiecesOf(s)
  BY <1>1, <1>3 DEF PiecesOf
<1>6. Head(s) \in PiecesOf(s)
  BY <1>1, <1>3 DEF PiecesOf
<1>7. QED
  BY <1>1, <1>4, <1>5, <1>6

\* What is sent and what is left of what was uploaded.
LEMMA BatchIs ==
    ASSUME NEW T, prepared \in Seq(T)
    PROVE  /\ Batch \in Seq(T) /\ Remaining \in Seq(T)
           /\ Len(Batch) <= MaxAlbumItems
           /\ Len(Remaining) <= Len(prepared)
           /\ Remaining # <<>> => Len(prepared) > MaxAlbumItems
           /\ PiecesOf(prepared) = PiecesOf(Batch) \cup PiecesOf(Remaining)
<1> DEFINE n == Len(prepared)
           b == LeastOf(MaxAlbumItems, n)
<1>1. n \in Nat /\ MaxAlbumItems \in Nat
  BY StoreAssumption
<1>2. b \in 0..n /\ b <= MaxAlbumItems /\ (b # n => n > MaxAlbumItems)
  BY <1>1 DEF LeastOf
<1> HIDE DEF b
<1>3. /\ Batch \in Seq(T) /\ Len(Batch) = b
      /\ \A k \in 1..b : Batch[k] = prepared[k]
  <2>1. Batch = SubSeq(prepared, 1, b)
    BY DEF Batch, b
  <2>2. QED
    BY <1>1, <1>2, <2>1
<1>4. /\ Remaining \in Seq(T) /\ Len(Remaining) = n - b
      /\ \A k \in 1..(n - b) : Remaining[k] = prepared[b + k]
  <2>1. Remaining = SubSeq(prepared, b + 1, n)
    BY <1>3 DEF Remaining
  <2>2. QED
    BY <1>1, <1>2, <2>1
<1>5. Remaining # <<>> => n - b # 0
  BY <1>4
<1>6. PiecesOf(prepared) = PiecesOf(Batch) \cup PiecesOf(Remaining)
  <2>1. \A k \in 1..n : k \in 1..b \/ (k - b \in 1..(n - b) /\ b + (k - b) = k)
    BY <1>1, <1>2
  <2>2. \A k \in 1..b : k \in 1..n
    BY <1>1, <1>2
  <2>3. \A k \in 1..(n - b) : b + k \in 1..n
    BY <1>1, <1>2
  <2> HIDE DEF n
  <2>4. \A k \in 1..n : prepared[k] \in PiecesOf(Batch) \cup PiecesOf(Remaining)
    BY <1>3, <1>4, <2>1 DEF PiecesOf
  <2>5. \A k \in 1..b : Batch[k] \in PiecesOf(prepared)
    BY <1>3, <2>2 DEF PiecesOf, n
  <2>6. \A k \in 1..(n - b) : Remaining[k] \in PiecesOf(prepared)
    BY <1>4, <2>3 DEF PiecesOf, n
  <2>7. PiecesOf(prepared) \subseteq PiecesOf(Batch) \cup PiecesOf(Remaining)
    BY <2>4 DEF PiecesOf, n
  <2>8. PiecesOf(Batch) \subseteq PiecesOf(prepared)
    BY <1>3, <2>5 DEF PiecesOf
  <2>9. PiecesOf(Remaining) \subseteq PiecesOf(prepared)
    BY <1>4, <2>6 DEF PiecesOf
  <2>10. QED
    BY <2>7, <2>8, <2>9
<1>7. QED
  BY <1>1, <1>2, <1>3, <1>4, <1>5, <1>6

LEMMA TelegramKeeps ==
    ASSUME UNCHANGED sent
    PROVE  InTelegram' = InTelegram
BY DEF InTelegram, Messages, PiecesOf

LEMMA TelegramGets ==
    ASSUME NEW T, sent \in Seq(T), Batch \in T, sent' = Append(sent, Batch)
    PROVE  /\ InTelegram' = InTelegram \cup PiecesOf(Batch)
           /\ Len(sent') = Len(sent) + 1
           /\ \A m \in 1..Len(sent) : sent'[m] = sent[m]
           /\ sent'[Len(sent) + 1] = Batch
<1>1. /\ Len(sent') = Len(sent) + 1 /\ Len(sent) \in Nat
      /\ \A m \in 1..Len(sent) : sent'[m] = sent[m]
      /\ sent'[Len(sent) + 1] = Batch
  OBVIOUS
<1>2. Messages' = Messages \cup {Batch}
  <2>1. \A m \in 1..(Len(sent) + 1) : m \in 1..Len(sent) \/ m = Len(sent) + 1
    BY <1>1
  <2>2. Len(sent) + 1 \in 1..(Len(sent) + 1) /\ \A m \in 1..Len(sent) : m \in 1..(Len(sent) + 1)
    BY <1>1
  <2>3. QED
    BY <1>1, <2>1, <2>2 DEF Messages
<1>3. InTelegram' = UNION {PiecesOf(m) : m \in Messages'}
  BY DEF InTelegram, PiecesOf
<1>4. QED
  BY <1>1, <1>2, <1>3 DEF InTelegram

\* What a plan is does not change with what is sent.
LEMMA PlanKeeps ==
    ASSUME UNCHANGED <<items, plan>>
    PROVE  /\ PlansFrom(plan, 1)' = PlansFrom(plan, 1)
           /\ \A i : Skipped(i)' = Skipped(i)
BY DEF PlansFrom, GoodGroup, OneSource, AlbumEligible, UseSingleSave, Skipped

\* Which files the group at hand has.
LEMMA GroupIs ==
    ASSUME Typed, Planned, pc \in {"try", "upload", "send", "backoff"}
    PROVE  /\ at \in 1..Len(plan) /\ Len(plan) \in Nat /\ PlansFrom(plan, 1)
           /\ Group \in Seq(1..Len(items)) /\ Len(Group) \in 1..MaxAlbumItems
           /\ Members(Group) \subseteq 1..Len(items) /\ First \in Members(Group)
           /\ Len(Group) = 1 => Members(Group) = {First}
<1>1. PlansFrom(plan, 1) /\ at <= Len(plan) /\ at \in Nat \ {0}
  BY DEF Planned, Typed
<1>2. Len(plan) \in Nat /\ at \in 1..Len(plan)
  BY <1>1 DEF PlansFrom
<1>3. Group \in Seq(1..Len(items)) /\ Len(Group) \in 1..MaxAlbumItems
  BY <1>1, <1>2 DEF PlansFrom, GoodGroup, Group
<1>4. 1 \in 1..Len(Group)
  BY <1>3, StoreAssumption
<1>5. Members(Group) \subseteq 1..Len(items) /\ First \in Members(Group)
  BY <1>3, <1>4 DEF Members, First
<1>6. Len(Group) = 1 => Members(Group) = {First}
  BY <1>4 DEF Members, First
<1>7. QED
  BY <1>1, <1>2, <1>3, <1>5, <1>6

\* The pieces a file is cut into.
LEMMA PiecesAre ==
    ASSUME NEW i \in 1..Len(items), NEW c \in {"whole", "zip", "video"}, NEW n \in Counts
    PROVE  /\ n \in Nat \ {0}
           /\ Cut(i, c, n) \in Seq(PieceType) /\ Len(Cut(i, c, n)) = n /\ Cut(i, c, n) # <<>>
           /\ PiecesOf(Cut(i, c, n)) = {Piece(i, c, n, k) : k \in 1..n}
           /\ \A k \in 1..n : Piece(i, c, n, k) \in PieceType
<1>1. n \in Nat \ {0}
  BY StoreAssumption DEF Counts
<1>2. \A k \in 1..n : Piece(i, c, n, k) \in PieceType
  BY <1>1 DEF Piece, PieceType
<1>3. Cut(i, c, n) \in Seq(PieceType) /\ Len(Cut(i, c, n)) = n
  BY <1>1, <1>2 DEF Cut
<1>4. PiecesOf(Cut(i, c, n)) = {Piece(i, c, n, k) : k \in 1..n}
  BY <1>1, <1>3 DEF PiecesOf, Cut
<1>5. QED
  BY <1>1, <1>2, <1>3, <1>4

LEMMA WholeGroup ==
    ASSUME Typed, Planned, pc = "try"
    PROVE  LET s == [k \in 1..Len(Group) |-> Whole(Group[k])]
           IN  /\ s \in Seq(PieceType) /\ Len(s) = Len(Group) /\ s # <<>>
               /\ PiecesOf(s) = {Whole(i) : i \in Members(Group)}
<1> DEFINE s == [k \in 1..Len(Group) |-> Whole(Group[k])]
<1>1. /\ Group \in Seq(1..Len(items)) /\ Len(Group) \in Nat \ {0}
      /\ \A k \in 1..Len(Group) : Group[k] \in 1..Len(items)
  <2>1. Group \in Seq(1..Len(items)) /\ Len(Group) \in 1..MaxAlbumItems /\ MaxAlbumItems \in Nat
    BY GroupIs, StoreAssumption
  <2>2. QED
    BY <2>1
<1>2. \A i \in 1..Len(items) : Whole(i) \in PieceType
  BY DEF Whole, Piece, PieceType
<1>3. \A k \in 1..Len(Group) : s[k] = Whole(Group[k]) /\ s[k] \in PieceType
  BY <1>1, <1>2
<1>4. s \in Seq(PieceType) /\ Len(s) = Len(Group)
  BY <1>1, <1>2
<1>5. PiecesOf(s) = {Whole(i) : i \in Members(Group)}
  <2> HIDE DEF s
  <2>1. QED
    BY <1>3, <1>4 DEF PiecesOf, Members
<1>6. QED
  BY <1>1, <1>4, <1>5

-----------------------------------------------------------------------------
(* The invariant holds at first and is kept *)

LEMMA InitIInv == Init => IInv
<1> SUFFICES ASSUME Init PROVE IInv
  OBVIOUS
<1>1. items \in Seq(Item)
  BY StoreAssumption DEF Init
<1>2. Typed
  <2>1. <<>> \in Seq(PieceType) /\ <<>> \in Seq(Seq(PieceType)) /\ 0 \in Nat /\ 1 \in Nat \ {0}
    OBVIOUS
  <2>2. call \in {"save", "batch"} /\ (call = "save" => Len(items) = 1)
    BY DEF Init
  <2>3. QED
    BY <1>1, <2>1, <2>2 DEF Init, Typed
<1>3. Planned
  BY DEF Init, Planned
<1>4. Attempt
  BY DEF Init, Attempt
<1>5. Len(sent) = 0 /\ 1..0 = {}
  BY DEF Init
<1>6. OfOneGroup /\ SentTwiceForCause
  BY <1>5 DEF OfOneGroup, SentTwiceForCause
<1>7. GroupsSaved
  <2>1. Len(plan) = 0
    BY DEF Init
  <2>2. QED
    BY <1>5, <2>1 DEF GroupsSaved
<1>8. QED
  BY <1>2, <1>3, <1>4, <1>6, <1>7 DEF IInv

\* A step that neither sends nor leaves the group keeps what is said of the messages.
LEMMA HistoryKeeps ==
    ASSUME IInv, UNCHANGED <<items, plan, at, sent>>, lost => lost'
    PROVE  OfOneGroup' /\ GroupsSaved' /\ SentTwiceForCause'
<1>1. InTelegram' = InTelegram /\ \A i : Skipped(i)' = Skipped(i)
  BY TelegramKeeps DEF Skipped
<1>2. OfOneGroup'
  <2>1. OfOneGroup
    BY DEF IInv
  <2>2. sent' = sent /\ plan' = plan /\ at' = at
    OBVIOUS
  <2>3. ASSUME NEW m \in 1..Len(sent)
        PROVE  /\ Len(sent[m]) <= MaxAlbumItems
               /\ \E g \in 1..Len(plan) : /\ g <= at
                                          /\ \A p \in PiecesOf(sent[m]) : p.item \in Members(plan[g])
                                          /\ g = at => lost' \/ InSeveral(PiecesOf(sent[m]))
    BY <2>1 DEF OfOneGroup
  <2>4. QED
    BY <2>2, <2>3 DEF OfOneGroup
<1>3. GroupsSaved'
  <2>1. GroupsSaved
    BY DEF IInv
  <2>2. QED
    BY <1>1, <2>1 DEF GroupsSaved, Entire, Members
<1>4. SentTwiceForCause'
  <2>1. SentTwiceForCause
    BY DEF IInv
  <2>2. QED
    BY <2>1 DEF SentTwiceForCause, PiecesOf
<1>5. QED
  BY <1>2, <1>3, <1>4

LEMMA EmptyPlan ==
    ASSUME items = <<>>, NEW p, PlansFrom(p, 1)
    PROVE  Len(p) = 0
<1>1. p \in Seq(Seq(1..0)) /\ \A g \in 1..Len(p) : GoodGroup(p[g])
  BY DEF PlansFrom
<1>2. \A g \in 1..Len(p) : p[g] \in Seq({}) /\ Len(p[g]) # 0
  <2>1. MaxAlbumItems \in Nat /\ 1..0 = {}
    BY StoreAssumption
  <2>2. \A g \in 1..Len(p) : p[g] \in Seq(1..0) /\ Len(p[g]) \in 1..MaxAlbumItems
    BY <1>1 DEF GoodGroup
  <2>3. QED
    BY <2>1, <2>2
<1>3. \A s \in Seq({}) : Len(s) = 0
  OBVIOUS
<1>4. Len(p) \in Nat /\ ~(1 \in 1..Len(p))
  BY <1>1, <1>2, <1>3
<1>5. QED
  BY <1>4

LEMMA SinglePlan ==
    ASSUME Len(items) = 1
    PROVE  PlansFrom(<< <<1>> >>, 1)
<1> DEFINE p == << <<1>> >>
<1>1. 1..1 = {1} /\ 1 \in 1..MaxAlbumItems
  BY StoreAssumption
<1>2. p \in Seq(Seq(1..Len(items))) /\ Len(p) = 1 /\ p[1] = <<1>> /\ Len(p[1]) = 1
  BY <1>1
<1>3. Members(p[1]) = {1}
  BY <1>1, <1>2 DEF Members
<1>4. GoodGroup(p[1])
  BY <1>1, <1>2 DEF GoodGroup, OneSource
<1> HIDE DEF p
<1>5. PlansFrom(p, 1)
  BY <1>1, <1>2, <1>3, <1>4 DEF PlansFrom
<1>6. QED
  BY <1>5 DEF p

LEMMA PlansKeep ==
    ASSUME UNCHANGED items, PlansFrom(plan', 1)
    PROVE  PlansFrom(plan, 1)'
<1>1. items' = items /\ Len(items') = Len(items)
  OBVIOUS
<1>2. plan' \in Seq(Seq(1..Len(items)))
  BY DEF PlansFrom
<1>3. \A g \in 1..Len(plan') :
         /\ plan'[g] \in Seq(1..Len(items)) /\ Len(plan'[g]) \in 1..MaxAlbumItems
         /\ Len(plan'[g]) = 1 \/ \A k \in 1..Len(plan'[g]) :
               /\ ~(items[plan'[g][k]].size # "fits") /\ items[plan'[g][k]].album
               /\ items[plan'[g][k]].key # NoKey
               /\ items[plan'[g][k]].chat = items[plan'[g][1]].chat
               /\ items[plan'[g][k]].key = items[plan'[g][1]].key
  <2>1. \A g \in 1..Len(plan') : GoodGroup(plan'[g])
    BY DEF PlansFrom
  <2>2. QED
    BY <2>1 DEF GoodGroup, OneSource, AlbumEligible, UseSingleSave
<1>4. \A g \in 1..Len(plan') : \A j \in Members(plan'[g]) : 1 <= j
  BY DEF PlansFrom
<1>5. \A j \in 1..Len(items) : \E g \in 1..Len(plan') : j \in Members(plan'[g])
  BY DEF PlansFrom
<1>6. \A g, h \in 1..Len(plan') : g # h => Members(plan'[g]) \cap Members(plan'[h]) = {}
  BY DEF PlansFrom
<1>7. \A g \in 1..Len(plan') : GoodGroup(plan[g])'
  BY <1>1, <1>3 DEF GoodGroup, OneSource, AlbumEligible, UseSingleSave
<1>8. QED
  BY <1>1, <1>2, <1>4, <1>5, <1>6, <1>7 DEF PlansFrom

LEMMA PlanKeepsInv == IInv /\ Plan => IInv'
<1> SUFFICES ASSUME IInv, Plan PROVE IInv'
  OBVIOUS
<1>1. /\ Typed /\ pc = "plan" /\ at = 1 /\ sent = <<>> /\ todo = <<>> /\ prepared = <<>>
      /\ UNCHANGED <<call, items, at, tries, todo, prepared, sent, lost, cancelled>>
  BY DEF IInv, Planned, Plan, givenVars, attemptVars
<1>2. /\ pc' \in {"try", "done"} /\ result' \in {"none", "ok", "failed"} /\ (result' = "none" <=> pc' # "done")
      /\ pc' = "try" => items # <<>>
      /\ result' = "ok" => items = <<>> /\ call = "batch"
      /\ pc' = "try" \/ result' = "ok" => plan' = IF call = "batch" THEN PlanMediaGroups ELSE << <<1>> >>
  <2>1. call = "save" => items # <<>>
    BY <1>1 DEF Typed
  <2>2. call # "batch" => call = "save"
    BY <1>1 DEF Typed
  <2>3. QED
    BY <2>1, <2>2 DEF Plan, Done
<1>3. Typed'
  <2>1. PieceType' = PieceType
    BY <1>1 DEF PieceType
  <2>2. QED
    BY <1>1, <1>2, <2>1 DEF Typed
<1>4. pc' = "try" \/ result' = "ok" => PlansFrom(plan', 1)
  <2>1. items \in Seq(Item) /\ (call = "save" => Len(items) = 1) /\ (call # "batch" => call = "save")
    BY <1>1 DEF Typed
  <2>2. call = "batch" => PlansFrom(PlanMediaGroups, 1)
    BY <2>1, PlanIsGood
  <2>3. call # "batch" => PlansFrom(<< <<1>> >>, 1)
    BY <2>1, SinglePlan
  <2> HIDE DEF PlanMediaGroups, PlansFrom
  <2>4. QED
    BY <1>2, <2>2, <2>3
<1>5. (pc' = "try" \/ result' = "ok" => PlansFrom(plan, 1)')
  BY <1>1, <1>4, PlansKeep
<1>6. pc' = "try" => 1 <= Len(plan')
  <2>1. ASSUME pc' = "try" PROVE 1 <= Len(plan')
    <3>1. items \in Seq(Item) /\ items # <<>> /\ Len(items) \in Nat
      BY <1>1, <1>2, <2>1 DEF Typed
    <3>2. 1 \in 1..Len(items)
      BY <3>1
    <3>3. PICK g \in 1..Len(plan') : 1 \in Members(plan'[g])
      BY <1>4, <2>1, <3>2 DEF PlansFrom
    <3>4. Len(plan') \in Nat
      BY <1>4, <2>1 DEF PlansFrom
    <3>5. QED
      BY <3>3, <3>4
  <2>2. QED
    BY <2>1
<1>7. result' = "ok" => 1 > Len(plan')
  BY <1>2, <1>4, EmptyPlan
<1>8. Planned'
  BY <1>1, <1>2, <1>5, <1>6, <1>7 DEF Planned
<1>9. Attempt'
  BY <1>2 DEF Attempt
<1>10. OfOneGroup' /\ SentTwiceForCause'
  <2>1. Len(sent') = 0 /\ 1..0 = {}
    BY <1>1
  <2>2. QED
    BY <2>1 DEF OfOneGroup, SentTwiceForCause
<1>11. GroupsSaved'
  <2>1. at' = 1 /\ ~\E g \in 1..Len(plan') : g < 1
    BY <1>1
  <2>2. QED
    BY <2>1 DEF GroupsSaved
<1>12. QED
  BY <1>3, <1>8, <1>9, <1>10, <1>11 DEF IInv

\* A step that leaves the plan alone, and ends the call, waits or tries anew.
LEMMA BetweenKeeps ==
    ASSUME IInv, UNCHANGED <<call, items, plan, at, sent>>,
           pc # "plan", lost => lost', lost' \in BOOLEAN, cancelled' \in BOOLEAN, tries' \in Nat,
           \/ /\ pc' = "done" /\ result' \in {"failed", "panic"}
              /\ todo' \in Seq(PieceType) /\ prepared' \in Seq(PieceType)
           \/ /\ pc \in {"try", "upload", "send", "backoff"} /\ pc' \in {"try", "backoff"}
              /\ UNCHANGED result /\ todo' = <<>> /\ prepared' = <<>>
    PROVE  IInv'
<1>1. PieceType' = PieceType /\ PlansFrom(plan, 1)' = PlansFrom(plan, 1)
  BY PlanKeeps DEF PieceType
<1>2. Typed /\ Planned
  BY DEF IInv
<1>3. Typed'
  <2>1. <<>> \in Seq(PieceType)
    OBVIOUS
  <2>2. todo' \in Seq(PieceType) /\ prepared' \in Seq(PieceType)
    BY <2>1
  <2>3. result' \in {"none", "ok", "failed", "panic"} /\ (result' = "none" <=> pc' # "done")
    BY <1>2 DEF Typed
  <2>4. pc' \in {"try", "backoff", "done"}
    OBVIOUS
  <2>5. QED
    BY <1>1, <1>2, <2>2, <2>3, <2>4 DEF Typed
<1>4. Planned'
  <2>1. result' # "ok" /\ pc' \in {"try", "backoff", "done"}
    BY <1>2 DEF Typed
  <2>2. pc' # "done" => pc \in {"try", "upload", "send", "backoff"} /\ todo' = <<>> /\ prepared' = <<>>
    OBVIOUS
  <2>3. QED
    BY <1>1, <1>2, <2>1, <2>2 DEF Planned
<1>5. Attempt'
  BY DEF Attempt
<1>6. OfOneGroup' /\ GroupsSaved' /\ SentTwiceForCause'
  BY HistoryKeeps
<1>7. QED
  BY <1>3, <1>4, <1>5, <1>6 DEF IInv

LEMMA TryAgainKeepsInv == IInv /\ TryAgain => IInv'
<1> SUFFICES ASSUME IInv, TryAgain PROVE IInv'
  OBVIOUS
<1>1. pc = "backoff" /\ todo = <<>> /\ prepared = <<>> /\ lost \in BOOLEAN /\ cancelled \in BOOLEAN /\ tries \in Nat
      /\ UNCHANGED <<call, items, plan, at, tries, todo, prepared, sent, lost, cancelled>>
  BY DEF IInv, Typed, Planned, TryAgain, givenVars, attemptVars
<1>2. (pc' = "try" /\ UNCHANGED result) \/ (pc' = "done" /\ result' = "failed")
  BY DEF TryAgain, Done
<1>3. <<>> \in Seq(PieceType)
  OBVIOUS
<1>4. QED
  BY <1>1, <1>2, <1>3, BetweenKeeps

LEMMA GlobKeepsInv == IInv /\ GlobFindsNone => IInv'
<1> SUFFICES ASSUME IInv, GlobFindsNone PROVE IInv'
  OBVIOUS
<1>1. pc = "upload" /\ pc' = "done" /\ result' = "panic"
      /\ UNCHANGED <<call, items, plan, at, tries, todo, prepared, sent, lost, cancelled>>
  BY DEF GlobFindsNone, Done, givenVars, attemptVars
<1>2. todo \in Seq(PieceType) /\ prepared \in Seq(PieceType) /\ lost \in BOOLEAN /\ cancelled \in BOOLEAN /\ tries \in Nat
  BY DEF IInv, Typed
<1>3. QED
  BY <1>1, <1>2, BetweenKeeps

LEMMA CancelKeepsInv == IInv /\ Cancel => IInv'
<1> SUFFICES ASSUME IInv, Cancel PROVE IInv'
  OBVIOUS
<1>1. cancelled' = TRUE
      /\ UNCHANGED <<call, items, plan, at, pc, tries, todo, prepared, sent, lost, result>>
  BY DEF Cancel, givenVars, attemptVars
<1>2. PieceType' = PieceType /\ PlansFrom(plan, 1)' = PlansFrom(plan, 1) /\ InTelegram' = InTelegram
  BY <1>1, PlanKeeps, TelegramKeeps DEF PieceType
<1>3. Typed'
  BY <1>1, <1>2 DEF IInv, Typed
<1>4. Planned'
  BY <1>1, <1>2 DEF IInv, Planned
<1>5. Attempt'
  <2>1. OnTheWay' = OnTheWay /\ Group' = Group
    BY <1>1 DEF OnTheWay, Group
  <2>2. Attempt
    BY DEF IInv
  <2>3. QED
    BY <1>1, <1>2, <2>1, <2>2 DEF Attempt
<1>6. OfOneGroup' /\ GroupsSaved' /\ SentTwiceForCause'
  BY <1>1, HistoryKeeps
<1>7. QED
  BY <1>3, <1>4, <1>5, <1>6 DEF IInv

\* An attempt that fails before it has sent anything more.
LEMMA AttemptFailsKeepsInv ==
    ASSUME IInv, pc \in {"try", "upload", "send"}, AttemptFails,
           UNCHANGED <<call, items, plan, sent, cancelled>>, UNCHANGED lost
    PROVE  IInv'
<1>1. lost \in BOOLEAN /\ cancelled \in BOOLEAN /\ tries + 1 \in Nat /\ <<>> \in Seq(PieceType)
  BY DEF IInv, Typed
<1>2. /\ todo' = <<>> /\ prepared' = <<>> /\ at' = at /\ tries' = tries + 1
      /\ (pc' = "done" /\ result' = "failed") \/ (pc' = "backoff" /\ UNCHANGED result)
  BY DEF AttemptFails, Done
<1>3. QED
  BY <1>1, <1>2, BetweenKeeps

\* A message is of a group that was come to, and is of the group at hand only for
\* a cause or as one of several.
AboutGroup(message, cause) ==
    /\ Len(message) <= MaxAlbumItems
    /\ \E g \in 1..Len(plan) :
          /\ g <= at
          /\ \A p \in PiecesOf(message) : p.item \in Members(plan[g])
          /\ g = at => cause \/ InSeveral(PiecesOf(message))

\* The next album: it is of the group at hand and repeats nothing without a cause.
LEMMA SendIs ==
    ASSUME IInv, pc = "send", sent' = Append(sent, Batch),
           UNCHANGED <<items, plan>>, lost => lost'
    PROVE  /\ sent' \in Seq(Seq(PieceType))
           /\ InTelegram' = InTelegram \cup PiecesOf(Batch)
           /\ \A m \in 1..Len(sent') : AboutGroup(sent'[m], lost' \/ sent'[m] = Batch)
           /\ SentTwiceForCause'
<1>1. Typed /\ Planned /\ Attempt /\ OfOneGroup /\ SentTwiceForCause
  BY DEF IInv
<1>2. /\ prepared \in Seq(PieceType) /\ sent \in Seq(Seq(PieceType)) /\ Len(sent) \in Nat
      /\ \A p \in OnTheWay : p.item \in Members(Group)
  BY <1>1 DEF Typed, Attempt
<1>3. /\ Batch \in Seq(PieceType) /\ Len(Batch) <= MaxAlbumItems
      /\ PiecesOf(Batch) \subseteq OnTheWay
  BY <1>2, BatchIs DEF OnTheWay
<1>4. /\ InTelegram' = InTelegram \cup PiecesOf(Batch)
      /\ Len(sent') = Len(sent) + 1
      /\ \A m \in 1..Len(sent) : sent'[m] = sent[m]
      /\ sent'[Len(sent) + 1] = Batch
  BY <1>2, <1>3, TelegramGets
<1>5. sent' \in Seq(Seq(PieceType))
  BY <1>2, <1>3
<1>6. \A m \in 1..Len(sent') : m \in 1..Len(sent) \/ m = Len(sent) + 1
  BY <1>2, <1>4
<1>7. at \in 1..Len(plan) /\ Len(plan) \in Nat /\ PlansFrom(plan, 1)
  BY <1>1, GroupIs
<1>8. \A p \in PiecesOf(Batch) : p.item \in Members(plan[at])
  BY <1>2, <1>3 DEF Group
<1>9. \A m \in 1..Len(sent') : AboutGroup(sent'[m], lost' \/ sent'[m] = Batch)
  <2>1. ASSUME NEW m \in 1..Len(sent') PROVE AboutGroup(sent'[m], lost' \/ sent'[m] = Batch)
    <3>1. CASE m = Len(sent) + 1
      <4>1. sent'[m] = Batch /\ at <= at
        BY <1>4, <1>7, <3>1
      <4>2. AboutGroup(Batch, TRUE)
        BY <1>3, <1>7, <1>8, <4>1 DEF AboutGroup
      <4>3. QED
        BY <4>1, <4>2 DEF AboutGroup
    <3>2. CASE m \in 1..Len(sent)
      <4>1. sent'[m] = sent[m]
        BY <1>4, <3>2
      <4>2. PICK g \in 1..Len(plan) : /\ g <= at
                                      /\ \A p \in PiecesOf(sent[m]) : p.item \in Members(plan[g])
                                      /\ g = at => lost \/ InSeveral(PiecesOf(sent[m]))
        BY <1>1, <3>2 DEF OfOneGroup
      <4>3. Len(sent[m]) <= MaxAlbumItems
        BY <1>1, <3>2 DEF OfOneGroup
      <4>4. QED
        BY <4>1, <4>2, <4>3 DEF AboutGroup
    <3>3. QED
      BY <1>6, <3>1, <3>2
  <2>2. QED
    BY <2>1
<1>10. SentTwiceForCause'
  <2>1. ASSUME NEW m \in 1..Len(sent'), NEW k \in 1..Len(sent'), m < k, ~lost',
               NEW p \in PiecesOf(sent'[m]) \cap PiecesOf(sent'[k])
        PROVE  p.cut = "zip" /\ ZipParts > MaxAlbumItems
    <3>1. m \in 1..Len(sent) /\ sent'[m] = sent[m] /\ ~lost
      BY <1>2, <1>4, <2>1
    <3>2. CASE k \in 1..Len(sent)
      BY <1>1, <1>4, <2>1, <3>1, <3>2 DEF SentTwiceForCause
    <3>3. CASE k = Len(sent) + 1
      <4>1. PICK g \in 1..Len(plan) : /\ g <= at
                                      /\ \A x \in PiecesOf(sent[m]) : x.item \in Members(plan[g])
                                      /\ g = at => lost \/ InSeveral(PiecesOf(sent[m]))
        BY <1>1, <3>1 DEF OfOneGroup
      <4>2. p \in PiecesOf(sent[m]) /\ p \in PiecesOf(Batch)
        BY <1>4, <2>1, <3>1, <3>3
      <4>3. p.item \in Members(plan[g]) /\ p.item \in Members(plan[at])
        BY <1>8, <4>1, <4>2
      <4>4. g = at
        BY <1>7, <4>3 DEF PlansFrom
      <4>5. InSeveral(PiecesOf(sent[m]))
        BY <3>1, <4>1, <4>4
      <4>6. QED
        BY <4>2, <4>5 DEF InSeveral
    <3>4. QED
      BY <1>6, <3>2, <3>3
  <2>2. QED
    BY <2>1 DEF SentTwiceForCause
<1>11. QED
  BY <1>4, <1>5, <1>9, <1>10

LEMMA EntireGrows ==
    ASSUME NEW S, NEW R, S \subseteq R, NEW i, Entire(i, S)
    PROVE  Entire(i, R)
BY DEF Entire

\* The group at hand is in Telegram, or skipped.
LEMMA GroupDoneKeepsInv ==
    ASSUME IInv, pc \in {"try", "send"}, GroupDone, UNCHANGED <<call, items, plan, cancelled, lost>>,
           sent' \in Seq(Seq(PieceType)), InTelegram \subseteq InTelegram',
           \A m \in 1..Len(sent') : AboutGroup(sent'[m], TRUE),
           SentTwiceForCause',
           \A i \in Members(Group) : Skipped(i) \/ Entire(i, InTelegram')
    PROVE  IInv'
<1>1. Typed /\ Planned /\ GroupsSaved
  BY DEF IInv
<1>2. at \in 1..Len(plan) /\ Len(plan) \in Nat /\ PlansFrom(plan, 1)
  BY <1>1, GroupIs
<1>3. /\ todo' = <<>> /\ prepared' = <<>> /\ at' = at + 1 /\ tries' = 0
      /\ IF at < Len(plan) THEN pc' = "try" /\ UNCHANGED result ELSE pc' = "done" /\ result' = "ok"
  BY DEF GroupDone, Done
<1>4. PieceType' = PieceType /\ PlansFrom(plan, 1)' /\ \A i : Skipped(i)' = Skipped(i)
  BY <1>2, PlanKeeps DEF PieceType
<1>5. Typed'
  <2>1. <<>> \in Seq(PieceType) /\ at + 1 \in Nat \ {0} /\ 0 \in Nat
    BY <1>2
  <2>2. pc' \in {"try", "done"} /\ result' \in {"none", "ok"} /\ (result' = "none" <=> pc' # "done")
    BY <1>1, <1>3 DEF Typed
  <2>3. QED
    BY <1>1, <1>3, <1>4, <2>1, <2>2 DEF Typed
<1>6. Planned'
  <2>1. pc' = "try" => at + 1 <= Len(plan)
    BY <1>2, <1>3
  <2>2. result' = "ok" => at + 1 > Len(plan)
    <3>1. result # "ok"
      BY <1>1 DEF Typed
    <3>2. QED
      BY <1>2, <1>3, <3>1
  <2>3. QED
    BY <1>3, <1>4, <2>1, <2>2 DEF Planned
<1>7. Attempt'
  BY <1>3 DEF Attempt
<1>8. OfOneGroup'
  <2>1. ASSUME NEW m \in 1..Len(sent')
        PROVE  /\ Len(sent'[m]) <= MaxAlbumItems
               /\ \E g \in 1..Len(plan) : /\ g <= at' /\ g # at'
                                          /\ \A p \in PiecesOf(sent'[m]) : p.item \in Members(plan[g])
    <3>1. \A g \in 1..Len(plan) : g <= at => g <= at' /\ g # at'
      BY <1>2, <1>3
    <3>2. QED
      BY <3>1 DEF AboutGroup
  <2>2. QED
    BY <2>1 DEF OfOneGroup
<1>9. GroupsSaved'
  <2>1. ASSUME NEW g \in 1..Len(plan), g < at', NEW i \in Members(plan[g])
        PROVE  Skipped(i) \/ Entire(i, InTelegram')
    <3>1. g < at \/ g = at
      BY <1>2, <1>3, <2>1
    <3>2. CASE g = at
      BY <2>1, <3>2 DEF Group
    <3>3. CASE g < at
      <4>1. Skipped(i) \/ Entire(i, InTelegram)
        BY <1>1, <2>1, <3>3 DEF GroupsSaved
      <4>2. QED
        BY <4>1, EntireGrows
    <3>4. QED
      BY <3>1, <3>2, <3>3
  <2>2. QED
    BY <1>4, <2>1 DEF GroupsSaved
<1>10. QED
  BY <1>5, <1>6, <1>7, <1>8, <1>9 DEF IInv

LEMMA SendKeepsInv == IInv /\ Send => IInv'
<1> SUFFICES ASSUME IInv, Send PROVE IInv'
  OBVIOUS
<1>1. /\ Typed /\ Planned /\ Attempt /\ GroupsSaved /\ pc = "send" /\ todo = <<>>
      /\ UNCHANGED <<call, items, plan, cancelled>>
  BY DEF IInv, Attempt, Send, givenVars
<1>2. /\ prepared \in Seq(PieceType) /\ todo \in Seq(PieceType) /\ PiecesOf(todo) = {} /\ OnTheWay = PiecesOf(prepared)
      /\ OnTheWay = PiecesOf(Batch) \cup PiecesOf(Remaining)
      /\ \A i \in Members(Group) : Entire(i, OnTheWay \cup InTelegram)
  <2>1. prepared \in Seq(PieceType) /\ todo \in Seq(PieceType) /\ PiecesOf(todo) = {}
    BY <1>1, PiecesOfEmpty DEF Typed
  <2>2. PiecesOf(prepared) = PiecesOf(Batch) \cup PiecesOf(Remaining)
    BY <2>1, BatchIs
  <2>3. QED
    BY <1>1, <2>1, <2>2 DEF OnTheWay, Attempt
<1>3. at \in 1..Len(plan) /\ Len(plan) \in Nat /\ PlansFrom(plan, 1)
  BY <1>1, GroupIs
<1>4. CASE AttemptFails /\ UNCHANGED <<sent, lost>>
  BY <1>1, <1>4, AttemptFailsKeepsInv
<1>5. CASE sent' = Append(sent, Batch) /\ lost' \in BOOLEAN /\ (lost => lost')
  <2>1. /\ sent' \in Seq(Seq(PieceType))
        /\ InTelegram' = InTelegram \cup PiecesOf(Batch)
        /\ \A m \in 1..Len(sent') : AboutGroup(sent'[m], lost' \/ sent'[m] = Batch)
        /\ SentTwiceForCause'
    BY <1>1, <1>5, SendIs
  <2>2. PieceType' = PieceType /\ PlansFrom(plan, 1)' /\ \A i : Skipped(i)' = Skipped(i)
    BY <1>1, <1>3, PlanKeeps DEF PieceType
  <2>3. CASE Sent /\ Remaining = <<>> /\ UNCHANGED lost
    <3>1. GroupDone
      BY <2>3 DEF Sent
    <3>2. OnTheWay \cup InTelegram \subseteq InTelegram'
      BY <1>2, <2>1, <2>3, PiecesOfEmpty
    <3>3. \A i \in Members(Group) : Entire(i, InTelegram')
      BY <1>2, <3>2, EntireGrows
    <3>4. \A m \in 1..Len(sent') : AboutGroup(sent'[m], TRUE)
      BY <2>1 DEF AboutGroup
    <3>5. QED
      BY <1>1, <2>1, <2>3, <3>1, <3>2, <3>3, <3>4, GroupDoneKeepsInv
  <2>4. CASE Sent /\ Remaining # <<>> /\ UNCHANGED lost
    <3>1. prepared' = Remaining /\ UNCHANGED <<todo, at, tries, pc, result>>
      BY <2>4 DEF Sent
    <3>2. /\ Remaining \in Seq(PieceType) /\ Len(Remaining) <= Len(prepared)
          /\ Len(prepared) > MaxAlbumItems
      BY <1>2, <2>4, BatchIs
    <3>3. InSeveral(OnTheWay)
      <4>1. Len(todo) + Len(prepared) <= MaxAlbumItems \/ InSeveral(OnTheWay)
        BY <1>1 DEF Attempt
      <4>2. Len(todo) = 0 /\ Len(prepared) \in Nat /\ MaxAlbumItems \in Nat
        BY <1>1, <1>2, StoreAssumption
      <4>3. QED
        BY <3>2, <4>1, <4>2
    <3>4. OnTheWay' = PiecesOf(Remaining) /\ Group' = Group
      BY <1>1, <1>2, <3>1 DEF OnTheWay, Group
    <3>5. InSeveral(PiecesOf(Batch)) /\ InSeveral(PiecesOf(Remaining))
      BY <1>2, <3>3 DEF InSeveral
    <3>6. Typed'
      BY <1>1, <1>5, <2>1, <2>2, <3>1, <3>2 DEF Typed
    <3>7. Planned'
      BY <1>1, <2>2, <3>1 DEF Planned, Typed
    <3>8. Attempt'
      <4>1. \A p \in PiecesOf(Remaining) : p.item \in Members(Group)
        BY <1>1, <1>2 DEF Attempt
      <4>2. OnTheWay' \cup InTelegram' = OnTheWay \cup InTelegram
        BY <1>2, <2>1, <3>4
      <4>3. QED
        BY <1>1, <1>2, <3>1, <3>4, <3>5, <4>1, <4>2 DEF Attempt
    <3>9. OfOneGroup'
      <4>1. ASSUME NEW m \in 1..Len(sent') PROVE AboutGroup(sent'[m], lost')
        BY <2>1, <3>5 DEF AboutGroup
      <4>2. QED
        BY <1>1, <3>1, <4>1 DEF OfOneGroup, AboutGroup
    <3>10. GroupsSaved'
      <4>1. \A i : Entire(i, InTelegram) => Entire(i, InTelegram')
        BY <2>1, EntireGrows
      <4>2. QED
        BY <1>1, <2>2, <3>1, <4>1 DEF GroupsSaved
    <3>11. QED
      BY <2>1, <3>6, <3>7, <3>8, <3>9, <3>10 DEF IInv
  <2>5. CASE AttemptFails /\ lost' = TRUE
    <3>1. /\ todo' = <<>> /\ prepared' = <<>> /\ at' = at /\ tries' = tries + 1
          /\ (pc' = "done" /\ result' = "failed") \/ (pc' = "backoff" /\ UNCHANGED result)
      BY <2>5 DEF AttemptFails, Done
    <3>2. Typed'
      <4>1. <<>> \in Seq(PieceType) /\ tries + 1 \in Nat
        BY <1>1 DEF Typed
      <4>2. /\ pc' \in {"backoff", "done"} /\ result' \in {"none", "failed"}
            /\ (result' = "none" <=> pc' # "done")
        BY <1>1, <3>1 DEF Typed
      <4>3. QED
        BY <1>1, <1>5, <2>1, <2>2, <3>1, <4>1, <4>2 DEF Typed
    <3>3. Planned'
      <4>1. result' # "ok"
        BY <1>1, <3>1 DEF Typed
      <4>2. QED
        BY <1>1, <1>3, <2>2, <3>1, <4>1 DEF Planned
    <3>4. Attempt'
      BY <3>1 DEF Attempt
    <3>5. OfOneGroup'
      BY <1>1, <2>1, <2>5, <3>1 DEF OfOneGroup, AboutGroup
    <3>6. GroupsSaved'
      <4>1. \A i : Entire(i, InTelegram) => Entire(i, InTelegram')
        BY <2>1, EntireGrows
      <4>2. QED
        BY <1>1, <2>2, <3>1, <4>1 DEF GroupsSaved
    <3>7. QED
      BY <2>1, <3>2, <3>3, <3>4, <3>5, <3>6 DEF IInv
  <2>6. (Sent /\ UNCHANGED lost) \/ (AttemptFails /\ lost' = TRUE) \/ (AttemptFails /\ UNCHANGED <<sent, lost>>)
    BY DEF Send
  <2>7. QED
    BY <1>4, <2>3, <2>4, <2>5, <2>6
<1>6. lost \in BOOLEAN
  BY <1>1 DEF Typed
<1>7. \/ AttemptFails /\ UNCHANGED <<sent, lost>>
      \/ sent' = Append(sent, Batch) /\ (UNCHANGED lost \/ lost' = TRUE)
  <2>1. \/ Sent /\ sent' = Append(sent, Batch) /\ UNCHANGED lost
        \/ AttemptFails /\ UNCHANGED <<sent, lost>>
        \/ AttemptFails /\ sent' = Append(sent, Batch) /\ lost' = TRUE
    BY DEF Send
  <2> HIDE DEF Sent, AttemptFails, Batch
  <2>2. QED
    BY <2>1
<1>8. ASSUME UNCHANGED lost \/ lost' = TRUE PROVE lost' \in BOOLEAN /\ (lost => lost')
  BY <1>6, <1>8
<1>9. QED
  BY <1>4, <1>5, <1>7, <1>8

\* One more file or part is uploaded.
LEMMA UploadKeepsInv == IInv /\ Upload => IInv'
<1> SUFFICES ASSUME IInv, Upload PROVE IInv'
  OBVIOUS
<1>1. /\ Typed /\ Planned /\ Attempt /\ pc = "upload"
      /\ UNCHANGED <<call, items, plan, sent, lost, cancelled>>
  BY DEF IInv, Upload, givenVars
<1>2. CASE AttemptFails
  BY <1>1, <1>2, AttemptFailsKeepsInv
<1>3. CASE /\ todo' = Tail(todo) /\ prepared' = Append(prepared, Head(todo))
           /\ pc' = IF Len(todo) = 1 THEN "send" ELSE "upload"
           /\ UNCHANGED <<at, tries, result>>
  <2>1. todo \in Seq(PieceType) /\ prepared \in Seq(PieceType) /\ todo # <<>>
    BY <1>1 DEF Typed, Attempt
  <2>2. /\ Head(todo) \in PieceType /\ Tail(todo) \in Seq(PieceType)
        /\ Len(todo) \in Nat /\ Len(Tail(todo)) \in Nat /\ Len(todo) = Len(Tail(todo)) + 1
        /\ PiecesOf(todo) = {Head(todo)} \cup PiecesOf(Tail(todo))
    BY <2>1, PiecesTail
  <2>3. /\ Append(prepared, Head(todo)) \in Seq(PieceType) /\ Len(prepared) \in Nat
        /\ Len(Append(prepared, Head(todo))) = Len(prepared) + 1
    BY <2>1, <2>2
  <2>4. PiecesOf(Append(prepared, Head(todo))) = PiecesOf(prepared) \cup {Head(todo)}
    BY <2>1, <2>2, PiecesAppend
  <2>5. OnTheWay' = OnTheWay /\ Group' = Group
    <3>1. OnTheWay' = PiecesOf(Tail(todo)) \cup PiecesOf(Append(prepared, Head(todo)))
      BY <1>3 DEF OnTheWay
    <3>2. QED
      BY <1>1, <1>3, <2>2, <2>4, <3>1 DEF OnTheWay, Group
  <2>6. PieceType' = PieceType /\ PlansFrom(plan, 1)' = PlansFrom(plan, 1) /\ InTelegram' = InTelegram
    BY <1>1, PlanKeeps, TelegramKeeps DEF PieceType
  <2>7. pc' = "send" <=> Tail(todo) = <<>>
    <3>1. Tail(todo) = <<>> <=> Len(Tail(todo)) = 0
      <4>1. PICK s \in Seq(PieceType) : s = Tail(todo)
        BY <2>2
      <4>2. s = <<>> <=> Len(s) = 0
        OBVIOUS
      <4>3. QED
        BY <4>1, <4>2
    <3>2. Len(todo) = 1 <=> Len(Tail(todo)) = 0
      BY <2>2
    <3>3. QED
      BY <1>3, <3>1, <3>2
  <2>8. Typed'
    BY <1>1, <1>3, <2>2, <2>3, <2>6 DEF Typed
  <2>9. Planned'
    <3>1. pc' \in {"upload", "send"} /\ result' # "ok"
      BY <1>1, <1>3 DEF Typed
    <3>2. QED
      BY <1>1, <1>3, <2>6, <3>1 DEF Planned
  <2>10. Attempt'
    <3>1. Len(todo') + Len(prepared') = Len(todo) + Len(prepared)
      BY <1>3, <2>2, <2>3
    <3>2. QED
      BY <1>1, <1>3, <2>5, <2>6, <2>7, <3>1 DEF Attempt, InSeveral
  <2>11. OfOneGroup' /\ GroupsSaved' /\ SentTwiceForCause'
    BY <1>1, <1>3, HistoryKeeps
  <2>12. QED
    BY <2>8, <2>9, <2>10, <2>11 DEF IInv
<1>4. QED
  BY <1>2, <1>3 DEF Upload

\* What is left to upload when an attempt begins.
BeginsWith(s) ==
    /\ todo' = s /\ pc' = "upload" /\ UNCHANGED <<prepared, at, tries, result>>

\* An attempt begins with pieces of the files of the group, all of each.
LEMMA BeginsKeepsInv ==
    ASSUME IInv, pc = "try", UNCHANGED <<call, items, plan, sent, lost, cancelled>>,
           NEW s \in Seq(PieceType), BeginsWith(s), s # <<>>,
           \A p \in PiecesOf(s) : p.item \in Members(Group),
           Len(s) <= MaxAlbumItems \/ InSeveral(PiecesOf(s)),
           \A i \in Members(Group) : Entire(i, PiecesOf(s))
    PROVE  IInv'
<1>1. Typed /\ Planned /\ todo' = s /\ pc' = "upload" /\ UNCHANGED <<prepared, at, tries, result>>
  BY DEF IInv, BeginsWith
<1>2. prepared = <<>> /\ PiecesOf(prepared) = {} /\ Len(prepared) = 0
  BY <1>1, PiecesOfEmpty DEF Planned
<1>3. PieceType' = PieceType /\ PlansFrom(plan, 1)' = PlansFrom(plan, 1)
  BY PlanKeeps DEF PieceType
<1>4. OnTheWay' = PiecesOf(s) /\ Group' = Group /\ Len(todo') + Len(prepared') = Len(s)
  <2>1. Len(s) \in Nat
    OBVIOUS
  <2>2. QED
    BY <1>1, <1>2, <2>1 DEF OnTheWay, Group
<1>5. Typed'
  BY <1>1, <1>3 DEF Typed
<1>6. Planned'
  BY <1>1, <1>3 DEF Planned, Typed
<1>7. Attempt'
  <2>1. \A i \in Members(Group) : Entire(i, OnTheWay' \cup InTelegram')
    BY <1>4, EntireGrows
  <2>2. QED
    BY <1>1, <1>4, <2>1 DEF Attempt
<1>8. OfOneGroup' /\ GroupsSaved' /\ SentTwiceForCause'
  BY <1>1, HistoryKeeps
<1>9. QED
  BY <1>5, <1>6, <1>7, <1>8 DEF IInv

LEMMA BeginKeepsInv == IInv /\ Begin => IInv'
<1> SUFFICES ASSUME IInv, Begin PROVE IInv'
  OBVIOUS
<1>1. /\ Typed /\ Planned /\ OfOneGroup /\ pc = "try" /\ prepared = <<>>
      /\ UNCHANGED <<call, items, plan, sent, lost, cancelled>>
  BY DEF IInv, Planned, Begin, givenVars
<1>2. /\ Group \in Seq(1..Len(items)) /\ Len(Group) \in 1..MaxAlbumItems
      /\ Members(Group) \subseteq 1..Len(items) /\ First \in Members(Group)
      /\ Len(Group) = 1 => Members(Group) = {First}
  BY <1>1, GroupIs
<1>3. CASE Len(Group) = 1 /\ Skipped(First) /\ GroupDone
  <2>1. InTelegram' = InTelegram /\ sent' = sent /\ UNCHANGED lost
    BY <1>1, TelegramKeeps
  <2>2. sent' \in Seq(Seq(PieceType))
    BY <1>1 DEF Typed
  <2>3. \A m \in 1..Len(sent') : AboutGroup(sent'[m], TRUE)
    BY <1>1, <2>1 DEF OfOneGroup, AboutGroup
  <2>4. SentTwiceForCause'
    BY <2>1 DEF IInv, SentTwiceForCause, PiecesOf
  <2>5. \A i \in Members(Group) : Skipped(i) \/ Entire(i, InTelegram')
    BY <1>2, <1>3
  <2>6. InTelegram \subseteq InTelegram'
    BY <2>1
  <2>7. QED
    BY <1>1, <1>3, <2>1, <2>2, <2>3, <2>4, <2>5, <2>6, GroupDoneKeepsInv
<1>4. CASE AttemptFails
  BY <1>1, <1>4, AttemptFailsKeepsInv
<1>5. CASE BeginsWith([k \in 1..Len(Group) |-> Whole(Group[k])])
  <2>1. PICK s : s = [k \in 1..Len(Group) |-> Whole(Group[k])]
    OBVIOUS
  <2>2. /\ s \in Seq(PieceType) /\ Len(s) = Len(Group) /\ s # <<>>
        /\ PiecesOf(s) = {Whole(i) : i \in Members(Group)}
    BY <1>1, <2>1, WholeGroup
  <2>3. Len(s) <= MaxAlbumItems
    BY <1>2, <2>2, StoreAssumption
  <2>4. \A i : Whole(i) = Piece(i, "whole", 1, 1) /\ Whole(i).item = i
    BY DEF Whole, Piece
  <2>5. \A p \in PiecesOf(s) : p.item \in Members(Group)
    BY <2>2, <2>4
  <2>6. \A i \in Members(Group) : Entire(i, PiecesOf(s))
    <3>1. ASSUME NEW i \in Members(Group) PROVE Entire(i, PiecesOf(s))
      <4>1. Piece(i, "whole", 1, 1) \in PiecesOf(s)
        BY <2>2, <2>4
      <4>2. 1 \in Counts /\ \A k \in 1..1 : k = 1
        BY DEF Counts
      <4>3. QED
        BY <4>1, <4>2 DEF Entire
    <3>2. QED
      BY <3>1
  <2>7. BeginsWith(s)
    BY <1>5, <2>1
  <2>8. QED
    BY <1>1, <2>2, <2>3, <2>5, <2>6, <2>7, BeginsKeepsInv
<1>6. ASSUME NEW c \in {"zip", "video"}, NEW n \in Counts, c = "video" => n <= MaxAlbumItems,
             c = "zip" => n = ZipParts,
             Len(Group) = 1, BeginsWith(Cut(First, c, n))
      PROVE  IInv'
  <2>1. First \in 1..Len(items) /\ Members(Group) = {First}
    BY <1>2, <1>6
  <2>2. PICK s : s = Cut(First, c, n)
    OBVIOUS
  <2>3. /\ n \in Nat \ {0}
        /\ s \in Seq(PieceType) /\ Len(s) = n /\ s # <<>>
        /\ PiecesOf(s) = {Piece(First, c, n, k) : k \in 1..n}
    BY <2>1, <2>2, PiecesAre
  <2>4. \A k \in 1..n : Piece(First, c, n, k).item = First /\ Piece(First, c, n, k).cut = c
    BY DEF Piece
  <2>5. \A p \in PiecesOf(s) : p.item \in Members(Group)
    BY <2>1, <2>3, <2>4
  <2>6. Len(s) <= MaxAlbumItems \/ InSeveral(PiecesOf(s))
    <3>1. CASE c = "zip"
      <4>1. \A p \in PiecesOf(s) : p.cut = "zip"
        BY <2>3, <2>4, <3>1
      <4>2. ZipParts <= MaxAlbumItems \/ ZipParts > MaxAlbumItems
        BY StoreAssumption
      <4>3. QED
        BY <1>6, <2>3, <3>1, <4>1, <4>2 DEF InSeveral
    <3>2. QED
      BY <1>6, <2>3, <3>1
  <2>7. \A i \in Members(Group) : Entire(i, PiecesOf(s))
    <3>1. \A k \in 1..n : Piece(First, c, n, k) \in PiecesOf(s)
      BY <2>3
    <3>2. Entire(First, PiecesOf(s))
      BY <3>1 DEF Entire
    <3>3. QED
      BY <2>1, <3>2
  <2>8. BeginsWith(s)
    BY <1>6, <2>2
  <2>9. QED
    BY <1>1, <2>3, <2>5, <2>6, <2>7, <2>8, BeginsKeepsInv
<1>7. \/ Len(Group) = 1 /\ Skipped(First) /\ GroupDone
      \/ AttemptFails
      \/ BeginsWith([k \in 1..Len(Group) |-> Whole(Group[k])])
      \/ Len(Group) = 1 /\ BeginsWith(Cut(First, "zip", ZipParts))
      \/ Len(Group) = 1 /\ \E n \in 2..MaxAlbumItems : BeginsWith(Cut(First, "video", n))
  BY DEF Begin, BeginsWith
<1>8. ZipParts \in Counts /\ \A n \in 2..MaxAlbumItems : n \in Counts /\ n <= MaxAlbumItems
  BY StoreAssumption DEF Counts
<1>9. QED
  BY <1>3, <1>4, <1>5, <1>6, <1>7, <1>8

LEMMA NextKeepsInv == IInv /\ [Next]_vars => IInv'
<1> SUFFICES ASSUME IInv, [Next]_vars PROVE IInv'
  OBVIOUS
<1>1. CASE UNCHANGED vars
  <2>1. /\ UNCHANGED <<call, items, plan, at, pc, tries, todo, prepared, sent, lost, cancelled, result>>
    BY <1>1 DEF vars, givenVars, attemptVars
  <2>2. PieceType' = PieceType /\ PlansFrom(plan, 1)' = PlansFrom(plan, 1) /\ InTelegram' = InTelegram
    BY <2>1, PlanKeeps, TelegramKeeps DEF PieceType
  <2>3. Typed' /\ Planned'
    BY <2>1, <2>2 DEF IInv, Typed, Planned
  <2>4. OnTheWay' = OnTheWay /\ Group' = Group
    BY <2>1 DEF OnTheWay, Group
  <2>5. Attempt'
    BY <2>1, <2>2, <2>4 DEF IInv, Attempt
  <2>6. OfOneGroup' /\ GroupsSaved' /\ SentTwiceForCause'
    BY <2>1, HistoryKeeps
  <2>7. QED
    BY <2>3, <2>5, <2>6 DEF IInv
<1>2. CASE Next
  <2>1. Returned => UNCHANGED vars
    BY DEF Returned
  <2>2. QED
    BY <1>1, <1>2, <2>1, PlanKeepsInv, TryAgainKeepsInv, BeginKeepsInv, GlobKeepsInv, UploadKeepsInv,
       SendKeepsInv, CancelKeepsInv DEF Next
<1>3. QED
  BY <1>1, <1>2

-----------------------------------------------------------------------------
(* What the invariant says *)

\* Files of one group are of one source, or the same.
LEMMA AlbumsOfGroups == IInv => AlbumsAreSourceGroups
<1> SUFFICES ASSUME IInv, NEW message \in Messages
             PROVE  /\ Len(message) <= MaxAlbumItems
                    /\ \A p, q \in PiecesOf(message) :
                          \/ p.item = q.item
                          \/ /\ items[p.item].chat = items[q.item].chat
                             /\ items[p.item].key = items[q.item].key /\ items[p.item].key # NoKey
                             /\ items[p.item].album /\ items[q.item].album
  BY DEF AlbumsAreSourceGroups
<1>1. PICK m \in 1..Len(sent) : message = sent[m]
  BY DEF Messages
<1>2. sent # <<>>
  <2>1. 1..Len(<<>>) = {}
    OBVIOUS
  <2>2. QED
    BY <1>1, <2>1
<1>3. PlansFrom(plan, 1) /\ OfOneGroup
  BY <1>2 DEF IInv, Planned
<1>4. PICK g \in 1..Len(plan) : \A p \in PiecesOf(message) : p.item \in Members(plan[g])
  BY <1>1, <1>3 DEF OfOneGroup
<1>5. GoodGroup(plan[g])
  BY <1>3 DEF PlansFrom
<1>6. Len(message) <= MaxAlbumItems
  BY <1>1, <1>3 DEF OfOneGroup
<1>7. ASSUME NEW p \in PiecesOf(message), NEW q \in PiecesOf(message), p.item # q.item
      PROVE  /\ items[p.item].chat = items[q.item].chat
             /\ items[p.item].key = items[q.item].key /\ items[p.item].key # NoKey
             /\ items[p.item].album /\ items[q.item].album
  <2>1. PICK j \in 1..Len(plan[g]), k \in 1..Len(plan[g]) : p.item = plan[g][j] /\ q.item = plan[g][k]
    BY <1>4, <1>7 DEF Members
  <2>2. Len(plan[g]) # 1
    <3>1. \A x \in 1..1 : x = 1
      OBVIOUS
    <3>2. QED
      BY <1>7, <2>1, <3>1
  <2>3. QED
    BY <1>5, <2>1, <2>2 DEF GoodGroup, OneSource, AlbumEligible
<1>8. QED
  BY <1>6, <1>7

\* A call that has succeeded has saved every group of the plan, and the plan has
\* every file.
LEMMA SavedEntirely == IInv => NilMeansSent
<1> SUFFICES ASSUME IInv, result = "ok", NEW i \in 1..Len(items), ~Skipped(i)
             PROVE  \E p \in InTelegram : p.item = i /\ \A k \in 1..p.of : [p EXCEPT !.part = k] \in InTelegram
  BY DEF NilMeansSent
<1>1. Typed /\ PlansFrom(plan, 1) /\ at > Len(plan) /\ GroupsSaved
  BY DEF IInv, Planned
<1>2. Len(plan) \in Nat /\ at \in Nat
  BY <1>1 DEF PlansFrom, Typed
<1>3. PICK g \in 1..Len(plan) : i \in Members(plan[g])
  BY <1>1 DEF PlansFrom
<1>4. g < at
  BY <1>1, <1>2
<1>5. Entire(i, InTelegram)
  BY <1>1, <1>3, <1>4 DEF GroupsSaved
<1>6. PICK c \in {"whole", "zip", "video"}, n \in Counts :
             \A k \in 1..n : Piece(i, c, n, k) \in InTelegram
  BY <1>5 DEF Entire
<1>7. 1 \in 1..n
  BY StoreAssumption DEF Counts
<1>8. Piece(i, c, n, 1) \in InTelegram
  BY <1>6, <1>7
<1>9. Piece(i, c, n, 1).item = i /\ Piece(i, c, n, 1).of = n
  BY DEF Piece
<1>10. \A k : [Piece(i, c, n, 1) EXCEPT !.part = k] = Piece(i, c, n, k)
  BY DEF Piece
<1>11. QED
  BY <1>6, <1>8, <1>9, <1>10

\* The inductive invariant: what the plan is, what an attempt has on the way, and
\* which group each message is of.
LEMMA Invariant == Spec => []IInv
<1>1. QED
  BY InitIInv, NextKeepsInv, PTL DEF Spec

\* Every variable of a call keeps its type, for any files and any limits: what is
\* uploaded and sent is pieces of the files that were given.
THEOREM TypeCorrect == Spec => []Typed
<1>1. IInv => Typed
  BY DEF IInv
<1>2. QED
  BY <1>1, Invariant, PTL

\* No album, for any batch, has files of two source groups or two chats, because
\* the groups of the plan have not and nothing leaves its group.
THEOREM AlbumsKeepSources == Spec => []AlbumsAreSourceGroups
BY AlbumsOfGroups, Invariant, PTL

\* SaveBatch and Save return nil only with every file in Telegram in all its parts
\* or skipped, because the plan has every file and a group is left only when it is
\* saved.
THEOREM Complete == Spec => []NilMeansSent
BY SavedEntirely, Invariant, PTL

\* What was sent is sent again only for a lost answer or as an archive of several
\* albums, because a message is of one group and groups are begun again alone.
THEOREM NothingRepeated == Spec => []SentTwiceForCause
<1>1. IInv => SentTwiceForCause
  BY DEF IInv
<1>2. QED
  BY <1>1, Invariant, PTL
=============================================================================
