---------------------------- MODULE ModuleWalkProofs ----------------------------
(*****************************************************************************)
(* What the walk answers for, for every crate: however its files declare,    *)
(* include and claim each other, and whatever cannot be read.                *)
(*****************************************************************************)
EXTENDS ModuleWalk, FiniteSetTheorems, WellFoundedInduction, TLAPS

(* Induction over the naturals, in the form of sets: some number is least.   *)
LEMMA LeastNumber ==
  ASSUME NEW T \in SUBSET Nat, T # {}
  PROVE  \E n \in T : \A m \in T : n <= m
<1>1. PICK n \in T : \A m \in T : ~ (<<m, n>> \in OpToRel(<, Nat))
  BY WFMin, NatLessThanWellFounded
<1>2. \A m \in T : ~ (m < n)
  BY <1>1 DEF OpToRel
<1> QED BY <1>2

(* A loop stops at each of its positions, in order and once.                 *)
LEMMA InOrderIs ==
  ASSUME NEW n \in Nat, NEW at \in SUBSET (1..n)
  PROVE  /\ InOrder(at) \in Seq(at) /\ Len(InOrder(at)) \in Nat
         /\ DOMAIN InOrder(at) = 1..Len(InOrder(at))
         /\ \A i, j \in 1..Len(InOrder(at)) : i < j => InOrder(at)[i] < InOrder(at)[j]
         /\ \A k \in at : \E i \in 1..Len(InOrder(at)) : InOrder(at)[i] = k
<1> DEFINE Ordered(s, S) == /\ s \in [1..Cardinality(S) -> S]
                            /\ \A i, j \in DOMAIN s : i < j => s[i] < s[j]
           Short(k) == at \cap (1..k)
           Bad == {k \in 0..n : ~ \E s : Ordered(s, Short(k))}
<1>1. \A k \in 0..n : IsFiniteSet(Short(k)) /\ Cardinality(Short(k)) \in Nat
  <2>1. \A k \in 0..n : IsFiniteSet(1..k)
    BY FS_Interval
  <2> QED BY <2>1, FS_Intersection, FS_CardinalityType
<1>2. 0 \notin Bad
  <2>1. Cardinality(Short(0)) = 0
    <3>1. Short(0) = {}
      OBVIOUS
    <3> QED BY <3>1, FS_EmptySet
  <2>2. [i \in 1..0 |-> 0] \in [1..0 -> Short(0)]
    OBVIOUS
  <2>3. Ordered([i \in 1..0 |-> 0], Short(0))
    BY <2>1, <2>2
  <2> QED BY <2>3
<1>3. ASSUME NEW k \in 1..n, k - 1 \notin Bad PROVE k \notin Bad
  <2>0. k - 1 \in 0..n
    OBVIOUS
  <2>1. PICK s : Ordered(s, Short(k - 1))
    <3> HIDE DEF Short, Ordered
    <3> QED BY <1>3, <2>0
  <2>2. CASE k \notin at
    <3>1. Short(k) = Short(k - 1)
      BY <2>2
    <3> QED BY <2>1, <3>1
  <2>3. CASE k \in at
    <3> DEFINE c == Cardinality(Short(k - 1))
               t == [i \in 1..(c + 1) |-> IF i = c + 1 THEN k ELSE s[i]]
    <3>1. Short(k) = Short(k - 1) \cup {k} /\ k \notin Short(k - 1)
      BY <2>3
    <3>2. c \in Nat /\ Cardinality(Short(k)) = c + 1
      <4>1. IsFiniteSet(Short(k - 1)) /\ c \in Nat
        BY <1>1
      <4> HIDE DEF Short
      <4> QED BY <3>1, <4>1, FS_AddElement
    <3>3. DOMAIN s = 1..c /\ \A i \in 1..c : s[i] \in Short(k - 1)
      BY <2>1
    <3>4. t \in [1..(c + 1) -> Short(k)]
      <4> HIDE DEF Short
      <4> QED BY <3>1, <3>2, <3>3
    <3>5. \A i \in 1..c : s[i] \in Nat /\ s[i] < k
      BY <3>3
    <3>6. \A i, j \in 1..(c + 1) : i < j => t[i] < t[j]
      <4> HIDE DEF Short, c
      <4> QED BY <2>1, <3>2, <3>3, <3>5
    <3>7. Ordered(t, Short(k))
      <4> HIDE DEF Short, c
      <4> QED BY <3>2, <3>4, <3>6
    <3> QED BY <3>7
  <2> QED BY <2>2, <2>3
<1>4. Bad = {}
  <2>1. SUFFICES ASSUME Bad # {} PROVE FALSE
    OBVIOUS
  <2>2. PICK k \in Bad : \A m \in Bad : k <= m
    <3>1. Bad \in SUBSET Nat
      OBVIOUS
    <3> HIDE DEF Bad
    <3> QED BY <2>1, <3>1, LeastNumber
  <2>3. k \in 1..n /\ k - 1 \notin Bad
    <3> HIDE DEF Short, Ordered
    <3> QED BY <1>2, <2>2
  <2> QED BY <1>3, <2>2, <2>3
<1> DEFINE order == InOrder(at)
           c == Cardinality(at)
<1>5. Short(n) = at
  OBVIOUS
<1>6. c \in Nat /\ IsFiniteSet(at)
  BY <1>1, <1>5
<1>7. Ordered(order, at)
  <2>1. \E s : Ordered(s, at)
    <3> HIDE DEF Short, Ordered
    <3> QED BY <1>4, <1>5
  <2> QED BY <2>1 DEF InOrder
<1>8. order \in Seq(at) /\ Len(order) = c
  BY <1>6, <1>7
<1>9. \A i, j \in 1..c : i < j => order[i] < order[j]
  BY <1>7
<1>10. \A k \in at : \E i \in 1..c : order[i] = k
  <2>1. order \in Injection(1..c, at)
    <3>0. order \in [1..c -> at]
      BY <1>7
    <3>1. at \subseteq Nat
      OBVIOUS
    <3> HIDE DEF order, c
    <3>2. ASSUME NEW i \in 1..c, NEW j \in 1..c, order[i] = order[j] PROVE i = j
      <4>1. i < j \/ j < i \/ i = j
        BY <1>6
      <4>2. order[i] \in Nat /\ order[j] \in Nat
        BY <3>0, <3>1
      <4> QED BY <1>9, <3>2, <4>1, <4>2
    <3> QED BY <3>0, <3>2 DEF Injection, IsInjective
  <2>2. IsFiniteSet(1..c) /\ Cardinality(1..c) = c
    BY <1>6, FS_Interval
  <2>3. order \in Surjection(1..c, at)
    BY <1>6, <2>1, <2>2, FS_Injection
  <2> QED BY <2>3 DEF Surjection
<1> QED BY <1>6, <1>7, <1>8, <1>9, <1>10

-------------------------------------------------------------------------------
(* The queues: what a push and a pop leave of them.                          *)
LEMMA ToSetOfConcat ==
  ASSUME NEW S, NEW s \in Seq(S), NEW t \in Seq(S)
  PROVE  /\ s \o t \in Seq(S) /\ Len(s \o t) = Len(s) + Len(t)
         /\ ToSet(s \o t) = ToSet(s) \cup ToSet(t)
         /\ ToSet(s) \subseteq S
<1>1. /\ Len(s) \in Nat /\ Len(t) \in Nat /\ DOMAIN s = 1..Len(s) /\ DOMAIN t = 1..Len(t)
      /\ s \o t \in Seq(S) /\ Len(s \o t) = Len(s) + Len(t)
      /\ \A i \in 1..(Len(s) + Len(t)) :
           (s \o t)[i] = IF i <= Len(s) THEN s[i] ELSE t[i - Len(s)]
  OBVIOUS
<1>2. \A i \in 1..Len(t) : (s \o t)[i + Len(s)] = t[i] /\ i + Len(s) \in 1..(Len(s) + Len(t))
  BY <1>1
<1>3. \A i \in 1..Len(s) : (s \o t)[i] = s[i] /\ i \in 1..(Len(s) + Len(t))
  BY <1>1
<1>4. \A i \in 1..(Len(s) + Len(t)) : i \in 1..Len(s) \/ i - Len(s) \in 1..Len(t)
  BY <1>1
<1>5. DOMAIN (s \o t) = 1..(Len(s) + Len(t))
  BY <1>1
<1>6. ToSet(s \o t) \subseteq ToSet(s) \cup ToSet(t)
  <2>1. SUFFICES ASSUME NEW i \in 1..(Len(s) + Len(t))
                 PROVE  (s \o t)[i] \in ToSet(s) \cup ToSet(t)
    BY <1>5 DEF ToSet
  <2>2. CASE i <= Len(s)
    BY <1>1, <2>2 DEF ToSet
  <2>3. CASE ~ i <= Len(s)
    <3>1. i - Len(s) \in 1..Len(t) /\ (s \o t)[i] = t[i - Len(s)]
      BY <1>1, <2>3
    <3> QED BY <1>1, <3>1 DEF ToSet
  <2> QED BY <2>2, <2>3
<1>7. ToSet(s) \cup ToSet(t) \subseteq ToSet(s \o t)
  <2> DEFINE u == s \o t
  <2>1. \A i \in 1..Len(s) : \E j \in DOMAIN u : s[i] = u[j]
    BY <1>3, <1>5
  <2>2. \A i \in 1..Len(t) : \E j \in DOMAIN u : t[i] = u[j]
    BY <1>2, <1>5
  <2> HIDE DEF u
  <2>3. ToSet(s) \cup ToSet(t) \subseteq ToSet(u)
    BY <1>1, <2>1, <2>2 DEF ToSet
  <2> QED BY <2>3 DEF u
<1> QED BY <1>1, <1>6, <1>7 DEF ToSet

(* One more at the end (Vec::push).                                          *)
LEMMA ToSetOfAppend ==
  ASSUME NEW S, NEW s \in Seq(S), NEW x \in S
  PROVE  /\ Append(s, x) \in Seq(S) /\ Len(Append(s, x)) = Len(s) + 1 /\ Len(s) \in Nat
         /\ \A k \in 1..Len(s) : Append(s, x)[k] = s[k]
         /\ Append(s, x)[Len(s) + 1] = x
         /\ ToSet(Append(s, x)) = ToSet(s) \cup {x}
<1>1. /\ Append(s, x) \in Seq(S) /\ Len(Append(s, x)) = Len(s) + 1 /\ Len(s) \in Nat
      /\ \A k \in 1..Len(s) : Append(s, x)[k] = s[k]
      /\ Append(s, x)[Len(s) + 1] = x
      /\ DOMAIN s = 1..Len(s) /\ DOMAIN Append(s, x) = 1..(Len(s) + 1)
  OBVIOUS
<1>2. \A n \in Nat : 1..(n + 1) = (1..n) \cup {n + 1}
  OBVIOUS
<1>3. 1..(Len(s) + 1) = (1..Len(s)) \cup {Len(s) + 1}
  BY <1>1, <1>2
<1> QED BY <1>1, <1>3 DEF ToSet

(* The last taken (Vec::pop).                                                *)
LEMMA ToSetOfPop ==
  ASSUME NEW S, NEW s \in Seq(S), s # <<>>
  PROVE  /\ Front(s) \in Seq(S) /\ Last(s) \in S
         /\ ToSet(s) = ToSet(Front(s)) \cup {Last(s)}
<1>1. Len(s) \in Nat \ {0} /\ DOMAIN s = 1..Len(s)
  OBVIOUS
<1>2. /\ Front(s) \in Seq(S) /\ Len(Front(s)) = Len(s) - 1
      /\ \A k \in 1..(Len(s) - 1) : Front(s)[k] = s[k]
  BY <1>1 DEF Front
<1>3. DOMAIN Front(s) = 1..(Len(s) - 1)
  BY <1>2
<1>4. Last(s) = s[Len(s)] /\ Last(s) \in S
  BY <1>1 DEF Last
<1>5. \A n \in Nat \ {0} : 1..n = (1..(n - 1)) \cup {n}
  OBVIOUS
<1>6. 1..Len(s) = (1..(Len(s) - 1)) \cup {Len(s)}
  BY <1>1, <1>5
<1> QED BY <1>1, <1>2, <1>3, <1>4, <1>6 DEF ToSet

(* An empty queue holds nothing, and one that holds nothing is empty.        *)
LEMMA ToSetOfNothing ==
  ASSUME NEW S, NEW s \in Seq(S)
  PROVE  ToSet(<<>>) = {} /\ (s = <<>> <=> ToSet(s) = {})
<1>1. s # <<>> => 1 \in DOMAIN s
  OBVIOUS
<1> QED BY <1>1 DEF ToSet

(* A loop over chosen positions collects a value for each of them.           *)
Collects(at, o, g, s) ==
  /\ DOMAIN o = DOMAIN s
  /\ \A i \in DOMAIN s : o[i] \in at /\ s[i] = g[o[i]]
  /\ \A k \in at : \E i \in DOMAIN s : o[i] = k

Values(g, at) == {g[k] : k \in at}

(* Those are the values it holds.                                            *)
LEMMA CollectedInOrder ==
  ASSUME NEW at, NEW o, NEW g, NEW s, Collects(at, o, g, s)
  PROVE  ToSet(s) = Values(g, at)
BY DEF ToSet, Collects, Values

(* It stops at chosen positions only, and at each of them.                   *)
LEMMA StopsAre ==
  ASSUME NEW n \in Nat, NEW at \in SUBSET (1..n)
  PROVE  /\ Len(InOrder(at)) \in Nat /\ DOMAIN InOrder(at) = 1..Len(InOrder(at))
         /\ \A i \in DOMAIN InOrder(at) : InOrder(at)[i] \in at
         /\ \A k \in at : \E i \in DOMAIN InOrder(at) : InOrder(at)[i] = k
<1> DEFINE o == InOrder(at)
<1>1. /\ o \in Seq(at) /\ Len(o) \in Nat /\ DOMAIN o = 1..Len(o)
      /\ \A k \in at : \E i \in 1..Len(o) : o[i] = k
  BY InOrderIs
<1> HIDE DEF o
<1>2. \A i \in 1..Len(o) : o[i] \in at
  <2>1. \A T : \A t \in Seq(T) : \A i \in 1..Len(t) : t[i] \in T
    OBVIOUS
  <2> QED BY <1>1, <2>1
<1>3. \A k \in at : \E i \in DOMAIN o : o[i] = k
  BY <1>1
<1> QED BY <1>1, <1>2, <1>3 DEF o

(* The values of a loop, one for each of its positions.                      *)
LEMMA SequenceOf ==
  ASSUME NEW S, NEW n \in Nat, NEW s, s \in [1..n -> S]
  PROVE  s \in Seq(S) /\ Len(s) = n /\ DOMAIN s = 1..n
OBVIOUS

-------------------------------------------------------------------------------
(* The types of what the walk keeps. *)
Awaited ==
  [file: Files \cup {Missing, Ignored}, isModRoot: BOOLEAN, module: Seq(STRING),
   testOnly: BOOLEAN, depth: 0..MaxIncludeDepth]

Pending ==
  [file: Files, isModRoot: BOOLEAN, module: Seq(STRING), testOnly: BOOLEAN, depth: 0..MaxIncludeDepth]

Invocation == [macro: Macros, probe: BOOLEAN, pending: Awaited]

LoadedFile ==
  [file: Files, isModRoot: BOOLEAN, module: Seq(STRING), testOnly: BOOLEAN,
   testOnlyMods: SUBSET Seq(STRING)]

IsSite(site) ==
  /\ site.isModRoot \in BOOLEAN /\ site.testOnly \in BOOLEAN
  /\ site.module \in Seq(STRING) /\ site.depth \in 0..MaxIncludeDepth

(* A file's items are items, and one that is sound has those of each kind.   *)
LEMMA ItemsAreItems ==
  ASSUME crate \in Crates, NEW f \in Files
  PROVE  /\ crate.items[f] \in Seq(Item) /\ crate.health[f] \in Healths
         /\ Len(crate.items[f]) \in Nat /\ DOMAIN crate.items[f] = 1..Len(crate.items[f])
         /\ \A k \in 1..Len(crate.items[f]) : crate.items[f][k] \in Item
         /\ ToSet(crate.items[f]) \subseteq Item
         /\ \A kinds : ItemsOf(f, kinds) \subseteq Item
<1>1. crate.items[f] \in Seq(Item) /\ crate.health[f] \in Healths
  BY CratesAreTyped DEF Crate
<1>2. \A s \in Seq(Item) : /\ Len(s) \in Nat /\ DOMAIN s = 1..Len(s)
                           /\ \A k \in 1..Len(s) : s[k] \in Item
  OBVIOUS
<1>3. ToSet(crate.items[f]) \subseteq Item
  BY <1>1, <1>2 DEF ToSet
<1> QED BY <1>1, <1>2, <1>3 DEF ItemsOf

(* What an item makes of its site is well typed, its depth too where an      *)
(* `include!` is not too deep (queue_include, src/modtree.rs:1332).          *)
LEMMA FollowingIsTyped ==
  ASSUME NEW i \in Item, NEW site, IsSite(site), i.kind = "include" => site.depth < MaxIncludeDepth
  PROVE  /\ Following(i, site) \in Awaited
         /\ IsOnDisk(i.at[site.isModRoot]) => Following(i, site) \in Pending
<1>1. /\ i.at[site.isModRoot] \in Files \cup {Missing, Ignored}
      /\ i.childRule \in BOOLEAN /\ i.confined \in BOOLEAN
      /\ i.within \in Seq(STRING) /\ i.name \in STRING
  BY DEF Item, IsSite
<1>2. /\ site.module \o i.within \in Seq(STRING)
      /\ site.module \o i.within \o <<i.name>> \in Seq(STRING)
  BY <1>1 DEF IsSite
<1>3. (IF i.kind = "include" THEN site.depth + 1 ELSE site.depth) \in 0..MaxIncludeDepth
  BY DepthIsANumber DEF IsSite
<1>4. (site.testOnly \/ i.confined) \in BOOLEAN
  OBVIOUS
<1> QED BY <1>1, <1>2, <1>3, <1>4 DEF Following, Awaited, Pending, IsOnDisk

(* Items read in order are those items read.                                 *)
LEMMA FollowIs ==
  ASSUME crate \in Crates, NEW f \in Files, NEW site, NEW S,
         NEW at \in SUBSET (1..Len(crate.items[f])),
         \A k \in at : Following(crate.items[f][k], site) \in S
  PROVE  /\ Follow(f, site, InOrder(at)) \in Seq(S)
         /\ \A x : x \in ToSet(Follow(f, site, InOrder(at)))
                     <=> \E k \in at : x = Following(crate.items[f][k], site)
<1> DEFINE g == [k \in at |-> Following(crate.items[f][k], site)]
           o == InOrder(at)
           s == Follow(f, site, o)
<1>1. Len(crate.items[f]) \in Nat
  BY ItemsAreItems
<1>2. /\ Len(o) \in Nat /\ DOMAIN o = 1..Len(o)
      /\ \A k \in DOMAIN o : o[k] \in at
      /\ \A k \in at : \E i \in DOMAIN o : o[i] = k
  BY <1>1, StopsAre
<1>3. s \in [1..Len(o) -> S] /\ \A k \in 1..Len(o) : s[k] = g[o[k]]
  <2> HIDE DEF o
  <2> QED BY <1>2 DEF Follow
<1> HIDE DEF s, o
<1>4. s \in Seq(S) /\ DOMAIN s = 1..Len(o)
  BY <1>2, <1>3, SequenceOf
<1>5. \A x : x \in ToSet(s) <=> \E k \in at : x = g[k]
  <2> HIDE DEF g
  <2>1. Collects(at, o, g, s)
    BY <1>2, <1>3, <1>4 DEF Collects
  <2>2. ToSet(s) = Values(g, at)
    BY <2>1, CollectedInOrder
  <2> QED BY <2>2 DEF Values
<1> QED BY <1>4, <1>5 DEF s, o

(* A sound file's `mod`s, read at a site: those whose file is there          *)
(* (collect_mod_decls).                                                      *)
LEMMA ModDeclsAre ==
  ASSUME crate \in Crates, NEW f \in Files, NEW site, IsSite(site), crate.health[f] = "sound"
  PROVE  /\ ModDecls(f, site) \in Seq(Pending)
         /\ \A p : p \in ToSet(ModDecls(f, site)) <=>
              \E i \in ItemsOf(f, Mods) : IsOnDisk(i.at[site.isModRoot]) /\ p = Following(i, site)
<1> DEFINE items == crate.items[f]
           at == {k \in 1..Len(items) : items[k].kind = "mod" /\ IsOnDisk(items[k].at[site.isModRoot])}
<1>1. /\ \A k \in 1..Len(items) : items[k] \in Item
      /\ DOMAIN items = 1..Len(items)
  BY ItemsAreItems
<1>2. \A k \in at : Following(items[k], site) \in Pending
  BY <1>1, FollowingIsTyped
<1>3. ModDecls(f, site) = Follow(f, site, InOrder(at))
  BY DEF ModDecls, Where
<1>4. \A x : (\E k \in at : x = Following(items[k], site)) <=>
               \E i \in ItemsOf(f, Mods) : IsOnDisk(i.at[site.isModRoot]) /\ x = Following(i, site)
  BY <1>1 DEF ItemsOf, Mods, ToSet
<1>5. /\ Follow(f, site, InOrder(at)) \in Seq(Pending)
      /\ \A x : x \in ToSet(Follow(f, site, InOrder(at))) <=> \E k \in at : x = Following(items[k], site)
  <2>1. at \in SUBSET (1..Len(items))
    OBVIOUS
  <2> HIDE DEF at
  <2> QED BY <1>2, <2>1, FollowIs
<1> QED BY <1>3, <1>4, <1>5

(* What waits for the queue to drain: claims whose file is there, and        *)
(* `include!`s not too deep (queue_include, src/modtree.rs:1332).            *)
LEMMA SplicesAre ==
  ASSUME crate \in Crates, NEW f \in Files, NEW site, IsSite(site), crate.health[f] = "sound"
  PROVE  /\ Splices(f, site) \in Seq(Pending)
         /\ \A p : p \in ToSet(Splices(f, site)) <=>
              \E i \in ItemsOf(f, Spliced) :
                /\ IsOnDisk(i.at[site.isModRoot]) /\ (i.kind = "include" => site.depth < MaxIncludeDepth)
                /\ p = Following(i, site)
<1> DEFINE items == crate.items[f]
           Waits(i) == \/ i.kind = "include" /\ site.depth < MaxIncludeDepth
                       \/ i.kind = "claim" /\ IsOnDisk(i.at[site.isModRoot])
           at == {k \in 1..Len(items) : Waits(items[k])}
<1>1. /\ \A k \in 1..Len(items) : items[k] \in Item
      /\ DOMAIN items = 1..Len(items)
  BY ItemsAreItems
<1>2. \A i \in ToSet(items) : i.kind = "include" => IsOnDisk(i.at[site.isModRoot])
  BY IncludesNameAFile DEF IsOnDisk, IsSite
<1>3. \A k \in 1..Len(items) : items[k] \in ToSet(items)
  BY <1>1 DEF ToSet
<1>4. \A k \in at : Following(items[k], site) \in Pending
  BY <1>1, <1>2, <1>3, FollowingIsTyped
<1>5. Splices(f, site) = Follow(f, site, InOrder(at))
  BY DEF Splices, Where
<1>6. \A x : (\E k \in at : x = Following(items[k], site)) <=>
               \E i \in ItemsOf(f, Spliced) :
                 /\ IsOnDisk(i.at[site.isModRoot]) /\ (i.kind = "include" => site.depth < MaxIncludeDepth)
                 /\ x = Following(i, site)
  <2>1. \A k \in 1..Len(items) :
          Waits(items[k]) <=> /\ items[k].kind \in Spliced
                              /\ IsOnDisk(items[k].at[site.isModRoot])
                              /\ items[k].kind = "include" => site.depth < MaxIncludeDepth
    BY <1>2, <1>3 DEF Spliced
  <2>2. \A i : i \in ItemsOf(f, Spliced) <=> \E k \in 1..Len(items) : i = items[k] /\ i.kind \in Spliced
    BY <1>1 DEF ItemsOf, ToSet
  <2> HIDE DEF Waits
  <2> QED BY <2>1, <2>2
<1>7. /\ Follow(f, site, InOrder(at)) \in Seq(Pending)
      /\ \A x : x \in ToSet(Follow(f, site, InOrder(at))) <=> \E k \in at : x = Following(items[k], site)
  <2>1. at \in SUBSET (1..Len(items))
    OBVIOUS
  <2> HIDE DEF at
  <2> QED BY <1>4, <2>1, FollowIs
<1> QED BY <1>5, <1>6, <1>7

(* An invocation, as it is recorded where it is written.                     *)
Call(i, site) ==
  [macro |-> i.macro, probe |-> IsOnDisk(i.at[site.isModRoot]), pending |-> Following(i, site)]

(* A sound file's invocations are recorded, whatever they may come to claim. *)
LEMMA InvokedAre ==
  ASSUME crate \in Crates, NEW f \in Files, NEW site, IsSite(site), crate.health[f] = "sound"
  PROVE  /\ Invoked(f, site) \in Seq(Invocation)
         /\ \A c : c \in ToSet(Invoked(f, site)) <=> \E i \in ItemsOf(f, Emitted) : c = Call(i, site)
<1> DEFINE items == crate.items[f]
           n == Len(items)
           at == {k \in 1..n : items[k].kind = "invoke"}
           o == InOrder(at)
           s == Invoked(f, site)
           g == [k \in at |-> Call(items[k], site)]
<1>1. /\ \A k \in 1..n : items[k] \in Item
      /\ DOMAIN items = 1..n /\ n \in Nat
  BY ItemsAreItems
<1>2. \A k \in at : g[k] \in Invocation
  <2>1. SUFFICES ASSUME NEW k \in at PROVE Call(items[k], site) \in Invocation
    OBVIOUS
  <2>2. items[k] \in Item /\ items[k].kind = "invoke"
    BY <1>1
  <2>3. Following(items[k], site) \in Awaited /\ items[k].macro \in Macros
    BY <2>2, FollowingIsTyped DEF Item
  <2> QED BY <2>3 DEF Call, Invocation, IsOnDisk
<1>3. /\ Len(o) \in Nat /\ DOMAIN o = 1..Len(o)
      /\ \A k \in DOMAIN o : o[k] \in at
      /\ \A k \in at : \E i \in DOMAIN o : o[i] = k
  <2>1. n \in Nat /\ at \in SUBSET (1..n)
    BY <1>1
  <2> HIDE DEF at, n
  <2> QED BY <2>1, StopsAre
<1>4. s = [k \in 1..Len(o) |-> Call(items[o[k]], site)]
  BY DEF Invoked, Where, Call
<1>5. s \in [1..Len(o) -> Invocation] /\ \A k \in 1..Len(o) : s[k] = g[o[k]]
  <2>1. \A k \in at : g[k] = Call(items[k], site)
    OBVIOUS
  <2> HIDE DEF o, s, at, g
  <2> QED BY <1>2, <1>3, <1>4, <2>1
<1>6. s \in Seq(Invocation) /\ \A x : x \in ToSet(s) <=> \E k \in at : x = g[k]
  <2> HIDE DEF o, s, at, g, n, items
  <2>1. s \in Seq(Invocation) /\ DOMAIN s = 1..Len(o)
    BY <1>3, <1>5, SequenceOf
  <2>2. Collects(at, o, g, s)
    BY <1>3, <1>5, <2>1 DEF Collects
  <2>3. ToSet(s) = Values(g, at)
    BY <2>2, CollectedInOrder
  <2> QED BY <2>1, <2>3 DEF Values
<1>7. \A x : (\E k \in at : x = Call(items[k], site)) <=> \E i \in ItemsOf(f, Emitted) : x = Call(i, site)
  BY <1>1 DEF ItemsOf, Emitted, ToSet
<1>8. \A k \in at : g[k] = Call(items[k], site)
  OBVIOUS
<1>9. ASSUME NEW x PROVE x \in ToSet(s) <=> \E i \in ItemsOf(f, Emitted) : x = Call(i, site)
  <2> HIDE DEF s, g, at, items
  <2>1. x \in ToSet(s) <=> \E k \in at : x = g[k]
    BY <1>6
  <2>2. (\E k \in at : x = g[k]) <=> \E k \in at : x = Call(items[k], site)
    BY <1>8
  <2> QED BY <1>7, <2>1, <2>2
<1> QED BY <1>6, <1>9

(* What a site's reading of a file adds to the queue, to what waits and to   *)
(* the invocations: nothing, of a file that does not parse.                  *)
DeclsOf(f, site) ==
  {Following(i, site) : i \in {j \in ItemsOf(f, Mods) : IsOnDisk(j.at[site.isModRoot])}}

SplicesOf(f, site) ==
  {Following(i, site) : i \in {j \in ItemsOf(f, Spliced) :
                                 /\ IsOnDisk(j.at[site.isModRoot])
                                 /\ j.kind = "include" => site.depth < MaxIncludeDepth}}

CallsOf(f, site) == {Call(i, site) : i \in ItemsOf(f, Emitted)}

(* Reading a sound file adds just that.                                      *)
LEMMA ReadingIs ==
  ASSUME crate \in Crates, NEW f \in Files, NEW site, IsSite(site), crate.health[f] = "sound"
  PROVE  /\ ModDecls(f, site) \in Seq(Pending) /\ ToSet(ModDecls(f, site)) = DeclsOf(f, site)
         /\ Splices(f, site) \in Seq(Pending) /\ ToSet(Splices(f, site)) = SplicesOf(f, site)
         /\ Invoked(f, site) \in Seq(Invocation) /\ ToSet(Invoked(f, site)) = CallsOf(f, site)
         /\ Defined(f) = {i.macro : i \in ItemsOf(f, {"define"})}
<1>1. ModDecls(f, site) \in Seq(Pending) /\ ToSet(ModDecls(f, site)) = DeclsOf(f, site)
  BY ModDeclsAre DEF DeclsOf
<1>2. Splices(f, site) \in Seq(Pending) /\ ToSet(Splices(f, site)) = SplicesOf(f, site)
  BY SplicesAre DEF SplicesOf
<1>3. Invoked(f, site) \in Seq(Invocation) /\ ToSet(Invoked(f, site)) = CallsOf(f, site)
  BY InvokedAre DEF CallsOf
<1>4. Defined(f) = {i.macro : i \in ItemsOf(f, {"define"})}
  BY DEF Defined, ItemsOf
<1> QED BY <1>1, <1>2, <1>3, <1>4

(* A file that does not parse adds nothing.                                  *)
LEMMA ReadingNothing ==
  ASSUME NEW f, NEW site, crate.health[f] # "sound"
  PROVE  /\ DeclsOf(f, site) = {} /\ SplicesOf(f, site) = {} /\ CallsOf(f, site) = {}
         /\ {i.macro : i \in ItemsOf(f, {"define"})} = {}
BY DEF DeclsOf, SplicesOf, CallsOf, ItemsOf

(* What is told of a file's items is told once for each.                     *)
Told == Files \X Nat

LEMMA TellIs ==
  ASSUME crate \in Crates, NEW f \in Files, NEW at \in SUBSET (1..Len(crate.items[f]))
  PROVE  LET said == Tell(f, InOrder(at))
         IN  /\ said \in Seq(Told)
             /\ \A j, k \in 1..Len(said) : said[j] = said[k] => j = k
             /\ \A k \in 1..Len(said) : said[k][1] = f
<1> DEFINE o == InOrder(at)
           said == Tell(f, o)
<1>1. Len(crate.items[f]) \in Nat
  BY ItemsAreItems
<1>2. /\ o \in Seq(at) /\ Len(o) \in Nat
      /\ \A i, j \in 1..Len(o) : i < j => o[i] < o[j]
  BY <1>1, InOrderIs
<1>3. at \subseteq Nat
  BY <1>1
<1> HIDE DEF o
<1>4. \A k \in 1..Len(o) : o[k] \in Nat
  <2>1. \A S : \A s \in Seq(S) : \A k \in 1..Len(s) : s[k] \in S
    OBVIOUS
  <2>2. \A k \in 1..Len(o) : o[k] \in at
    BY <1>2, <2>1
  <2> QED BY <1>3, <2>2
<1>5. said \in [1..Len(o) -> Told] /\ \A k \in 1..Len(o) : said[k] = <<f, o[k]>>
  BY <1>4 DEF Tell, Told
<1>6. said \in Seq(Told) /\ Len(said) = Len(o)
  <2>1. \A n \in Nat : \A g \in [1..n -> Told] : g \in Seq(Told) /\ Len(g) = n
    OBVIOUS
  <2> HIDE DEF said
  <2> QED BY <1>2, <1>5, <2>1
<1>7. ASSUME NEW j \in 1..Len(o), NEW k \in 1..Len(o), said[j] = said[k] PROVE j = k
  <2>1. o[j] = o[k] /\ o[j] \in Nat
    BY <1>4, <1>5, <1>7
  <2>2. j < k \/ k < j \/ j = k
    BY <1>2
  <2> QED BY <1>2, <2>1, <2>2
<1>8. \A k \in 1..Len(o) : said[k][1] = f
  BY <1>5
<1> QED
  <2> HIDE DEF said
  <2>1. /\ said \in Seq(Told)
        /\ \A j, k \in 1..Len(said) : said[j] = said[k] => j = k
        /\ \A k \in 1..Len(said) : said[k][1] = f
    BY <1>6, <1>7, <1>8
  <2> QED BY <2>1 DEF said, o

-------------------------------------------------------------------------------
(* What the walk keeps, whatever it has met so far. *)
Types ==
  /\ crate \in Crates
  /\ queue \in Seq(Pending) /\ deferred \in Seq(Pending)
  /\ visited \subseteq Files
  /\ loaded \in Seq(LoadedFile)
  /\ \A j, k \in 1..Len(loaded) : loaded[j].file = loaded[k].file => j = k
  /\ Loaded = {f \in visited : crate.health[f] \in {"sound", "broken"}}
  /\ splicedFrom \in 0..Len(loaded) + 1
  /\ emitting \subseteq Macros
  /\ invocations \in Seq(Invocation)
  /\ \A c \in ToSet(invocations) : c.probe <=> IsOnDisk(c.pending.file)
  /\ done \in BOOLEAN /\ (done => queue = <<>> /\ deferred = <<>>)

Rule(f) == loaded[IndexOf(f)].isModRoot

(* Each file is loaded once, and found where it was loaded.                  *)
Indexed ==
  /\ Loaded \subseteq Files /\ Cleared \subseteq Loaded
  /\ \A k \in 1..Len(loaded) : loaded[k] \in LoadedFile /\ \A f : f = loaded[k].file => IndexOf(f) = k
  /\ \A f : IsSeen(f) <=> f \in Loaded
  /\ \A f \in Loaded : /\ IndexOf(f) \in 1..Len(loaded) /\ loaded[IndexOf(f)].file = f
                       /\ Rule(f) \in BOOLEAN /\ ModuleOf(f) \in Seq(STRING)
                       /\ f \in Cleared <=> ~ loaded[IndexOf(f)].testOnly

(* It is, of what the walk keeps.                                            *)
LEMMA LoadedOnce == ASSUME Types PROVE Indexed
<1>1. \A s \in Seq(LoadedFile) : \A k \in 1..Len(s) : s[k] \in LoadedFile
  OBVIOUS
<1>2. \A k \in 1..Len(loaded) : loaded[k] \in LoadedFile
  BY <1>1 DEF Types
<1>3. \A k \in 1..Len(loaded) : loaded[k].file \in Files
  BY <1>2 DEF LoadedFile
<1>4. \A k \in 1..Len(loaded) : IndexOf(loaded[k].file) = k
  BY DEF Types, IndexOf
<1>5. \A f \in Loaded : IndexOf(f) \in 1..Len(loaded) /\ loaded[IndexOf(f)].file = f
  BY <1>4 DEF Loaded
<1>6. \A f \in Loaded : Rule(f) \in BOOLEAN /\ ModuleOf(f) \in Seq(STRING)
  BY <1>2, <1>5 DEF Rule, ModuleOf, LoadedFile
<1>7. \A f \in Loaded : f \in Cleared <=> ~ loaded[IndexOf(f)].testOnly
  BY <1>4, <1>5 DEF Cleared
<1>8. \A f : IsSeen(f) <=> f \in Loaded
  BY DEF IsSeen, Loaded
<1>9. Cleared \subseteq Loaded
  BY DEF Cleared, Loaded
<1>10. Loaded \subseteq Files
  BY <1>3 DEF Loaded
<1> QED BY <1>2, <1>4, <1>5, <1>6, <1>7, <1>8, <1>9, <1>10 DEF Indexed

(* A file as loaded is a loaded file.                                        *)
LEMMA LoadedAsIs ==
  ASSUME crate \in Crates, NEW f \in Files, NEW site, IsSite(site)
  PROVE  /\ LoadedAs(f, site) \in LoadedFile
         /\ LoadedAs(f, site).file = f /\ LoadedAs(f, site).isModRoot = site.isModRoot
         /\ LoadedAs(f, site).module = site.module /\ LoadedAs(f, site).testOnly = site.testOnly
<1>1. \A i \in ToSet(crate.items[f]) : site.module \o i.within \o <<i.name>> \in Seq(STRING)
  <2>1. \A i \in Item : i.within \in Seq(STRING) /\ i.name \in STRING
    BY DEF Item
  <2>2. \A s, t \in Seq(STRING) : \A n \in STRING : s \o t \o <<n>> \in Seq(STRING)
    <3>1. ASSUME NEW S, NEW s \in Seq(S), NEW t \in Seq(S), NEW n \in S PROVE s \o t \o <<n>> \in Seq(S)
      OBVIOUS
    <3> QED BY <3>1
  <2> QED BY <2>1, <2>2, ItemsAreItems DEF IsSite
<1>2. ConfinedInlineMods(f, site) \in SUBSET Seq(STRING)
  BY <1>1 DEF ConfinedInlineMods
<1>3. (IF crate.health[f] = "sound" THEN ConfinedInlineMods(f, site) ELSE {}) \in SUBSET Seq(STRING)
  BY <1>2
<1> HIDE DEF ConfinedInlineMods
<1> QED BY <1>3 DEF LoadedAs, LoadedFile, IsSite

-------------------------------------------------------------------------------
(* A step of the walk, by what it does to the sets of what waits.            *)
(* A file popped from the queue: what it leads to is read, or nothing is.    *)
Remembers(p) ==
  remounted' = remounted \cup
    (IF p.file \in Loaded /\ splicedFrom = 0 /\ p.module # ModuleOf(p.file) /\ ModuleOf(p.file) # <<>>
     THEN {<<ModuleOf(p.file), p.module>>} ELSE {})

Pops(p, rest) ==
  /\ crate' = crate /\ splicedFrom' = splicedFrom /\ done' = done
  /\ ToSet(queue) = rest \cup {p}
  /\ visited' = visited \cup {p.file}
  /\ Remembers(p)

Drops(p, rest) ==
  /\ Pops(p, rest)
  /\ UNCHANGED <<deferred, loaded, emitting, invocations>>
  /\ ToSet(queue') = rest
  /\ crate.health[p.file] \notin {"sound", "broken"} \/ (p.file \in Loaded /\ (p.testOnly \/ p.file \in Cleared))

(* What changes of `loaded`: a new file, or one as it is without its flag.   *)
Enters(f, site) ==
  IF f \in Loaded
  THEN loaded' = [loaded EXCEPT ![IndexOf(f)] = LoadedAs(f, site)]
  ELSE loaded' = Append(loaded, LoadedAs(f, site))

Reads(p, rest, site) ==
  /\ Pops(p, rest)
  /\ IsSite(site) /\ site.depth = p.depth /\ site.testOnly = p.testOnly
  /\ ToSet(queue') = rest \cup DeclsOf(p.file, site)
  /\ ToSet(deferred') = ToSet(deferred) \cup SplicesOf(p.file, site)
  /\ crate.health[p.file] \in {"sound", "broken"}
  /\ Enters(p.file, site)
  /\ IF p.file \in Loaded
     THEN /\ ~ p.testOnly /\ p.file \notin Cleared
          /\ site.isModRoot = Rule(p.file) /\ site.module = ModuleOf(p.file)
          /\ UNCHANGED <<emitting, invocations>>
     ELSE /\ p.file \notin visited
          /\ site.isModRoot = p.isModRoot /\ site.module = p.module
          /\ ToSet(invocations') = ToSet(invocations) \cup CallsOf(p.file, site)
          /\ emitting' = emitting \cup {i.macro : i \in ItemsOf(p.file, {"define"})}

(* The queue drained, what waits taken up.                                   *)
Settles ==
  /\ UNCHANGED <<crate, visited, loaded, emitting, remounted>>
  /\ ~ done /\ queue = <<>> /\ deferred' = <<>>
  /\ splicedFrom' = IF splicedFrom = 0 THEN Len(loaded) + 1 ELSE splicedFrom
  /\ ToSet(queue') = ToSet(deferred) \cup
       {c.pending : c \in {d \in ToSet(invocations) : d.macro \in emitting /\ d.probe}}
  /\ ToSet(invocations') = {c \in ToSet(invocations) : c.macro \notin emitting}
  /\ done' = (queue' = <<>>)

(* What is popped: the last of the queue, with the rest left.                *)
LEMMA PoppedIs ==
  ASSUME Types, queue # <<>>
  PROVE  /\ Popped \in Pending /\ Rest \in Seq(Pending) /\ ~ done
         /\ ToSet(queue) = ToSet(Rest) \cup {Popped} /\ Popped.file \in Files /\ IsSite(Popped)
<1>1. Popped \in Pending /\ Rest \in Seq(Pending) /\ ToSet(queue) = ToSet(Rest) \cup {Popped}
  BY ToSetOfPop DEF Popped, Rest, Types
<1>2. \A p \in Pending : p.file \in Files /\ IsSite(p)
  BY DEF Pending, IsSite
<1> QED BY <1>1, <1>2 DEF Types

(* A file unread or ruled out is dropped.                                    *)
LEMMA AbsentIsDropped ==
  ASSUME Types, PopAbsent
  PROVE  Types' /\ \E p \in Pending : \E rest \in SUBSET Pending : Drops(p, rest)
<1> DEFINE p == Popped
           f == p.file
<1>1. /\ p \in Pending /\ Rest \in Seq(Pending) /\ ~ done /\ f \in Files
      /\ ToSet(queue) = ToSet(Rest) \cup {p} /\ ToSet(Rest) \subseteq Pending
  BY PoppedIs, ToSetOfConcat DEF PopAbsent
<1>2. f \notin visited /\ crate.health[f] \notin {"sound", "broken"} /\ f \notin Loaded
  BY DEF PopAbsent, Types
<1>3. /\ UNCHANGED <<crate, deferred, loaded, splicedFrom, emitting, invocations, remounted, done>>
      /\ queue' = Rest /\ visited' = visited \cup {f}
  BY DEF PopAbsent
<1> HIDE DEF p, f
<1>4. Loaded' = Loaded
  BY <1>3 DEF Loaded
<1>5. Types'
  BY <1>1, <1>2, <1>3, <1>4 DEF Types
<1>6. Drops(p, ToSet(Rest))
  BY <1>1, <1>2, <1>3 DEF Drops, Pops, Remembers, f
<1> QED BY <1>1, <1>5, <1>6

(* What is loaded afterwards: one more, or the same with one flag cleared.   *)
LEMMA EnteringIs ==
  ASSUME Types, NEW f \in Files, NEW site, IsSite(site), Enters(f, site),
         f \in Loaded => /\ ~ site.testOnly /\ site.isModRoot = Rule(f) /\ site.module = ModuleOf(f)
  PROVE  /\ loaded' \in Seq(LoadedFile) /\ Len(loaded') \in Nat /\ Len(loaded) \in Nat
         /\ Len(loaded') = IF f \in Loaded THEN Len(loaded) ELSE Len(loaded) + 1
         /\ \A j, k \in 1..Len(loaded') : loaded'[j].file = loaded'[k].file => j = k
         /\ \A k \in 1..Len(loaded) : /\ loaded'[k].file = loaded[k].file
                                      /\ loaded'[k].isModRoot = loaded[k].isModRoot
                                      /\ loaded'[k].module = loaded[k].module
                                      /\ loaded[k].file # f => loaded'[k] = loaded[k]
         /\ \E k \in 1..Len(loaded') : loaded'[k] = LoadedAs(f, site) /\ loaded'[k].file = f
         /\ Loaded' = Loaded \cup {f}
<1> DEFINE new == LoadedAs(f, site)
<1>1. /\ new \in LoadedFile /\ new.file = f
      /\ new.isModRoot = site.isModRoot /\ new.module = site.module
  BY LoadedAsIs DEF Types
<1>2. /\ loaded \in Seq(LoadedFile) /\ Len(loaded) \in Nat /\ DOMAIN loaded = 1..Len(loaded)
      /\ \A j, k \in 1..Len(loaded) : loaded[j].file = loaded[k].file => j = k
      /\ \A s \in Seq(LoadedFile) : Len(s) \in Nat /\ DOMAIN s = 1..Len(s)
  BY DEF Types
<1> HIDE DEF new
<1>3. CASE f \notin Loaded
  <2>1. loaded' = Append(loaded, new)
    BY <1>3 DEF Enters, new
  <2>2. /\ loaded' \in Seq(LoadedFile) /\ Len(loaded') = Len(loaded) + 1
        /\ \A k \in 1..Len(loaded) : loaded'[k] = loaded[k]
        /\ loaded'[Len(loaded) + 1] = new
    BY <1>1, <1>2, <2>1, ToSetOfAppend
  <2>3. \A n \in Nat : 1..(n + 1) = (1..n) \cup {n + 1} /\ n + 1 \notin 1..n
    OBVIOUS
  <2>4. 1..Len(loaded') = (1..Len(loaded)) \cup {Len(loaded) + 1}
    BY <1>2, <2>2, <2>3
  <2>5. \A k \in 1..Len(loaded) : loaded[k].file # f
    BY <1>3 DEF Loaded
  <2>6. Loaded' = Loaded \cup {f}
    BY <1>1, <2>2, <2>4 DEF Loaded
  <2>7. \A j, k \in 1..Len(loaded') : loaded'[j].file = loaded'[k].file => j = k
    BY <1>1, <1>2, <2>2, <2>4, <2>5
  <2>8. Len(loaded) + 1 \in 1..Len(loaded')
    BY <2>4
  <2> QED BY <1>1, <1>2, <1>3, <2>2, <2>6, <2>7, <2>8 DEF new
<1>4. CASE f \in Loaded
  <2> DEFINE at == IndexOf(f)
  <2>1. loaded' = [loaded EXCEPT ![at] = new]
    BY <1>4 DEF Enters, new
  <2>2. /\ at \in 1..Len(loaded) /\ loaded[at].file = f
        /\ site.isModRoot = loaded[at].isModRoot /\ site.module = loaded[at].module
    BY <1>4, LoadedOnce DEF Indexed, Rule, ModuleOf
  <2> HIDE DEF at
  <2>3. /\ loaded' \in Seq(LoadedFile) /\ Len(loaded') = Len(loaded)
        /\ \A k \in 1..Len(loaded) : loaded'[k] = IF k = at THEN new ELSE loaded[k]
    BY <1>1, <1>2, <2>1, <2>2
  <2>4. \A k \in 1..Len(loaded) : loaded'[k].file = loaded[k].file
    BY <1>1, <2>2, <2>3
  <2>5. Loaded' = Loaded \cup {f}
    BY <1>4, <2>3, <2>4 DEF Loaded
  <2> QED BY <1>1, <1>2, <1>4, <2>2, <2>3, <2>4, <2>5 DEF new
<1> QED BY <1>3, <1>4

(* Afterwards the others are loaded as they were, and this one at its site.  *)
LEMMA EnteredIs ==
  ASSUME Types, Types', NEW f \in Files, NEW site, IsSite(site), Enters(f, site),
         f \in Loaded => /\ ~ site.testOnly /\ site.isModRoot = Rule(f) /\ site.module = ModuleOf(f)
  PROVE  /\ Loaded' = Loaded \cup {f}
         /\ Cleared' = Cleared \cup (IF site.testOnly THEN {} ELSE {f})
         /\ \A g \in Loaded : Rule(g)' = Rule(g) /\ ModuleOf(g)' = ModuleOf(g) /\ IndexOf(g)' = IndexOf(g)
         /\ Rule(f)' = site.isModRoot /\ ModuleOf(f)' = site.module
         /\ f \notin Loaded => IndexOf(f)' = Len(loaded) + 1
<1>1. Indexed'
  BY LoadedOnce, PTL
<1>2. Indexed
  BY LoadedOnce
<1>3. ASSUME NEW g \in Loaded
      PROVE  /\ IndexOf(g)' = IndexOf(g) /\ Rule(g)' = Rule(g) /\ ModuleOf(g)' = ModuleOf(g)
             /\ g # f => (g \in Cleared' <=> g \in Cleared)
  <2>1. IndexOf(g) \in 1..Len(loaded) /\ loaded[IndexOf(g)].file = g
    BY <1>2 DEF Indexed
  <2>2. IndexOf(g) \in 1..Len(loaded') /\ loaded'[IndexOf(g)].file = g
    BY <2>1, EnteringIs
  <2>3. \A k \in 1..Len(loaded') : \A h : h = loaded'[k].file => IndexOf(h)' = k
    BY <1>1 DEF Indexed
  <2>4. IndexOf(g)' = IndexOf(g)
    BY <2>2, <2>3
  <2>5. /\ loaded'[IndexOf(g)].isModRoot = loaded[IndexOf(g)].isModRoot
        /\ loaded'[IndexOf(g)].module = loaded[IndexOf(g)].module
        /\ g # f => loaded'[IndexOf(g)] = loaded[IndexOf(g)]
    BY <2>1, EnteringIs
  <2>6. g \in Cleared' <=> ~ loaded'[IndexOf(g)].testOnly
    BY <1>1, <2>4, EnteringIs DEF Indexed
  <2>7. g \in Cleared <=> ~ loaded[IndexOf(g)].testOnly
    BY <1>2 DEF Indexed
  <2> QED BY <2>4, <2>5, <2>6, <2>7 DEF Rule, ModuleOf
<1>4. /\ Rule(f)' = site.isModRoot /\ ModuleOf(f)' = site.module
      /\ f \in Cleared' <=> ~ site.testOnly
  <2>1. PICK k \in 1..Len(loaded') : loaded'[k] = LoadedAs(f, site) /\ loaded'[k].file = f
    BY EnteringIs
  <2>2. IndexOf(f)' = k /\ f \in Loaded'
    BY <1>1, <2>1, EnteringIs DEF Indexed
  <2>3. f \in Cleared' <=> ~ loaded'[k].testOnly
    BY <1>1, <2>2 DEF Indexed
  <2> QED BY <2>1, <2>2, <2>3, LoadedAsIs DEF Rule, ModuleOf, Types
<1>5. f \notin Loaded => IndexOf(f)' = Len(loaded) + 1
  <2>1. SUFFICES ASSUME f \notin Loaded PROVE IndexOf(f)' = Len(loaded) + 1
    OBVIOUS
  <2>2. Len(loaded) \in Nat /\ Len(loaded') = Len(loaded) + 1
    BY <2>1, EnteringIs
  <2>3. loaded' = Append(loaded, LoadedAs(f, site))
    BY <2>1 DEF Enters
  <2>4. LoadedAs(f, site).file = f /\ LoadedAs(f, site) \in LoadedFile /\ loaded \in Seq(LoadedFile)
    BY LoadedAsIs DEF Types
  <2>5. loaded'[Len(loaded) + 1].file = f /\ Len(loaded) + 1 \in 1..Len(loaded')
    BY <2>2, <2>3, <2>4, ToSetOfAppend
  <2> QED BY <1>1, <2>5 DEF Indexed
<1>6. Cleared' \subseteq Loaded' /\ Cleared \subseteq Loaded
  BY <1>1, <1>2 DEF Indexed
<1>7. Loaded' = Loaded \cup {f}
  BY EnteringIs
<1>8. f \in Loaded => ~ site.testOnly
  OBVIOUS
<1>9. Cleared' = Cleared \cup (IF site.testOnly THEN {} ELSE {f})
  BY <1>3, <1>4, <1>6, <1>7, <1>8
<1> QED BY <1>3, <1>4, <1>5, <1>7, <1>9

(* The types stand whatever is read.                                         *)
LEMMA ReadingIsTyped ==
  ASSUME Types, NEW f \in Files, NEW site, IsSite(site), Enters(f, site), ~ done,
         f \in Loaded => /\ ~ site.testOnly /\ site.isModRoot = Rule(f) /\ site.module = ModuleOf(f),
         crate.health[f] \in {"sound", "broken"},
         UNCHANGED <<crate, splicedFrom, done>>, visited' = visited \cup {f},
         queue' \in Seq(Pending), deferred' \in Seq(Pending), emitting' \subseteq Macros,
         invocations' \in Seq(Invocation),
         \A c \in ToSet(invocations') : c.probe <=> IsOnDisk(c.pending.file)
  PROVE  Types'
<1>1. /\ loaded' \in Seq(LoadedFile)
      /\ \A j, k \in 1..Len(loaded') : loaded'[j].file = loaded'[k].file => j = k
  BY EnteringIs
<1>2. splicedFrom' \in 0..Len(loaded') + 1
  BY EnteringIs DEF Types
<1>3. Loaded' = {g \in visited' : crate'.health[g] \in {"sound", "broken"}}
  <2>1. Loaded' = Loaded \cup {f}
    BY EnteringIs
  <2> HIDE DEF Loaded
  <2> QED BY <2>1 DEF Types
<1> QED BY <1>1, <1>2, <1>3 DEF Types, IsOnDisk

(* What reading a file calls for is probed where it is recorded.             *)
LEMMA CallsAreProbed ==
  ASSUME NEW f, NEW site
  PROVE  \A c \in CallsOf(f, site) : c.probe <=> IsOnDisk(c.pending.file)
<1>1. ASSUME NEW i PROVE Call(i, site).probe <=> IsOnDisk(Call(i, site).pending.file)
  <2>1. Following(i, site).file = i.at[site.isModRoot]
    BY DEF Following
  <2>2. Call(i, site).pending = Following(i, site) /\ Call(i, site).probe = IsOnDisk(i.at[site.isModRoot])
    BY DEF Call
  <2> QED BY <2>1, <2>2
<1> QED BY <1>1 DEF CallsOf

(* A file loaded is read, if only to find nothing in it.                     *)
LEMMA NewIsRead ==
  ASSUME Types, PopNew
  PROVE  Types' /\ \E p \in Pending : \E rest \in SUBSET Pending : Reads(p, rest, p)
<1> DEFINE p == Popped
           f == p.file
           parses == crate.health[f] = "sound"
<1>1. /\ p \in Pending /\ Rest \in Seq(Pending) /\ ~ done /\ f \in Files /\ IsSite(p)
      /\ ToSet(queue) = ToSet(Rest) \cup {p} /\ ToSet(Rest) \subseteq Pending
  BY PoppedIs, ToSetOfConcat DEF PopNew
<1>2. f \notin visited /\ crate.health[f] \in {"sound", "broken"} /\ f \notin Loaded
  BY DEF PopNew, Types
<1>3. /\ UNCHANGED <<crate, splicedFrom, remounted, done>>
      /\ visited' = visited \cup {f} /\ loaded' = Append(loaded, LoadedAs(f, p))
  BY DEF PopNew
<1>4. parses => /\ queue' = Rest \o ModDecls(f, p) /\ deferred' = deferred \o Splices(f, p)
                /\ emitting' = emitting \cup Defined(f) /\ invocations' = invocations \o Invoked(f, p)
  BY DEF PopNew
<1>5. ~ parses => queue' = Rest /\ UNCHANGED <<deferred, emitting, invocations>>
  BY DEF PopNew
<1> HIDE DEF p, f
<1>6. /\ queue' \in Seq(Pending) /\ deferred' \in Seq(Pending) /\ invocations' \in Seq(Invocation)
      /\ ToSet(queue') = ToSet(Rest) \cup DeclsOf(f, p)
      /\ ToSet(deferred') = ToSet(deferred) \cup SplicesOf(f, p)
      /\ ToSet(invocations') = ToSet(invocations) \cup CallsOf(f, p)
      /\ emitting' = emitting \cup {i.macro : i \in ItemsOf(f, {"define"})}
  <2>1. CASE parses
    <3>1. /\ ModDecls(f, p) \in Seq(Pending) /\ ToSet(ModDecls(f, p)) = DeclsOf(f, p)
          /\ Splices(f, p) \in Seq(Pending) /\ ToSet(Splices(f, p)) = SplicesOf(f, p)
          /\ Invoked(f, p) \in Seq(Invocation) /\ ToSet(Invoked(f, p)) = CallsOf(f, p)
          /\ Defined(f) = {i.macro : i \in ItemsOf(f, {"define"})}
      BY <1>1, <2>1, ReadingIs DEF Types
    <3>2. /\ queue' = Rest \o ModDecls(f, p) /\ deferred' = deferred \o Splices(f, p)
          /\ emitting' = emitting \cup Defined(f) /\ invocations' = invocations \o Invoked(f, p)
      BY <1>4, <2>1
    <3> HIDE DEF parses
    <3>3. queue' \in Seq(Pending) /\ ToSet(queue') = ToSet(Rest) \cup DeclsOf(f, p)
      BY <1>1, <3>1, <3>2, ToSetOfConcat
    <3>4. deferred' \in Seq(Pending) /\ ToSet(deferred') = ToSet(deferred) \cup SplicesOf(f, p)
      BY <3>1, <3>2, ToSetOfConcat DEF Types
    <3>5. invocations' \in Seq(Invocation) /\ ToSet(invocations') = ToSet(invocations) \cup CallsOf(f, p)
      BY <3>1, <3>2, ToSetOfConcat DEF Types
    <3> QED BY <3>1, <3>2, <3>3, <3>4, <3>5
  <2>2. CASE ~ parses
    <3>1. /\ DeclsOf(f, p) = {} /\ SplicesOf(f, p) = {} /\ CallsOf(f, p) = {}
          /\ {i.macro : i \in ItemsOf(f, {"define"})} = {}
      BY <2>2, ReadingNothing
    <3> QED BY <1>1, <1>5, <2>2, <3>1 DEF Types
  <2> QED BY <2>1, <2>2
<1>7. Enters(f, p)
  BY <1>2, <1>3 DEF Enters
<1>8. emitting' \subseteq Macros
  <2>1. \A i \in ItemsOf(f, {"define"}) : i.macro \in Macros
    BY <1>1, ItemsAreItems DEF Types, Item
  <2> QED BY <1>6, <2>1 DEF Types
<1>9. \A c \in ToSet(invocations') : c.probe <=> IsOnDisk(c.pending.file)
  BY <1>6, CallsAreProbed DEF Types
<1>10. Types'
  BY <1>1, <1>2, <1>3, <1>6, <1>7, <1>8, <1>9, ReadingIsTyped
<1>11. Pops(p, ToSet(Rest))
  BY <1>1, <1>2, <1>3 DEF Pops, Remembers, f
<1>12. Reads(p, ToSet(Rest), p)
  BY <1>1, <1>2, <1>6, <1>7, <1>11 DEF Reads, f
<1> QED BY <1>1, <1>10, <1>12

(* A file met again is read again when that clears it, and dropped if not.   *)
LEMMA AgainIsReadOrDropped ==
  ASSUME Types, PopAgain
  PROVE  /\ Types'
         /\ \E p \in Pending : \E rest \in SUBSET Pending : Drops(p, rest) \/ \E site : Reads(p, rest, site)
<1> DEFINE p == Popped
           f == p.file
           k == IndexOf(f)
           site == [isModRoot |-> loaded[k].isModRoot, module |-> loaded[k].module,
                    testOnly |-> FALSE, depth |-> p.depth]
<1>1. /\ p \in Pending /\ Rest \in Seq(Pending) /\ ~ done /\ f \in Files /\ IsSite(p)
      /\ ToSet(queue) = ToSet(Rest) \cup {p} /\ ToSet(Rest) \subseteq Pending
  BY PoppedIs, ToSetOfConcat DEF PopAgain
<1>2. /\ UNCHANGED <<crate, visited, splicedFrom, emitting, invocations, done>>
      /\ f \in visited /\ visited' = visited \cup {f}
  BY DEF PopAgain
<1>3. CASE f \notin Loaded
  <2>1. ~ IsSeen(f)
    BY <1>3, LoadedOnce DEF Indexed
  <2>2. queue' = Rest /\ UNCHANGED <<deferred, loaded, remounted>>
    BY <2>1 DEF PopAgain
  <2>3. crate.health[f] \notin {"sound", "broken"}
    BY <1>2, <1>3 DEF Types
  <2> HIDE DEF f, p
  <2>4. Loaded' = Loaded
    BY <2>2 DEF Loaded
  <2>5. Types'
    BY <1>1, <1>2, <2>2, <2>4 DEF Types
  <2>6. Drops(p, ToSet(Rest))
    BY <1>1, <1>2, <1>3, <2>2, <2>3 DEF Drops, Pops, Remembers, f
  <2> QED BY <1>1, <2>5, <2>6
<1>4. CASE f \in Loaded
  <2>1. /\ k \in 1..Len(loaded) /\ loaded[k].file = f /\ IsSeen(f)
        /\ loaded[k].isModRoot = Rule(f) /\ loaded[k].module = ModuleOf(f)
        /\ Rule(f) \in BOOLEAN /\ ModuleOf(f) \in Seq(STRING)
        /\ f \in Cleared <=> ~ loaded[k].testOnly
    BY <1>4, LoadedOnce DEF Indexed, Rule, ModuleOf
  <2>2. /\ remounted' = IF Remounts(k) THEN remounted \cup {<<loaded[k].module, p.module>>} ELSE remounted
        /\ IF Lifts(k) THEN loaded' = [loaded EXCEPT ![k] = LoadedAs(f, site)] ELSE UNCHANGED loaded
        /\ queue' = IF Lifts(k) /\ crate.health[f] = "sound" THEN Rest \o ModDecls(f, site) ELSE Rest
        /\ deferred' = IF Lifts(k) /\ crate.health[f] = "sound" THEN deferred \o Splices(f, site) ELSE deferred
    <3>1. IsSeen(Popped.file) /\ loaded[IndexOf(Popped.file)].file = Popped.file
      BY <2>1
    <3> QED BY <3>1 DEF PopAgain, LiftedSplices
  <2>3. /\ Remounts(k) <=> splicedFrom = 0 /\ p.module # ModuleOf(f) /\ ModuleOf(f) # <<>>
        /\ Lifts(k) <=> ~ p.testOnly /\ f \notin Cleared
    BY <2>1 DEF Remounts, Lifts
  <2>4. Pops(p, ToSet(Rest))
    <3>1. Remembers(p)
      BY <1>4, <2>1, <2>2, <2>3 DEF Remembers
    <3> HIDE DEF p
    <3> QED BY <1>1, <1>2, <3>1 DEF Pops, f
  <2>5. CASE ~ Lifts(k)
    <3>1. queue' = Rest /\ UNCHANGED <<loaded, deferred>>
      BY <2>2, <2>5
    <3>2. Loaded' = Loaded
      BY <3>1 DEF Loaded
    <3>3. p.testOnly \/ f \in Cleared
      BY <2>3, <2>5
    <3> HIDE DEF p, f
    <3>4. Types'
      BY <1>1, <1>2, <3>1, <3>2 DEF Types
    <3>5. Drops(p, ToSet(Rest))
      BY <1>2, <1>4, <2>4, <3>1, <3>3 DEF Drops, f
    <3> QED BY <1>1, <3>4, <3>5
  <2>6. CASE Lifts(k)
    <3>1. /\ IsSite(site) /\ site.isModRoot = Rule(f) /\ site.module = ModuleOf(f)
          /\ site.depth = p.depth /\ site.testOnly = FALSE
      BY <1>1, <2>1 DEF IsSite
    <3>2. ~ p.testOnly /\ f \notin Cleared /\ crate.health[f] \in {"sound", "broken"}
      BY <1>4, <2>3, <2>6 DEF Types
    <3>3. loaded' = [loaded EXCEPT ![IndexOf(f)] = LoadedAs(f, site)]
      BY <2>2, <2>6
    <3>4. /\ queue' = IF crate.health[f] = "sound" THEN Rest \o ModDecls(f, site) ELSE Rest
          /\ deferred' = IF crate.health[f] = "sound" THEN deferred \o Splices(f, site) ELSE deferred
      BY <2>2, <2>6
    <3>5. p.testOnly \in BOOLEAN
      BY <1>1 DEF IsSite
    <3> HIDE DEF p, f, k, site
    <3>6. Enters(f, site)
      BY <1>4, <3>3 DEF Enters
    <3>7. /\ queue' \in Seq(Pending) /\ ToSet(queue') = ToSet(Rest) \cup DeclsOf(f, site)
          /\ deferred' \in Seq(Pending) /\ ToSet(deferred') = ToSet(deferred) \cup SplicesOf(f, site)
      <4>1. CASE crate.health[f] = "sound"
        <5>1. /\ ModDecls(f, site) \in Seq(Pending) /\ ToSet(ModDecls(f, site)) = DeclsOf(f, site)
              /\ Splices(f, site) \in Seq(Pending) /\ ToSet(Splices(f, site)) = SplicesOf(f, site)
          BY <1>1, <3>1, <4>1, ReadingIs DEF Types
        <5>2. queue' \in Seq(Pending) /\ ToSet(queue') = ToSet(Rest) \cup DeclsOf(f, site)
          BY <1>1, <3>4, <4>1, <5>1, ToSetOfConcat
        <5>3. deferred' \in Seq(Pending) /\ ToSet(deferred') = ToSet(deferred) \cup SplicesOf(f, site)
          BY <3>4, <4>1, <5>1, ToSetOfConcat DEF Types
        <5> QED BY <5>2, <5>3
      <4>2. CASE crate.health[f] # "sound"
        <5>1. DeclsOf(f, site) = {} /\ SplicesOf(f, site) = {}
          BY <4>2, ReadingNothing
        <5> QED BY <1>1, <3>4, <4>2, <5>1 DEF Types
      <4> QED BY <4>1, <4>2
    <3>8. Types'
      <4>1. emitting' \subseteq Macros /\ invocations' \in Seq(Invocation)
        BY <1>2 DEF Types
      <4>2. \A c \in ToSet(invocations') : c.probe <=> IsOnDisk(c.pending.file)
        BY <1>2 DEF Types
      <4> QED BY <1>1, <1>2, <3>1, <3>2, <3>6, <3>7, <4>1, <4>2, ReadingIsTyped
    <3>9. Reads(p, ToSet(Rest), site)
      <4>1. IF f \in Loaded
            THEN /\ ~ p.testOnly /\ f \notin Cleared
                 /\ site.isModRoot = Rule(f) /\ site.module = ModuleOf(f)
                 /\ UNCHANGED <<emitting, invocations>>
            ELSE FALSE
        BY <1>2, <1>4, <3>1, <3>2
      <4>2. site.testOnly = p.testOnly
        BY <3>1, <3>2, <3>5
      <4> QED BY <1>4, <2>4, <3>1, <3>2, <3>6, <3>7, <4>1, <4>2 DEF Reads, f
    <3> QED BY <1>1, <3>8, <3>9
  <2> QED BY <2>5, <2>6
<1> QED BY <1>3, <1>4

(* What an orderly reading of some positions holds.                          *)
LEMMA ChosenAre ==
  ASSUME NEW S, NEW s \in Seq(S), NEW at \in SUBSET (1..Len(s)), NEW t,
         t = [k \in 1..Len(InOrder(at)) |-> s[InOrder(at)[k]]]
  PROVE  t \in Seq(S) /\ ToSet(t) = {s[k] : k \in at} /\ ToSet(s) = {s[k] : k \in 1..Len(s)}
<1> DEFINE o == InOrder(at)
           n == Len(s)
<1>1. n \in Nat /\ DOMAIN s = 1..n /\ \A k \in 1..n : s[k] \in S
  OBVIOUS
<1>2. /\ Len(o) \in Nat /\ DOMAIN o = 1..Len(o)
      /\ \A k \in DOMAIN o : o[k] \in at
      /\ \A k \in at : \E i \in DOMAIN o : o[i] = k
  BY <1>1, StopsAre
<1>3. t = [k \in 1..Len(o) |-> s[o[k]]] /\ at \in SUBSET (1..n)
  OBVIOUS
<1> HIDE DEF o, n
<1>4. t \in [1..Len(o) -> S] /\ \A k \in 1..Len(o) : t[k] = s[o[k]]
  BY <1>1, <1>2, <1>3
<1>5. t \in Seq(S) /\ DOMAIN t = 1..Len(o)
  BY <1>2, <1>4, SequenceOf
<1>6. Collects(at, o, s, t)
  BY <1>2, <1>4, <1>5 DEF Collects
<1>7. ToSet(t) = Values(s, at)
  BY <1>6, CollectedInOrder
<1>8. ToSet(t) = {s[k] : k \in at}
  BY <1>7 DEF Values
<1>9. ToSet(s) = {s[k] : k \in 1..Len(s)}
  BY <1>1 DEF ToSet, n
<1> QED BY <1>5, <1>8, <1>9

(* The queue drained, what waits is taken up.                                *)
LEMMA SettlingIs ==
  ASSUME Types, Settle
  PROVE  Types' /\ Settles
<1> DEFINE n == Len(invocations)
           hitsAt == {k \in 1..n : invocations[k].macro \in emitting /\ invocations[k].probe}
           keptAt == {k \in 1..n : invocations[k].macro \notin emitting}
           hits == InOrder(hitsAt)
           kept == InOrder(keptAt)
           found == [k \in 1..Len(hits) |-> invocations[hits[k]].pending]
           held == deferred \o found
           pend == [k \in 1..n |-> invocations[k].pending]
<1>1. /\ UNCHANGED <<crate, visited, loaded, emitting, remounted>>
      /\ ~ done /\ queue = <<>> /\ deferred' = <<>>
      /\ splicedFrom' = IF splicedFrom = 0 THEN Len(loaded) + 1 ELSE splicedFrom
  BY DEF Settle
<1>2. /\ queue' = held /\ done' = (held = <<>>)
      /\ invocations' = [k \in 1..Len(kept) |-> invocations[kept[k]]]
  BY DEF Settle, Where
<1>3. /\ n \in Nat /\ DOMAIN invocations = 1..n
      /\ \A k \in 1..n : invocations[k] \in Invocation /\ invocations[k] \in ToSet(invocations)
  <2>1. \A s \in Seq(Invocation) : /\ Len(s) \in Nat /\ DOMAIN s = 1..Len(s)
                                   /\ \A k \in 1..Len(s) : s[k] \in Invocation
    OBVIOUS
  <2> QED BY <2>1 DEF Types, ToSet
<1>4. \A k \in hitsAt : pend[k] \in Pending
  <2>1. SUFFICES ASSUME NEW k \in hitsAt PROVE invocations[k].pending \in Pending
    OBVIOUS
  <2>2. invocations[k].pending \in Awaited /\ invocations[k].pending.file \in Files
    BY <1>3 DEF Types, IsOnDisk, Invocation
  <2>3. \A a \in Awaited : a.file \in Files => a \in Pending
    BY DEF Awaited, Pending
  <2> QED BY <2>2, <2>3
<1>5. found \in Seq(Pending) /\ \A x : x \in ToSet(found) <=> \E k \in hitsAt : x = pend[k]
  <2>1. /\ Len(hits) \in Nat /\ DOMAIN hits = 1..Len(hits)
        /\ \A i \in DOMAIN hits : hits[i] \in hitsAt
        /\ \A k \in hitsAt : \E i \in DOMAIN hits : hits[i] = k
    <3>1. n \in Nat /\ hitsAt \in SUBSET (1..n)
      BY <1>3
    <3> HIDE DEF hitsAt, n
    <3> QED BY <3>1, StopsAre
  <2>2. hitsAt \subseteq 1..n
    OBVIOUS
  <2>3. \A k \in hitsAt : pend[k] = invocations[k].pending
    BY <2>2
  <2>4. found \in [1..Len(hits) -> Pending] /\ \A i \in 1..Len(hits) : found[i] = pend[hits[i]]
    <3> HIDE DEF hits, hitsAt, pend
    <3> QED BY <1>4, <2>1, <2>3
  <2> HIDE DEF found, pend, hits, hitsAt, n
  <2>5. found \in Seq(Pending) /\ DOMAIN found = 1..Len(hits)
    BY <2>1, <2>4, SequenceOf
  <2>6. Collects(hitsAt, hits, pend, found)
    BY <2>1, <2>4, <2>5 DEF Collects
  <2>7. ToSet(found) = Values(pend, hitsAt)
    BY <2>6, CollectedInOrder
  <2> QED BY <2>5, <2>7 DEF Values
<1>6. /\ invocations' \in Seq(Invocation)
      /\ ToSet(invocations') = {invocations[k] : k \in keptAt}
      /\ ToSet(invocations) = {invocations[k] : k \in 1..n}
  <2>1. keptAt \in SUBSET (1..n) /\ invocations \in Seq(Invocation)
    BY DEF Types
  <2>2. invocations' = [k \in 1..Len(InOrder(keptAt)) |-> invocations[InOrder(keptAt)[k]]]
    BY <1>2
  <2> HIDE DEF keptAt
  <2> QED BY <2>1, <2>2, ChosenAre
<1>7. /\ held \in Seq(Pending) /\ ToSet(held) = ToSet(deferred) \cup ToSet(found)
  <2> HIDE DEF found
  <2> QED BY <1>5, ToSetOfConcat DEF Types
<1>8. ToSet(found) = {c.pending : c \in {d \in ToSet(invocations) : d.macro \in emitting /\ d.probe}}
  <2> HIDE DEF found
  <2>1. \A x : (\E k \in hitsAt : x = pend[k]) <=>
               \E c \in ToSet(invocations) : c.macro \in emitting /\ c.probe /\ x = c.pending
    BY <1>3, <1>6
  <2> HIDE DEF hitsAt, pend
  <2>2. \A x : x \in ToSet(found) <=>
               \E c \in ToSet(invocations) : c.macro \in emitting /\ c.probe /\ x = c.pending
    BY <1>5, <2>1
  <2> QED BY <2>2
<1>9. ToSet(invocations') = {c \in ToSet(invocations) : c.macro \notin emitting}
  BY <1>6
<1> HIDE DEF held, kept, hits, hitsAt, keptAt, found, pend, n
<1>10. Settles
  BY <1>1, <1>2, <1>7, <1>8, <1>9 DEF Settles
<1>11. Types'
  <2>1. splicedFrom' \in 0..Len(loaded') + 1
    <3>1. Len(loaded) \in Nat
      BY DEF Types
    <3> QED BY <1>1, <3>1 DEF Types
  <2>2. Loaded' = Loaded
    BY <1>1 DEF Loaded
  <2>3. \A c \in ToSet(invocations') : c.probe <=> IsOnDisk(c.pending.file)
    BY <1>9 DEF Types
  <2>4. deferred' \in Seq(Pending) /\ queue' \in Seq(Pending)
    BY <1>1, <1>2, <1>7
  <2>5. done' \in BOOLEAN /\ (done' => queue' = <<>> /\ deferred' = <<>>)
    BY <1>1, <1>2
  <2> QED BY <1>1, <1>6, <2>1, <2>2, <2>3, <2>4, <2>5 DEF Types
<1> QED BY <1>10, <1>11

-------------------------------------------------------------------------------
(* Every step drops a file, reads one, or takes up what waits.               *)
Walks ==
  \/ UNCHANGED vars
  \/ Settles
  \/ \E p \in Pending : \E rest \in SUBSET Pending :
       Drops(p, rest) \/ \E site : Reads(p, rest, site)

(* It does, and the types stand.                                             *)
LEMMA StepsAre ==
  ASSUME Types, [Next]_vars
  PROVE  Types' /\ Walks
<1>1. CASE PopAbsent
  BY <1>1, AbsentIsDropped DEF Walks
<1>2. CASE PopNew
  BY <1>2, NewIsRead DEF Walks
<1>3. CASE PopAgain
  BY <1>3, AgainIsReadOrDropped DEF Walks
<1>4. CASE Settle
  BY <1>4, SettlingIs DEF Walks
<1>5. CASE UNCHANGED vars
  <2>1. Loaded' = Loaded
    BY <1>5 DEF vars, Loaded
  <2> QED BY <1>5, <2>1 DEF vars, Types, Walks
<1> QED BY <1>1, <1>2, <1>3, <1>4, <1>5 DEF Next

(* The walk begins with the crate's root.                                    *)
LEMMA WalkBegins ==
  ASSUME Init
  PROVE  /\ Types /\ Loaded = {} /\ Cleared = {} /\ Start \in Pending
         /\ ToSet(queue) = {Start} /\ ToSet(deferred) = {} /\ ToSet(invocations) = {}
<1>1. Start \in Pending
  <2>1. <<>> \in Seq(STRING) /\ 0 \in 0..MaxIncludeDepth
    BY DepthIsANumber
  <2> QED BY <2>1, RootIsAFile DEF Start, Pending
<1>2. /\ queue = <<Start>> /\ queue \in Seq(Pending) /\ ToSet(queue) = {Start}
  <2>1. \A S : \A x \in S : <<x>> \in Seq(S) /\ DOMAIN <<x>> = {1} /\ <<x>>[1] = x
    OBVIOUS
  <2> QED BY <1>1, <2>1 DEF Init, ToSet
<1>3. Loaded = {} /\ Cleared = {}
  BY DEF Init, Loaded, Cleared
<1>4. ToSet(deferred) = {} /\ ToSet(invocations) = {}
  BY DEF Init, ToSet
<1>5. Len(loaded) = 0 /\ loaded \in Seq(LoadedFile) /\ deferred \in Seq(Pending)
      /\ invocations \in Seq(Invocation)
  BY DEF Init
<1>6. Types
  <2>1. /\ crate \in Crates /\ visited = {} /\ emitting = {} /\ splicedFrom = 0
        /\ done = FALSE
    BY DEF Init
  <2>2. \A j, k \in 1..Len(loaded) : loaded[j].file = loaded[k].file => j = k
    BY <1>5
  <2>3. splicedFrom \in 0..Len(loaded) + 1
    BY <1>5, <2>1
  <2>4. Loaded = {f \in visited : crate.health[f] \in {"sound", "broken"}}
    BY <1>3, <2>1
  <2> QED BY <1>2, <1>4, <1>5, <2>1, <2>2, <2>3, <2>4 DEF Types
<1> QED BY <1>1, <1>2, <1>3, <1>4, <1>6

(* The types stand throughout.                                               *)
LEMMA TypesAlways == Spec => []Types
<1>1. Init => Types
  BY WalkBegins
<1>2. Types /\ [Next]_vars => Types'
  BY StepsAre
<1> QED BY <1>1, <1>2, PTL DEF Spec

(* Whatever the crate, the walk keeps to files on disk and to the depth of   *)
(* includes it is allowed, loads no file twice, and ends with nothing left   *)
(* to follow (TypeOK).                                                       *)
THEOREM TypeCorrect == Spec => []TypeOK
<1>1. Types => TypeOK
  <2> SUFFICES ASSUME Types PROVE TypeOK
    OBVIOUS
  <2>1. \A p \in ToSet(queue) \cup ToSet(deferred) :
          /\ p.file \in Files /\ p.depth \in 0..MaxIncludeDepth
          /\ p.isModRoot \in BOOLEAN /\ p.testOnly \in BOOLEAN
    <3>1. ToSet(queue) \subseteq Pending /\ ToSet(deferred) \subseteq Pending
      BY ToSetOfConcat DEF Types
    <3> QED BY <3>1 DEF Pending
  <2>2. IsInjective([k \in 1..Len(loaded) |-> loaded[k].file])
    BY DEF Types, IsInjective
  <2>3. {loaded[k].file : k \in 1..Len(loaded)} \subseteq visited
    BY DEF Types, Loaded
  <2> QED BY <2>1, <2>2, <2>3 DEF Types, TypeOK
<1> QED BY <1>1, TypesAlways, PTL

-------------------------------------------------------------------------------
(* What a step leaves of what is known: it only grows.                       *)
Grows ==
  /\ crate' = crate /\ Loaded \subseteq Loaded' /\ Cleared \subseteq Cleared'
  /\ visited \subseteq visited' /\ emitting \subseteq emitting'
  /\ \A g \in Loaded : Rule(g)' = Rule(g) /\ ModuleOf(g)' = ModuleOf(g)

(* Where nothing is loaded, nothing changes of what was.                     *)
LEMMA StandingStill ==
  ASSUME loaded' = loaded
  PROVE  /\ Loaded' = Loaded /\ Cleared' = Cleared
         /\ \A g : Rule(g)' = Rule(g) /\ ModuleOf(g)' = ModuleOf(g) /\ IndexOf(g)' = IndexOf(g)
BY DEF Loaded, Cleared, Rule, ModuleOf, IndexOf

(* A reading loads its file, or clears it.                                   *)
LEMMA ReadingLoads ==
  ASSUME Types, Types', NEW p \in Pending, NEW rest, NEW site, Reads(p, rest, site)
  PROVE  /\ p.file \in Files /\ p.testOnly \in BOOLEAN /\ p.depth \in 0..MaxIncludeDepth
         /\ Loaded' = Loaded \cup {p.file}
         /\ Cleared' = Cleared \cup (IF p.testOnly THEN {} ELSE {p.file})
         /\ \A g \in Loaded : Rule(g)' = Rule(g) /\ ModuleOf(g)' = ModuleOf(g) /\ IndexOf(g)' = IndexOf(g)
         /\ Rule(p.file)' = site.isModRoot /\ ModuleOf(p.file)' = site.module
         /\ p.file \notin Loaded => IndexOf(p.file)' = Len(loaded) + 1
<1>1. p.file \in Files /\ p.testOnly \in BOOLEAN /\ p.depth \in 0..MaxIncludeDepth
  BY DEF Pending
<1>2. /\ IsSite(site) /\ Enters(p.file, site) /\ site.testOnly = p.testOnly
      /\ p.file \in Loaded => ~ site.testOnly /\ site.isModRoot = Rule(p.file) /\ site.module = ModuleOf(p.file)
  BY DEF Reads
<1> QED BY <1>1, <1>2, EnteredIs

(* Whatever the step.                                                        *)
LEMMA WalkGrows ==
  ASSUME Types, Types', Walks
  PROVE  Grows
<1>1. CASE UNCHANGED vars
  BY <1>1, StandingStill DEF vars, Grows
<1>2. CASE Settles
  BY <1>2, StandingStill DEF Settles, Grows
<1>3. CASE \E p \in Pending : \E rest : Drops(p, rest)
  BY <1>3, StandingStill DEF Drops, Pops, Grows
<1>4. ASSUME NEW p \in Pending, NEW rest, NEW site, Reads(p, rest, site)
      PROVE  Grows
  <2>1. /\ crate' = crate /\ visited \subseteq visited' /\ emitting \subseteq emitting'
    BY <1>4 DEF Reads, Pops
  <2> QED BY <1>4, <2>1, ReadingLoads DEF Grows
<1> QED BY <1>1, <1>2, <1>3, <1>4 DEF Walks

-------------------------------------------------------------------------------
(* The edges, one by one: a loaded file leads to a file of the build.        *)
Healthy(t) == t \in Files /\ crate.health[t] \in {"sound", "broken"}

Goes(f, t, kinds, free) ==
  /\ f \in Loaded /\ Healthy(t)
  /\ \E i \in ItemsOf(f, kinds) : /\ free => ~ i.confined
                                  /\ i.kind = "invoke" => i.macro \in DefinedAnywhere
                                  /\ t = i.at[Rule(f)]

EdgesMatch ==
  \A kinds, free :
    /\ \A e \in Edges(kinds, free) : e[2] \in Files /\ Goes(e[1], e[2], kinds, free)
    /\ \A f, t : Goes(f, t, kinds, free) => <<f, t>> \in Edges(kinds, free)

(* Those are the edges.                                                      *)
LEMMA EdgesAre == ASSUME Types PROVE EdgesMatch
<1> SUFFICES ASSUME NEW kinds, NEW free
             PROVE  /\ \A e \in Edges(kinds, free) : e[2] \in Files /\ Goes(e[1], e[2], kinds, free)
                    /\ \A f, t : Goes(f, t, kinds, free) => <<f, t>> \in Edges(kinds, free)
  BY DEF EdgesMatch
<1>1. ASSUME NEW e \in Edges(kinds, free) PROVE e[2] \in Files /\ Goes(e[1], e[2], kinds, free)
  <2>0. PICK f \in Loaded : \E i \in ItemsOf(f, kinds) :
          /\ free => ~ i.confined
          /\ i.kind = "invoke" => i.macro \in DefinedAnywhere
          /\ e \in {<<f, t>> : t \in Leads(i, f)}
    BY DEF Edges
  <2>1. PICK i \in ItemsOf(f, kinds) :
          /\ free => ~ i.confined
          /\ i.kind = "invoke" => i.macro \in DefinedAnywhere
          /\ e \in {<<f, t>> : t \in Leads(i, f)}
    BY <2>0
  <2>2. PICK t \in Leads(i, f) : e = <<f, t>>
    BY <2>1
  <2>3. t = i.at[Rule(f)] /\ Healthy(t)
    BY <2>2 DEF Leads, IsOnDisk, Rule, Healthy
  <2> QED BY <2>1, <2>2, <2>3 DEF Goes, Healthy
<1>2. ASSUME NEW f, NEW t, Goes(f, t, kinds, free) PROVE <<f, t>> \in Edges(kinds, free)
  <2>1. PICK i \in ItemsOf(f, kinds) : /\ free => ~ i.confined
                                       /\ i.kind = "invoke" => i.macro \in DefinedAnywhere
                                       /\ t = i.at[Rule(f)]
    BY <1>2 DEF Goes
  <2>2. t \in Leads(i, f) /\ f \in Loaded
    BY <1>2, <2>1 DEF Goes, Healthy, Leads, IsOnDisk, Rule
  <2> QED BY <2>1, <2>2 DEF Edges
<1> QED BY <1>1, <1>2

(* What a set of edges reaches: the least set they do not lead out of.       *)
LEMMA ClosureIs ==
  ASSUME NEW start \in SUBSET Files, NEW edges
  PROVE  /\ Closure(start, edges) \subseteq Files /\ start \subseteq Closure(start, edges)
         /\ \A e \in edges : e[1] \in Closure(start, edges) /\ e[2] \in Files => e[2] \in Closure(start, edges)
         /\ \A S \in SUBSET Files :
              start \subseteq S /\ (\A e \in edges : e[1] \in S => e[2] \in S) => Closure(start, edges) \subseteq S
BY DEF Closure

(* More edges reach no less.                                                 *)
LEMMA ClosureGrows ==
  ASSUME NEW start, NEW edges, NEW more, edges \subseteq more
  PROVE  Closure(start, edges) \subseteq Closure(start, more)
BY DEF Closure

-------------------------------------------------------------------------------
(* The macros known to declare modules are those the loaded files define.    *)
Defines == emitting = DefinedAnywhere

(* They are, after every step.                                               *)
LEMMA DefinesStep ==
  ASSUME Types, Types', Walks, Defines
  PROVE  Defines'
<1> DEFINE Of(f) == {i.macro : i \in ItemsOf(f, {"define"})}
<1>1. DefinedAnywhere = UNION {Of(f) : f \in Loaded}
  BY DEF DefinedAnywhere
<1>2. DefinedAnywhere' = UNION {Of(f) : f \in Loaded'}
  <2>1. crate' = crate
    BY WalkGrows DEF Grows
  <2>2. \A f, kinds : ItemsOf(f, kinds)' = ItemsOf(f, kinds)
    BY <2>1 DEF ItemsOf
  <2> QED BY <2>2 DEF DefinedAnywhere
<1> HIDE DEF Of
<1>3. CASE emitting' = emitting /\ Loaded' = Loaded
  BY <1>1, <1>2, <1>3 DEF Defines
<1>4. CASE UNCHANGED vars \/ Settles
  BY <1>3, <1>4, StandingStill DEF vars, Settles
<1>5. CASE \E p \in Pending : \E rest : Drops(p, rest)
  BY <1>3, <1>5, StandingStill DEF Drops
<1>6. ASSUME NEW p \in Pending, NEW rest, NEW site, Reads(p, rest, site)
      PROVE  Defines'
  <2>1. Loaded' = Loaded \cup {p.file}
    BY <1>6, ReadingLoads
  <2>2. CASE p.file \in Loaded
    BY <1>3, <1>6, <2>1, <2>2 DEF Reads
  <2>3. CASE p.file \notin Loaded
    <3>1. emitting' = emitting \cup Of(p.file)
      BY <1>6, <2>3 DEF Reads, Of
    <3> QED BY <1>1, <1>2, <2>1, <3>1 DEF Defines
  <2> QED BY <2>2, <2>3
<1> QED BY <1>4, <1>5, <1>6 DEF Walks

(* An edge stays an edge.                                                    *)
LEMMA GoesOn ==
  ASSUME Types, Types', Walks, Defines, Defines', NEW f, NEW t, NEW kinds, NEW free,
         Goes(f, t, kinds, free)
  PROVE  Goes(f, t, kinds, free)'
<1>1. /\ crate' = crate /\ f \in Loaded' /\ Rule(f)' = Rule(f)
      /\ DefinedAnywhere \subseteq DefinedAnywhere'
  BY WalkGrows DEF Grows, Goes, Defines
<1>2. ItemsOf(f, kinds)' = ItemsOf(f, kinds) /\ (Healthy(t)' <=> Healthy(t))
  BY <1>1 DEF ItemsOf, Healthy
<1>3. PICK i \in ItemsOf(f, kinds) : /\ free => ~ i.confined
                                     /\ i.kind = "invoke" => i.macro \in DefinedAnywhere
                                     /\ t = i.at[Rule(f)]
  BY DEF Goes
<1>4. Healthy(t)'
  BY <1>2 DEF Goes
<1> QED BY <1>1, <1>2, <1>3, <1>4 DEF Goes

-------------------------------------------------------------------------------
(* Nothing is reached that no chain of items leads to, and nothing cleared   *)
(* that no chain of unconfined ones does.                                    *)
All == Mods \cup Spliced \cup Emitted

Got(free) == IF free THEN Cleared ELSE Loaded

Counts(p, free) == free => ~ p.testOnly

Led(p, free) == p.file = Root \/ \E f \in Got(free) : Goes(f, p.file, All, free)

CallsFrom(f, c, free) ==
  \E i \in ItemsOf(f, Emitted) : /\ c.macro = i.macro /\ c.pending.file = i.at[Rule(f)]
                                 /\ free => ~ i.confined

Deserved(free) ==
  /\ \A p \in ToSet(queue) \cup ToSet(deferred) : Counts(p, free) /\ Healthy(p.file) => Led(p, free)
  /\ \A c \in ToSet(invocations) :
       Counts(c.pending, free) => \E f \in Got(free) : CallsFrom(f, c, free)
  /\ Got(free) \subseteq Closure({Root}, Edges(All, free))

(* What was led to still is.                                                 *)
LEMMA LedStays ==
  ASSUME Types, Types', Walks, Defines, Defines', NEW free \in BOOLEAN
  PROVE  /\ Got(free) \subseteq Got(free)' /\ Got(free) \subseteq Loaded
         /\ \A p : Led(p, free) => Led(p, free)'
         /\ \A c : \A f \in Got(free) : CallsFrom(f, c, free) => f \in Got(free)' /\ CallsFrom(f, c, free)'
         /\ Closure({Root}, Edges(All, free)) \subseteq Closure({Root}, Edges(All, free))'
<1>1. /\ Got(free) \subseteq Got(free)' /\ Got(free) \subseteq Loaded
  BY WalkGrows, LoadedOnce DEF Grows, Got, Indexed
<1>2. \A p : Led(p, free) => Led(p, free)'
  BY <1>1, GoesOn DEF Led
<1>3. ASSUME NEW c, NEW f \in Got(free), CallsFrom(f, c, free)
      PROVE  f \in Got(free)' /\ CallsFrom(f, c, free)'
  <2>1. /\ Rule(f)' = Rule(f) /\ ItemsOf(f, Emitted)' = ItemsOf(f, Emitted) /\ f \in Got(free)'
    BY <1>1, WalkGrows DEF Grows, ItemsOf, Emitted
  <2> QED BY <1>3, <2>1 DEF CallsFrom
<1>4. Closure({Root}, Edges(All, free)) \subseteq Closure({Root}, Edges(All, free))'
  <2>1. Edges(All, free) \subseteq Edges(All, free)'
    <3>1. ASSUME NEW e \in Edges(All, free) PROVE e \in Edges(All, free)'
      <4>1. e = <<e[1], e[2]>>
        BY DEF Edges
      <4>2. Goes(e[1], e[2], All, free)
        BY EdgesAre DEF EdgesMatch
      <4>3. Goes(e[1], e[2], All, free)'
        BY <4>2, GoesOn
      <4>4. EdgesMatch'
        BY EdgesAre, PTL
      <4> QED BY <4>1, <4>3, <4>4 DEF EdgesMatch
    <3> QED BY <3>1
  <2> DEFINE old == Edges(All, free)
             new == Edges(All, free)'
  <2>2. Closure({Root}, old) \subseteq Closure({Root}, new)
    <3> HIDE DEF old, new
    <3>1. old \subseteq new
      BY <2>1 DEF old, new
    <3> QED BY <3>1, ClosureGrows
  <2> QED BY <2>2 DEF Closure
<1> QED BY <1>1, <1>2, <1>3, <1>4

(* What a reading adds to what waits, and to the invocations.                *)
Adds(f, site) ==
  /\ \A q \in DeclsOf(f, site) :
       \E i \in ItemsOf(f, Mods) : /\ q = Following(i, site) /\ i.kind = "mod" /\ i \in Item
                                   /\ q.file = i.at[site.isModRoot] /\ q.depth = site.depth
                                   /\ q.testOnly <=> site.testOnly \/ i.confined
                                   /\ q.module = site.module \o i.within \o <<i.name>>
  /\ \A q \in SplicesOf(f, site) :
       \E i \in ItemsOf(f, Spliced) : /\ q = Following(i, site) /\ i.kind # "invoke" /\ i \in Item
                                      /\ q.file = i.at[site.isModRoot]
                                      /\ q.depth \in Nat /\ q.depth <= site.depth + 1
                                      /\ q.testOnly <=> site.testOnly \/ i.confined
  /\ \A c \in CallsOf(f, site) :
       \E i \in ItemsOf(f, Emitted) : /\ c = Call(i, site) /\ i.kind = "invoke" /\ i \in Item
                                      /\ c.macro = i.macro /\ c.pending.file = i.at[site.isModRoot]
                                      /\ c.pending.depth = site.depth
                                      /\ c.probe = IsOnDisk(c.pending.file)
                                      /\ c.pending.testOnly <=> site.testOnly \/ i.confined

(* It adds just that, well typed.                                            *)
LEMMA AddedIs == ASSUME Types, NEW f \in Files, NEW site, IsSite(site) PROVE Adds(f, site)
<1>1. \A kinds : \A i \in ItemsOf(f, kinds) : i \in Item /\ i.kind \in kinds
  BY ItemsAreItems DEF ItemsOf, Types
<1>2. ASSUME NEW i
      PROVE  /\ Following(i, site).file = i.at[site.isModRoot]
             /\ Following(i, site).testOnly = (site.testOnly \/ i.confined)
             /\ Following(i, site).depth = IF i.kind = "include" THEN site.depth + 1 ELSE site.depth
             /\ i.kind # "include" =>
                  Following(i, site).module = site.module \o i.within \o <<i.name>>
  BY DEF Following
<1>3. ASSUME NEW q \in DeclsOf(f, site)
      PROVE  \E i \in ItemsOf(f, Mods) : /\ q = Following(i, site) /\ i.kind = "mod" /\ i \in Item
                                         /\ q.file = i.at[site.isModRoot] /\ q.depth = site.depth
                                         /\ q.testOnly <=> site.testOnly \/ i.confined
                                         /\ q.module = site.module \o i.within \o <<i.name>>
  <2>1. PICK i \in ItemsOf(f, Mods) : q = Following(i, site)
    BY DEF DeclsOf
  <2>2. i.kind = "mod" /\ i \in Item
    BY <1>1 DEF Mods
  <2> QED BY <1>2, <2>1, <2>2
<1>4. ASSUME NEW q \in SplicesOf(f, site)
      PROVE  \E i \in ItemsOf(f, Spliced) : /\ q = Following(i, site) /\ i.kind # "invoke" /\ i \in Item
                                            /\ q.file = i.at[site.isModRoot]
                                            /\ q.depth \in Nat /\ q.depth <= site.depth + 1
                                            /\ q.testOnly <=> site.testOnly \/ i.confined
  <2>1. PICK i \in ItemsOf(f, Spliced) : q = Following(i, site)
    BY DEF SplicesOf
  <2>2. i.kind # "invoke" /\ i \in Item
    BY <1>1 DEF Spliced
  <2>3. q.depth \in Nat /\ q.depth <= site.depth + 1
    <3>1. q.depth = IF i.kind = "include" THEN site.depth + 1 ELSE site.depth
      BY <1>2, <2>1
    <3>2. site.depth \in Nat
      BY DepthIsANumber DEF IsSite
    <3> QED BY <3>1, <3>2
  <2> QED BY <1>2, <2>1, <2>2, <2>3
<1>5. ASSUME NEW c \in CallsOf(f, site)
      PROVE  \E i \in ItemsOf(f, Emitted) : /\ c = Call(i, site) /\ i.kind = "invoke" /\ i \in Item
                                            /\ c.macro = i.macro /\ c.pending.file = i.at[site.isModRoot]
                                            /\ c.pending.depth = site.depth
                                            /\ c.probe = IsOnDisk(c.pending.file)
                                            /\ c.pending.testOnly <=> site.testOnly \/ i.confined
  <2>1. PICK i \in ItemsOf(f, Emitted) : c = Call(i, site)
    BY DEF CallsOf
  <2>2. i.kind = "invoke" /\ i \in Item
    BY <1>1 DEF Emitted
  <2>3. /\ c.macro = i.macro /\ c.probe = IsOnDisk(i.at[site.isModRoot])
        /\ c.pending = Following(i, site)
    BY <2>1 DEF Call
  <2> QED BY <1>2, <2>1, <2>2, <2>3
<1> QED BY <1>3, <1>4, <1>5 DEF Adds

(* A reading leads only where the file's items do.                           *)
LEMMA ReadingDeserves ==
  ASSUME Types, Types', Walks, Defines, Defines', NEW free \in BOOLEAN, Deserved(free),
         NEW p \in Pending, NEW rest \in SUBSET Pending, NEW site, Reads(p, rest, site)
  PROVE  Deserved(free)'
<1> DEFINE f == p.file
<1>1. /\ f \in Files /\ Loaded' = Loaded \cup {f} /\ Rule(f)' = site.isModRoot
      /\ Cleared' = Cleared \cup (IF p.testOnly THEN {} ELSE {f}) /\ p.testOnly \in BOOLEAN
  BY ReadingLoads
<1>2. /\ crate' = crate /\ ToSet(queue) = rest \cup {p}
      /\ ToSet(queue') = rest \cup DeclsOf(f, site)
      /\ ToSet(deferred') = ToSet(deferred) \cup SplicesOf(f, site)
      /\ IsSite(site) /\ site.testOnly = p.testOnly /\ Healthy(f)
      /\ \A c \in ToSet(invocations') : c \in ToSet(invocations) \/ c \in CallsOf(f, site)
  BY <1>1 DEF Reads, Pops, Healthy
<1> HIDE DEF f
<1>3. /\ Got(free) \subseteq Got(free)'
      /\ Counts(p, free) => Got(free)' = Got(free) \cup {f}
      /\ ~ Counts(p, free) => Got(free)' = Got(free)
  BY <1>1 DEF Got, Counts
<1>4. /\ \A kinds : ItemsOf(f, kinds)' = ItemsOf(f, kinds) /\ \A t : Healthy(t)' <=> Healthy(t)
  BY <1>2 DEF ItemsOf, Healthy
<1>11. Adds(f, site)
  BY <1>1, <1>2, AddedIs
<1>5. ASSUME NEW q, NEW kinds \in SUBSET (Mods \cup Spliced), NEW i \in ItemsOf(f, kinds), i.kind # "invoke",
             q.file = i.at[site.isModRoot], q.testOnly <=> site.testOnly \/ i.confined,
             Counts(q, free), Healthy(q.file)
      PROVE  Led(q, free)'
  <2>1. Counts(p, free) /\ (free => ~ i.confined)
    BY <1>2, <1>5 DEF Counts
  <2>2. i \in ItemsOf(f, All)'
    BY <1>4 DEF ItemsOf, All
  <2>3. f \in Got(free)' /\ f \in Loaded' /\ Healthy(q.file)'
    BY <1>1, <1>3, <1>4, <1>5, <2>1
  <2>4. Goes(f, q.file, All, free)'
    BY <1>1, <1>5, <2>1, <2>2, <2>3 DEF Goes
  <2> QED BY <2>3, <2>4 DEF Led
<1>6. ASSUME NEW q \in ToSet(queue') \cup ToSet(deferred'), Counts(q, free), Healthy(q.file)
      PROVE  Led(q, free)'
  <2>1. CASE q \in ToSet(queue) \cup ToSet(deferred)
    BY <1>6, <2>1, LedStays DEF Deserved
  <2>2. CASE q \in DeclsOf(f, site)
    <3>1. PICK i \in ItemsOf(f, Mods) : /\ i.kind = "mod" /\ q.file = i.at[site.isModRoot]
                                        /\ q.testOnly <=> site.testOnly \/ i.confined
      BY <1>11, <2>2 DEF Adds
    <3> QED BY <1>5, <1>6, <3>1
  <2>3. CASE q \in SplicesOf(f, site)
    <3>1. PICK i \in ItemsOf(f, Spliced) : /\ i.kind # "invoke" /\ q.file = i.at[site.isModRoot]
                                           /\ q.testOnly <=> site.testOnly \/ i.confined
      BY <1>11, <2>3 DEF Adds
    <3> QED BY <1>5, <1>6, <3>1
  <2> QED BY <1>2, <1>6, <2>1, <2>2, <2>3
<1>7. ASSUME NEW c \in ToSet(invocations'), Counts(c.pending, free)
      PROVE  \E g \in Got(free)' : CallsFrom(g, c, free)'
  <2>1. CASE c \in ToSet(invocations)
    BY <1>7, <2>1, LedStays DEF Deserved
  <2>2. CASE c \in CallsOf(f, site)
    <3>1. PICK i \in ItemsOf(f, Emitted) : /\ c.macro = i.macro /\ c.pending.file = i.at[site.isModRoot]
                                           /\ c.pending.testOnly <=> site.testOnly \/ i.confined
      BY <1>11, <2>2 DEF Adds
    <3>2. Counts(p, free) /\ (free => ~ i.confined)
      BY <1>2, <1>7, <3>1 DEF Counts
    <3>3. f \in Got(free)' /\ i \in ItemsOf(f, Emitted)'
      BY <1>3, <1>4, <3>2
    <3>4. CallsFrom(f, c, free)'
      <4>1. Emitted' = Emitted
        BY DEF Emitted
      <4> QED BY <1>1, <3>1, <3>2, <3>3, <4>1 DEF CallsFrom
    <3> QED BY <3>3, <3>4
  <2> QED BY <1>2, <1>7, <2>1, <2>2
<1>8. Got(free)' \subseteq Closure({Root}, Edges(All, free))'
  <2> DEFINE C == Closure({Root}, Edges(All, free))
  <2>1. Got(free) \subseteq C /\ C \subseteq C'
    BY LedStays DEF Deserved
  <2>2. ASSUME Counts(p, free) PROVE f \in C
    <3>1. Led(p, free)
      BY <1>2, <2>2 DEF Deserved, f
    <3>2. /\ Root \in C
          /\ \A e \in Edges(All, free) : e[1] \in C /\ e[2] \in Files => e[2] \in C
      BY ClosureIs, RootIsAFile
    <3>3. CASE f = Root
      BY <3>2, <3>3
    <3>4. ASSUME NEW g \in Got(free), Goes(g, f, All, free) PROVE f \in C
      <4>1. <<g, f>> \in Edges(All, free) /\ g \in C
        BY <2>1, <3>4, EdgesAre DEF EdgesMatch
      <4> HIDE DEF C
      <4> QED BY <1>1, <3>2, <4>1
    <3> QED BY <3>1, <3>3, <3>4 DEF Led, f
  <2> HIDE DEF C
  <2>3. Got(free)' \subseteq C'
    BY <1>3, <2>1, <2>2
  <2> QED BY <2>3 DEF C
<1> QED BY <1>4, <1>6, <1>7, <1>8 DEF Deserved, Counts

(* Taking up what waits leads nowhere else.                                  *)
LEMMA SettlingDeserves ==
  ASSUME Types, Types', Walks, Defines, Defines', NEW free \in BOOLEAN, Deserved(free), Settles
  PROVE  Deserved(free)'
<1>1. /\ loaded' = loaded /\ crate' = crate /\ emitting' = emitting
      /\ ToSet(deferred') = {}
      /\ ToSet(queue') = ToSet(deferred) \cup
           {c.pending : c \in {d \in ToSet(invocations) : d.macro \in emitting /\ d.probe}}
      /\ ToSet(invocations') \subseteq ToSet(invocations)
  BY ToSetOfNothing DEF Settles, Types
<1>2. Got(free)' = Got(free) /\ \A t : Healthy(t)' <=> Healthy(t)
  BY <1>1, StandingStill DEF Got, Healthy
<1>3. ASSUME NEW q \in ToSet(queue') \cup ToSet(deferred'), Counts(q, free), Healthy(q.file)
      PROVE  Led(q, free)'
  <2>1. CASE q \in ToSet(deferred)
    BY <1>3, <2>1, LedStays DEF Deserved
  <2>2. ASSUME NEW c \in ToSet(invocations), c.macro \in emitting, q = c.pending
        PROVE  Led(q, free)
    <3>1. PICK f \in Got(free) : CallsFrom(f, c, free)
      BY <1>3, <2>2 DEF Deserved
    <3>2. PICK i \in ItemsOf(f, Emitted) : /\ c.macro = i.macro /\ q.file = i.at[Rule(f)]
                                           /\ free => ~ i.confined
      BY <2>2, <3>1 DEF CallsFrom
    <3>3. i \in ItemsOf(f, All) /\ i.macro \in DefinedAnywhere /\ f \in Loaded
      BY <2>2, <3>2, LedStays DEF ItemsOf, All, Defines
    <3>4. Goes(f, q.file, All, free)
      BY <1>3, <3>2, <3>3 DEF Goes
    <3> QED BY <3>4 DEF Led
  <2> QED BY <1>1, <1>3, <2>1, <2>2, LedStays
<1>4. ASSUME NEW c \in ToSet(invocations'), Counts(c.pending, free)
      PROVE  \E g \in Got(free)' : CallsFrom(g, c, free)'
  BY <1>1, <1>4, LedStays DEF Deserved
<1>5. Got(free)' \subseteq Closure({Root}, Edges(All, free))'
  BY <1>2, LedStays DEF Deserved
<1> QED BY <1>2, <1>3, <1>4, <1>5 DEF Deserved, Counts

(* So does dropping a file.                                                  *)
LEMMA DroppingDeserves ==
  ASSUME Types, Types', Walks, Defines, Defines', NEW free \in BOOLEAN, Deserved(free),
         crate' = crate, loaded' = loaded, invocations' = invocations, deferred' = deferred,
         ToSet(queue') \subseteq ToSet(queue)
  PROVE  Deserved(free)'
<1>1. Got(free)' = Got(free) /\ \A t : Healthy(t)' <=> Healthy(t)
  BY StandingStill DEF Got, Healthy
<1>2. ASSUME NEW q \in ToSet(queue') \cup ToSet(deferred'), Counts(q, free), Healthy(q.file)
      PROVE  Led(q, free)'
  BY <1>2, LedStays DEF Deserved
<1>3. ASSUME NEW c \in ToSet(invocations'), Counts(c.pending, free)
      PROVE  \E g \in Got(free)' : CallsFrom(g, c, free)'
  BY <1>3, LedStays DEF Deserved
<1>4. Got(free)' \subseteq Closure({Root}, Edges(All, free))'
  BY <1>1, LedStays DEF Deserved
<1> QED BY <1>1, <1>2, <1>3, <1>4 DEF Deserved, Counts

(* What is reached, and what is cleared, is so for a reason, at every step.  *)
LEMMA DeservedStep ==
  ASSUME Types, Types', Walks, Defines, Defines', NEW free \in BOOLEAN, Deserved(free)
  PROVE  Deserved(free)'
<1>1. CASE UNCHANGED vars
  BY <1>1, DroppingDeserves DEF vars
<1>2. CASE Settles
  BY <1>2, SettlingDeserves
<1>3. ASSUME NEW p \in Pending, NEW rest \in SUBSET Pending, Drops(p, rest)
      PROVE  Deserved(free)'
  <2>1. /\ crate' = crate /\ loaded' = loaded /\ invocations' = invocations /\ deferred' = deferred
        /\ ToSet(queue') \subseteq ToSet(queue)
    BY <1>3 DEF Drops, Pops
  <2> QED BY <2>1, DroppingDeserves
<1>4. ASSUME NEW p \in Pending, NEW rest \in SUBSET Pending, NEW site, Reads(p, rest, site)
      PROVE  Deserved(free)'
  BY <1>4, ReadingDeserves
<1> QED BY <1>1, <1>2, <1>3, <1>4 DEF Walks

-------------------------------------------------------------------------------
(* The walk goes by rounds: what a round holds back, the next one follows.   *)
(* A file's rank is the round that reached it, or cleared it, and no chain   *)
(* of items is longer, in `include!`s, than the rounds it took.              *)
Waiting(S, t, free) == \E q \in S : q.file = t /\ Counts(q, free)

Met(t, k, rank, free) == t \in Got(free) /\ rank[t] <= k

ShallowAt(r) ==
  /\ \A q \in ToSet(queue) : q.depth <= r
  /\ \A q \in ToSet(deferred) : q.depth <= r + 1
  /\ \A c \in ToSet(invocations) : c.pending.depth <= r

Onwards(f, r, rank, free) ==
  /\ \A t : Goes(f, t, Mods, free) =>
       Met(t, rank[f], rank, free) \/ (rank[f] = r /\ Waiting(ToSet(queue), t, free))
  /\ \A t : Goes(f, t, Spliced, free) /\ rank[f] < MaxIncludeDepth =>
       \/ Met(t, rank[f] + 1, rank, free)
       \/ rank[f] = r /\ Waiting(ToSet(deferred), t, free)
       \/ rank[f] + 1 = r /\ Waiting(ToSet(queue), t, free)

RankedBy(r, rank, free) ==
  /\ \A f \in Got(free) : rank[f] <= r /\ Onwards(f, r, rank, free)
  /\ Healthy(Root) => Met(Root, 0, rank, free) \/ (r = 0 /\ Waiting(ToSet(queue), Root, free))
  /\ ShallowAt(r)

Ranked(free) == \E r \in Nat : \E rank \in [Files -> Nat] : RankedBy(r, rank, free)

(* A file's own items, apart from its invocations, lead where they did.      *)
LEMMA GoesBack ==
  ASSUME Types, Types', Walks, NEW f \in Loaded, NEW t, NEW kinds \in {Mods, Spliced}, NEW free,
         Goes(f, t, kinds, free)'
  PROVE  Goes(f, t, kinds, free)
<1>1. crate' = crate /\ Rule(f)' = Rule(f)
  BY WalkGrows DEF Grows
<1>2. /\ ItemsOf(f, kinds)' = ItemsOf(f, kinds) /\ (Healthy(t)' <=> Healthy(t))
      /\ \A i \in ItemsOf(f, kinds) : i.kind # "invoke"
  BY <1>1 DEF ItemsOf, Healthy, Mods, Spliced
<1>3. PICK i \in ItemsOf(f, kinds) : (free => ~ i.confined) /\ t = i.at[Rule(f)]
  BY <1>1, <1>2 DEF Goes
<1>4. Healthy(t)
  BY <1>2 DEF Goes
<1> QED BY <1>2, <1>3, <1>4 DEF Goes

(* Popping one file answers what waited for it, and what waited for others   *)
(* waits on.                                                                 *)
LEMMA PoppingRanks ==
  ASSUME Types, Types', Walks, NEW free \in BOOLEAN,
         NEW r \in Nat, NEW rank \in [Files -> Nat], NEW rank2 \in [Files -> Nat], RankedBy(r, rank, free),
         NEW p \in Pending, NEW rest, ToSet(queue) = rest \cup {p},
         rest \subseteq ToSet(queue'), ToSet(deferred) \subseteq ToSet(deferred'),
         Got(free) \subseteq Got(free)', \A g \in Got(free) : rank2[g] = rank[g],
         \A g \in Got(free)' : g \in Files /\ rank2[g] <= r,
         Counts(p, free) /\ Healthy(p.file) => p.file \in Got(free)',
         \A g \in Got(free)' \ Got(free) : Onwards(g, r, rank2, free)',
         ShallowAt(r)'
  PROVE  RankedBy(r, rank2, free)'
<1>1. \A t : \A k \in Nat : Met(t, k, rank, free) => Met(t, k, rank2, free)'
  BY DEF Met
<1>2. ASSUME NEW t, Healthy(t), Waiting(ToSet(queue), t, free)
      PROVE  Met(t, r, rank2, free)' \/ Waiting(ToSet(queue'), t, free)
  <2>1. PICK q \in ToSet(queue) : q.file = t /\ Counts(q, free)
    BY <1>2 DEF Waiting
  <2>2. CASE q \in rest
    BY <2>1, <2>2 DEF Waiting
  <2>3. CASE q = p
    BY <1>2, <2>1, <2>3 DEF Met
  <2> QED BY <2>1, <2>2, <2>3
<1>3. \A t : Waiting(ToSet(deferred), t, free) => Waiting(ToSet(deferred'), t, free)
  BY DEF Waiting
<1>4. Got(free) \subseteq Loaded /\ \A t : Healthy(t)' <=> Healthy(t)
  BY LoadedOnce, WalkGrows DEF Got, Indexed, Grows, Healthy
<1>6. ASSUME NEW f \in Got(free) PROVE Onwards(f, r, rank2, free)'
  <2>1. /\ Onwards(f, r, rank, free) /\ f \in Loaded
        /\ rank2[f] = rank[f] /\ f \in Files /\ rank[f] \in Nat /\ rank[f] <= r
    BY <1>4 DEF RankedBy
  <2>2. ASSUME NEW t, Goes(f, t, Mods, free)'
        PROVE  Met(t, rank2[f], rank2, free)' \/ (rank2[f] = r /\ Waiting(ToSet(queue'), t, free))
    <3>1. Goes(f, t, Mods, free) /\ Healthy(t)
      BY <2>1, <2>2, GoesBack DEF Goes
    <3>2. CASE Met(t, rank[f], rank, free)
      BY <1>1, <2>1, <3>2
    <3>3. CASE rank[f] = r /\ Waiting(ToSet(queue), t, free)
      BY <1>2, <2>1, <3>1, <3>3
    <3> QED BY <2>1, <3>1, <3>2, <3>3 DEF Onwards
  <2>3. ASSUME NEW t, Goes(f, t, Spliced, free)', rank2[f] < MaxIncludeDepth
        PROVE  \/ Met(t, rank2[f] + 1, rank2, free)'
               \/ rank2[f] = r /\ Waiting(ToSet(deferred'), t, free)
               \/ rank2[f] + 1 = r /\ Waiting(ToSet(queue'), t, free)
    <3>1. Goes(f, t, Spliced, free) /\ Healthy(t)
      BY <2>1, <2>3, GoesBack DEF Goes
    <3>2. CASE Met(t, rank[f] + 1, rank, free)
      BY <1>1, <2>1, <3>2
    <3>3. CASE rank[f] = r /\ Waiting(ToSet(deferred), t, free)
      BY <1>3, <2>1, <3>3
    <3>4. CASE rank[f] + 1 = r /\ Waiting(ToSet(queue), t, free)
      BY <1>2, <2>1, <3>1, <3>4
    <3> QED BY <2>1, <2>3, <3>1, <3>2, <3>3, <3>4 DEF Onwards
  <2> QED BY <2>2, <2>3 DEF Onwards, Waiting, Counts
<1>7. Healthy(Root)' => Met(Root, 0, rank2, free)' \/ (r = 0 /\ Waiting(ToSet(queue'), Root, free))
  BY <1>1, <1>2, <1>4 DEF RankedBy
<1> QED BY <1>6, <1>7 DEF RankedBy, Waiting, Counts

(* A reading puts its file in this round, and what it declares after it.     *)
LEMMA ReadingRanks ==
  ASSUME Types, Types', Walks, Defines, Defines', NEW free \in BOOLEAN, Ranked(free),
         NEW p \in Pending, NEW rest \in SUBSET Pending, NEW site, Reads(p, rest, site)
  PROVE  Ranked(free)'
<1> DEFINE f == p.file
<1>1. /\ f \in Files /\ Loaded' = Loaded \cup {f} /\ Rule(f)' = site.isModRoot
      /\ Cleared' = Cleared \cup (IF p.testOnly THEN {} ELSE {f}) /\ p.testOnly \in BOOLEAN
      /\ p.depth \in Nat
  BY ReadingLoads, DepthIsANumber
<1>2. /\ crate' = crate /\ ToSet(queue) = rest \cup {p}
      /\ ToSet(queue') = rest \cup DeclsOf(f, site)
      /\ ToSet(deferred') = ToSet(deferred) \cup SplicesOf(f, site)
      /\ IsSite(site) /\ site.testOnly = p.testOnly /\ site.depth = p.depth /\ Healthy(f)
      /\ \A c \in ToSet(invocations') : c \in ToSet(invocations) \/ c \in CallsOf(f, site)
      /\ f \notin Cleared
  <2>1. Cleared \subseteq Loaded
    BY LoadedOnce DEF Indexed
  <2> QED BY <1>1, <2>1 DEF Reads, Pops, Healthy
<1> HIDE DEF f
<1>3. Adds(f, site)
  BY <1>1, <1>2, AddedIs
<1>4. PICK r \in Nat, rank \in [Files -> Nat] : RankedBy(r, rank, free)
  BY DEF Ranked
<1>5. PICK rank2 \in [Files -> Nat] :
        /\ rank2[f] <= r /\ (f \notin Got(free) => rank2[f] = r)
        /\ \A g \in Got(free) : rank2[g] = rank[g]
  <2> DEFINE new == IF f \in Got(free) THEN rank ELSE [rank EXCEPT ![f] = r]
  <2>1. Got(free) \subseteq Files
    BY LoadedOnce DEF Got, Indexed
  <2>2. /\ new \in [Files -> Nat] /\ new[f] <= r /\ (f \notin Got(free) => new[f] = r)
        /\ \A g \in Got(free) : new[g] = rank[g]
    BY <1>1, <1>4, <2>1 DEF RankedBy
  <2> HIDE DEF new
  <2> QED BY <2>2
<1>6. /\ Got(free) \subseteq Got(free)'
      /\ Counts(p, free) => Got(free)' = Got(free) \cup {f}
      /\ ~ Counts(p, free) => Got(free)' = Got(free)
  BY <1>1 DEF Got, Counts
<1>7. \A g \in Got(free)' : g \in Files /\ rank2[g] <= r
  <2>1. Got(free) \subseteq Files /\ \A g \in Got(free) : rank[g] <= r
    BY <1>4, LoadedOnce DEF RankedBy, Got, Indexed
  <2> QED BY <1>1, <1>5, <1>6, <2>1
<1>8. p.depth <= r /\ site.depth \in Nat
  BY <1>1, <1>2, <1>4 DEF RankedBy, ShallowAt
<1>9. ShallowAt(r)'
  <2>1. \A q \in ToSet(queue') : q.depth <= r
    <3>1. \A q \in rest : q.depth <= r
      BY <1>2, <1>4 DEF RankedBy, ShallowAt
    <3>2. \A q \in DeclsOf(f, site) : q.depth = site.depth
      BY <1>3 DEF Adds
    <3> QED BY <1>2, <1>8, <3>1, <3>2
  <2>2. \A q \in ToSet(deferred') : q.depth <= r + 1
    <3>1. \A q \in ToSet(deferred) : q.depth <= r + 1
      BY <1>4 DEF RankedBy, ShallowAt
    <3>2. \A q \in SplicesOf(f, site) : q.depth \in Nat /\ q.depth <= site.depth + 1
      BY <1>3 DEF Adds
    <3> QED BY <1>2, <1>8, <3>1, <3>2
  <2>3. \A c \in ToSet(invocations') : c.pending.depth <= r
    <3>1. \A c \in ToSet(invocations) : c.pending.depth <= r
      BY <1>4 DEF RankedBy, ShallowAt
    <3>2. \A c \in CallsOf(f, site) : c.pending.depth = site.depth
      BY <1>3 DEF Adds
    <3> QED BY <1>2, <1>8, <3>1, <3>2
  <2> QED BY <2>1, <2>2, <2>3 DEF ShallowAt
<1>10. \A g \in Got(free)' \ Got(free) : Onwards(g, r, rank2, free)'
  <2>1. SUFFICES ASSUME f \in Got(free)', f \notin Got(free)
                 PROVE  Onwards(f, r, rank2, free)'
    BY <1>6
  <2>2. rank2[f] = r /\ Counts(p, free)
    BY <1>5, <1>6, <2>1
  <2>3. ASSUME NEW t, NEW kinds \in {Mods, Spliced}, Goes(f, t, kinds, free)'
        PROVE  \E i \in ItemsOf(f, kinds) :
                 /\ i \in Item /\ IsOnDisk(i.at[site.isModRoot])
                 /\ Following(i, site).file = t /\ Counts(Following(i, site), free)
    <3>1. ItemsOf(f, kinds)' = ItemsOf(f, kinds) /\ ItemsOf(f, kinds) \subseteq Item
      BY <1>1, <1>2, ItemsAreItems DEF ItemsOf, Types
    <3>2. PICK i \in ItemsOf(f, kinds) : (free => ~ i.confined) /\ t = i.at[Rule(f)']
      <4>1. \E i \in ItemsOf(f, kinds)' : (free => ~ i.confined) /\ t = i.at[Rule(f)']
        BY <2>3 DEF Goes
      <4> QED BY <3>1, <4>1
    <3>3. t \in Files
      BY <2>3 DEF Goes, Healthy
    <3>4. /\ Following(i, site).file = i.at[site.isModRoot]
          /\ Following(i, site).testOnly = (site.testOnly \/ i.confined)
      BY DEF Following
    <3>5. Counts(Following(i, site), free)
      BY <1>2, <2>2, <3>2, <3>4 DEF Counts
    <3> QED BY <1>1, <3>1, <3>2, <3>3, <3>4, <3>5 DEF IsOnDisk
  <2>4. ASSUME NEW t, Goes(f, t, Mods, free)' PROVE Waiting(ToSet(queue'), t, free)
    <3>1. PICK i \in ItemsOf(f, Mods) : /\ IsOnDisk(i.at[site.isModRoot])
                                        /\ Following(i, site).file = t /\ Counts(Following(i, site), free)
      BY <2>3, <2>4
    <3>2. Following(i, site) \in DeclsOf(f, site)
      BY <3>1 DEF DeclsOf
    <3> QED BY <1>2, <3>1, <3>2 DEF Waiting
  <2>5. ASSUME NEW t, Goes(f, t, Spliced, free)', r < MaxIncludeDepth
        PROVE  Waiting(ToSet(deferred'), t, free)
    <3>1. PICK i \in ItemsOf(f, Spliced) : /\ IsOnDisk(i.at[site.isModRoot])
                                           /\ Following(i, site).file = t /\ Counts(Following(i, site), free)
      BY <2>3, <2>5
    <3>2. site.depth < MaxIncludeDepth
      BY <1>2, <1>8, <2>5, DepthIsANumber
    <3>3. Following(i, site) \in SplicesOf(f, site)
      BY <3>1, <3>2 DEF SplicesOf
    <3> QED BY <1>2, <3>1, <3>3 DEF Waiting
  <2> QED BY <2>2, <2>4, <2>5 DEF Onwards, Waiting, Counts
<1>11. RankedBy(r, rank2, free)'
  <2>1. Counts(p, free) /\ Healthy(p.file) => p.file \in Got(free)'
    BY <1>6 DEF f
  <2>2. rest \subseteq ToSet(queue') /\ ToSet(deferred) \subseteq ToSet(deferred')
    BY <1>2
  <2> QED BY <1>2, <1>4, <1>5, <1>6, <1>7, <1>9, <1>10, <2>1, <2>2, PoppingRanks
<1> QED BY <1>11 DEF Ranked

(* A file dropped is one the round has met already, or that is not there.    *)
LEMMA DroppingRanks ==
  ASSUME Types, Types', Walks, Defines, Defines', NEW free \in BOOLEAN, Ranked(free),
         NEW p \in Pending, NEW rest \in SUBSET Pending, Drops(p, rest)
  PROVE  Ranked(free)'
<1>1. /\ crate' = crate /\ loaded' = loaded /\ ToSet(queue) = rest \cup {p}
      /\ ToSet(queue') = rest /\ deferred' = deferred /\ invocations' = invocations
      /\ crate.health[p.file] \notin {"sound", "broken"} \/ (p.file \in Loaded /\ (p.testOnly \/ p.file \in Cleared))
  BY DEF Drops, Pops
<1>2. Got(free)' = Got(free) /\ Got(free) \subseteq Files
  BY <1>1, StandingStill, LoadedOnce DEF Got, Indexed
<1>3. PICK r \in Nat, rank \in [Files -> Nat] : RankedBy(r, rank, free)
  BY DEF Ranked
<1>4. Counts(p, free) /\ Healthy(p.file) => p.file \in Got(free)'
  BY <1>1, <1>2 DEF Counts, Healthy, Got
<1>5. ShallowAt(r)'
  BY <1>1, <1>3 DEF RankedBy, ShallowAt
<1>6. \A g \in Got(free)' : g \in Files /\ rank[g] <= r
  BY <1>2, <1>3 DEF RankedBy
<1>7. RankedBy(r, rank, free)'
  <2>1. /\ rest \subseteq ToSet(queue') /\ ToSet(deferred) \subseteq ToSet(deferred')
        /\ \A g \in Got(free)' \ Got(free) : Onwards(g, r, rank, free)'
    BY <1>1, <1>2
  <2> QED BY <1>1, <1>2, <1>3, <1>4, <1>5, <1>6, <2>1, PoppingRanks
<1> QED BY <1>7 DEF Ranked

(* Taking up what waits begins the next round.                               *)
LEMMA SettlingRanks ==
  ASSUME Types, Types', Walks, Defines, Defines', NEW free \in BOOLEAN, Ranked(free), Settles
  PROVE  Ranked(free)'
<1>1. /\ loaded' = loaded /\ crate' = crate
      /\ ToSet(queue) = {} /\ ToSet(deferred') = {}
      /\ ToSet(queue') = ToSet(deferred) \cup
           {c.pending : c \in {d \in ToSet(invocations) : d.macro \in emitting /\ d.probe}}
      /\ ToSet(invocations') \subseteq ToSet(invocations)
  BY ToSetOfNothing DEF Settles, Types
<1>2. /\ Got(free)' = Got(free) /\ Got(free) \subseteq Files /\ Got(free) \subseteq Loaded
      /\ \A t : Healthy(t)' <=> Healthy(t)
  BY <1>1, StandingStill, LoadedOnce DEF Got, Indexed, Healthy
<1>3. PICK r \in Nat, rank \in [Files -> Nat] : RankedBy(r, rank, free)
  BY DEF Ranked
<1>4. \A t, k : Met(t, k, rank, free)' <=> Met(t, k, rank, free)
  BY <1>2 DEF Met
<1>5. \A t : ~ Waiting(ToSet(queue), t, free)
  BY <1>1 DEF Waiting
<1>6. \A t : Waiting(ToSet(deferred), t, free) => Waiting(ToSet(queue'), t, free)
  BY <1>1 DEF Waiting
<1>7. ASSUME NEW f \in Got(free) PROVE Onwards(f, r + 1, rank, free)' /\ rank[f] <= r + 1
  <2>1. /\ Onwards(f, r, rank, free) /\ f \in Loaded /\ f \in Files
        /\ rank[f] \in Nat /\ rank[f] <= r
    BY <1>2, <1>3 DEF RankedBy
  <2>2. ASSUME NEW t, Goes(f, t, Mods, free)' PROVE Met(t, rank[f], rank, free)'
    <3>1. Goes(f, t, Mods, free)
      BY <2>1, <2>2, GoesBack
    <3> QED BY <1>4, <1>5, <2>1, <3>1 DEF Onwards
  <2>3. ASSUME NEW t, Goes(f, t, Spliced, free)', rank[f] < MaxIncludeDepth
        PROVE  Met(t, rank[f] + 1, rank, free)' \/ (rank[f] + 1 = r + 1 /\ Waiting(ToSet(queue'), t, free))
    <3>1. Goes(f, t, Spliced, free)
      BY <2>1, <2>3, GoesBack
    <3>2. Met(t, rank[f] + 1, rank, free) \/ (rank[f] = r /\ Waiting(ToSet(deferred), t, free))
      BY <1>5, <2>1, <2>3, <3>1 DEF Onwards
    <3> QED BY <1>4, <1>6, <2>1, <3>2
  <2> QED BY <2>1, <2>2, <2>3 DEF Onwards, Waiting, Counts
<1>8. Healthy(Root)' => Met(Root, 0, rank, free)'
  BY <1>2, <1>3, <1>4, <1>5 DEF RankedBy
<1>9. ShallowAt(r + 1)'
  <2>1. /\ ToSet(queue') \subseteq Pending /\ ToSet(invocations') \subseteq Invocation
        /\ \A q \in Pending : q.depth \in Int
        /\ \A c \in Invocation : c.pending.depth \in Int
    <3>1. \A q \in Awaited : q.depth \in Int
      BY DepthIsANumber DEF Awaited
    <3>2. \A q \in Pending : q.depth \in Int
      BY DepthIsANumber DEF Pending
    <3> QED BY <3>1, <3>2, ToSetOfConcat DEF Types, Invocation
  <2>2. \A q \in ToSet(queue') : q.depth <= r + 1
    <3>1. ASSUME NEW c \in ToSet(invocations), c.pending \in Pending PROVE c.pending.depth <= r + 1
      BY <1>3, <2>1, <3>1 DEF RankedBy, ShallowAt
    <3>2. \A q \in ToSet(deferred) : q.depth <= r + 1
      BY <1>3 DEF RankedBy, ShallowAt
    <3> QED BY <1>1, <2>1, <3>1, <3>2
  <2>3. \A c \in ToSet(invocations') : c.pending.depth <= r + 1
    BY <1>1, <1>3, <2>1 DEF RankedBy, ShallowAt
  <2> QED BY <1>1, <2>2, <2>3 DEF ShallowAt
<1>10. RankedBy(r + 1, rank, free)'
  BY <1>2, <1>7, <1>8, <1>9 DEF RankedBy
<1>11. r + 1 \in Nat
  OBVIOUS
<1> QED BY <1>10, <1>11 DEF Ranked

(* So the rounds stand, whatever the step.                                   *)
LEMMA RankedStep ==
  ASSUME Types, Types', Walks, Defines, Defines', NEW free \in BOOLEAN, Ranked(free)
  PROVE  Ranked(free)'
<1>1. CASE UNCHANGED vars
  <2>1. /\ Got(free)' = Got(free) /\ crate' = crate /\ queue' = queue /\ deferred' = deferred
        /\ invocations' = invocations /\ Loaded' = Loaded /\ (\A g : Rule(g)' = Rule(g))
    BY <1>1, StandingStill DEF vars, Got
  <2>2. DefinedAnywhere' = DefinedAnywhere
    BY <1>1 DEF Defines, vars
  <2>3. \A f, t, kinds : Goes(f, t, kinds, free)' <=> Goes(f, t, kinds, free)
    BY <2>1, <2>2 DEF Goes, Healthy, ItemsOf
  <2>4. \A f, r, rank : Onwards(f, r, rank, free)' <=> Onwards(f, r, rank, free)
    BY <2>1, <2>3 DEF Onwards, Met, Waiting, Counts
  <2> QED BY <2>1, <2>4 DEF Ranked, RankedBy, Healthy, Met, Waiting, Counts, ShallowAt
<1>2. CASE Settles
  BY <1>2, SettlingRanks
<1>3. ASSUME NEW p \in Pending, NEW rest \in SUBSET Pending, Drops(p, rest) PROVE Ranked(free)'
  BY <1>3, DroppingRanks
<1>4. ASSUME NEW p \in Pending, NEW rest \in SUBSET Pending, NEW site, Reads(p, rest, site)
      PROVE  Ranked(free)'
  BY <1>4, ReadingRanks
<1> QED BY <1>1, <1>2, <1>3, <1>4 DEF Walks

-------------------------------------------------------------------------------
(* What so many splices reach, round by round.                               *)
LEMMA WithinIs ==
  ASSUME NEW n \in Nat, NEW free
  PROVE  \E reach : /\ Within(n, free) = reach[n]
                    /\ reach[0] = Closure({Root}, Edges(Mods, free))
                    /\ \A k \in 0..n : k # 0 =>
                         reach[k] = Closure(Onward(reach[k - 1], Edges(Spliced, free)), Edges(Mods, free))
<1> DEFINE A == Closure({Root}, Edges(Mods, free))
           F(S) == Closure(Onward(S, Edges(Spliced, free)), Edges(Mods, free))
           Steps(g, m) == g = [k \in 0..m |-> IF k = 0 THEN A ELSE F(g[k - 1])]
           reach == CHOOSE g : Steps(g, n)
           Bad == {m \in 0..n : ~ \E g : Steps(g, m)}
<1>1. Within(n, free) = reach[n]
  BY DEF Within
<1> HIDE DEF A, F
<1>2. 0 \notin Bad
  <2>1. Steps([k \in 0..0 |-> A], 0)
    OBVIOUS
  <2> QED BY <2>1
<1>3. ASSUME NEW m \in 1..n, m - 1 \notin Bad PROVE m \notin Bad
  <2>0. m - 1 \in 0..n
    OBVIOUS
  <2>1. PICK g : Steps(g, m - 1)
    <3> HIDE DEF Steps
    <3> QED BY <1>3, <2>0
  <2> DEFINE h == [k \in 0..m |-> IF k = m THEN F(g[m - 1]) ELSE g[k]]
  <2>2. \A k \in 0..(m - 1) : g[k] = IF k = 0 THEN A ELSE F(g[k - 1])
    BY <2>1
  <2>3. /\ DOMAIN h = 0..m /\ h[m] = F(g[m - 1])
        /\ \A k \in 0..(m - 1) : h[k] = g[k]
    OBVIOUS
  <2>4. \A k \in 0..m : h[k] = IF k = 0 THEN A ELSE F(h[k - 1])
    <3>1. \A k \in 0..m : k # m => k \in 0..(m - 1)
      OBVIOUS
    <3>2. \A k \in 0..m : k # 0 => k - 1 \in 0..(m - 1)
      OBVIOUS
    <3>3. m # 0
      OBVIOUS
    <3> HIDE DEF h
    <3> QED BY <2>2, <2>3, <3>1, <3>2, <3>3
  <2>5. Steps(h, m)
    <3>1. h = [k \in 0..m |-> h[k]]
      OBVIOUS
    <3> HIDE DEF h
    <3>2. [k \in 0..m |-> h[k]] = [k \in 0..m |-> IF k = 0 THEN A ELSE F(h[k - 1])]
      BY <2>4
    <3> QED BY <3>1, <3>2
  <2> QED BY <2>5
<1>4. Bad = {}
  <2>1. SUFFICES ASSUME Bad # {} PROVE FALSE
    OBVIOUS
  <2>2. PICK m \in Bad : \A l \in Bad : m <= l
    <3>1. Bad \in SUBSET Nat
      OBVIOUS
    <3> HIDE DEF Bad
    <3> QED BY <2>1, <3>1, LeastNumber
  <2>3. m \in 1..n /\ m - 1 \notin Bad
    <3> HIDE DEF Steps
    <3> QED BY <1>2, <2>2
  <2> QED BY <1>3, <2>2, <2>3
<1>5. Steps(reach, n)
  <2>1. n \in 0..n
    OBVIOUS
  <2>2. \E g : Steps(g, n)
    <3> HIDE DEF Steps
    <3> QED BY <1>4, <2>1
  <2> HIDE DEF Steps
  <2> QED BY <2>2
<1> HIDE DEF reach
<1>6. \A k \in 0..n : reach[k] = IF k = 0 THEN A ELSE F(reach[k - 1])
  BY <1>5
<1>7. 0 \in 0..n
  OBVIOUS
<1> QED BY <1>1, <1>6, <1>7 DEF A, F

(* When nothing waits, every round's files are there.                        *)
LEMMA RoundsReach ==
  ASSUME Types, NEW free \in BOOLEAN, Ranked(free), done, Healthy(Root)
  PROVE  Within(MaxIncludeDepth, free) \subseteq Got(free)
<1>1. PICK r \in Nat, rank \in [Files -> Nat] : RankedBy(r, rank, free)
  BY DEF Ranked
<1>2. \A t : ~ Waiting(ToSet(queue), t, free) /\ ~ Waiting(ToSet(deferred), t, free)
  BY ToSetOfNothing DEF Types, Waiting
<1> DEFINE n == MaxIncludeDepth
           By(k) == {f \in Got(free) : rank[f] <= k}
<1>3. Got(free) \subseteq Files /\ n \in Nat
  BY LoadedOnce, DepthIsANumber DEF Got, Indexed
<1>4. \A f \in Got(free) : /\ \A t : Goes(f, t, Mods, free) => t \in Got(free) /\ rank[t] <= rank[f]
                           /\ \A t : Goes(f, t, Spliced, free) /\ rank[f] < n =>
                                t \in Got(free) /\ rank[t] <= rank[f] + 1
  BY <1>1, <1>2 DEF RankedBy, Onwards, Met
<1>5. Root \in By(0)
  BY <1>1, <1>2 DEF RankedBy, Met
<1> HIDE DEF n
<1>6. ASSUME NEW k \in Nat, NEW S \in SUBSET By(k)
      PROVE  Closure(S, Edges(Mods, free)) \subseteq By(k)
  <2>1. \A e \in Edges(Mods, free) : e[1] \in By(k) => e[2] \in By(k)
    <3>1. ASSUME NEW e \in Edges(Mods, free), e[1] \in By(k) PROVE e[2] \in By(k)
      <4>1. Goes(e[1], e[2], Mods, free)
        BY EdgesAre DEF EdgesMatch
      <4>2. e[2] \in Got(free) /\ rank[e[2]] <= rank[e[1]] /\ rank[e[1]] <= k
        BY <1>4, <3>1, <4>1
      <4>3. rank[e[1]] \in Nat /\ rank[e[2]] \in Nat
        BY <1>3, <3>1, <4>2
      <4> QED BY <4>2, <4>3
    <3> QED BY <3>1
  <2>2. By(k) \in SUBSET Files /\ S \in SUBSET Files
    BY <1>3
  <2> HIDE DEF By
  <2> QED BY <2>1, <2>2, ClosureIs
<1>7. ASSUME NEW k \in Nat, k < n, NEW S \in SUBSET By(k)
      PROVE  Onward(S, Edges(Spliced, free)) \subseteq By(k + 1)
  <2>1. ASSUME NEW e \in Edges(Spliced, free), e[1] \in By(k) PROVE e[2] \in By(k + 1)
    <3>1. Goes(e[1], e[2], Spliced, free)
      BY EdgesAre DEF EdgesMatch
    <3>2. e[1] \in Files /\ rank[e[1]] \in Nat /\ rank[e[1]] <= k
      BY <1>3, <2>1
    <3>3. rank[e[1]] < n
      BY <1>3, <1>7, <3>2
    <3>4. e[2] \in Got(free) /\ rank[e[2]] <= rank[e[1]] + 1
      BY <1>4, <2>1, <3>1, <3>3
    <3>5. rank[e[2]] \in Nat
      BY <1>3, <3>4
    <3> QED BY <3>2, <3>4, <3>5
  <2>2. By(k) \subseteq By(k + 1)
    BY <1>3
  <2> HIDE DEF By
  <2> QED BY <2>1, <2>2 DEF Onward
<1> HIDE DEF By
<1>8. PICK reach : /\ Within(n, free) = reach[n]
                   /\ reach[0] = Closure({Root}, Edges(Mods, free))
                   /\ \A k \in 0..n : k # 0 =>
                        reach[k] = Closure(Onward(reach[k - 1], Edges(Spliced, free)), Edges(Mods, free))
  BY <1>3, WithinIs
<1> DEFINE Bad == {k \in 0..n : ~ (reach[k] \subseteq By(k))}
<1>9. 0 \notin Bad
  BY <1>5, <1>6, <1>8
<1>10. ASSUME NEW k \in 1..n, k - 1 \notin Bad PROVE k \notin Bad
  <2>1. k - 1 \in 0..n /\ k - 1 \in Nat /\ k - 1 < n /\ (k - 1) + 1 = k /\ k \in 0..n /\ k # 0 /\ k \in Nat
    BY <1>3
  <2>2. reach[k - 1] \in SUBSET By(k - 1)
    BY <1>10, <2>1
  <2>3. Onward(reach[k - 1], Edges(Spliced, free)) \in SUBSET By(k)
    BY <1>7, <2>1, <2>2
  <2>4. Closure(Onward(reach[k - 1], Edges(Spliced, free)), Edges(Mods, free)) \subseteq By(k)
    BY <1>6, <2>1, <2>3
  <2> QED BY <1>8, <2>1, <2>4
<1>11. Bad = {}
  <2>1. SUFFICES ASSUME Bad # {} PROVE FALSE
    OBVIOUS
  <2>2. PICK k \in Bad : \A l \in Bad : k <= l
    <3>1. Bad \in SUBSET Nat
      OBVIOUS
    <3> HIDE DEF Bad
    <3> QED BY <2>1, <3>1, LeastNumber
  <2>3. k \in 1..n /\ k - 1 \notin Bad
    BY <1>3, <1>9, <2>2
  <2> QED BY <1>10, <2>2, <2>3
<1>12. reach[n] \subseteq By(n)
  BY <1>3, <1>11
<1> QED BY <1>8, <1>12 DEF By, n

-------------------------------------------------------------------------------
(* An invocation waits to be settled, or what it claims has been queued.     *)
Answered(f, i, t) ==
  \/ \E c \in ToSet(invocations) : c.macro = i.macro /\ c.pending.file = t
  \/ i.macro \in emitting /\ (t \in visited \/ \E q \in ToSet(queue) : q.file = t)

Called ==
  /\ \A f \in Loaded : \A i \in ItemsOf(f, Emitted) : \A t : t = i.at[Rule(f)] /\ Healthy(t) => Answered(f, i, t)
  /\ done => \A c \in ToSet(invocations) : c.macro \notin emitting

(* None is forgotten.                                                        *)
LEMMA CalledStep ==
  ASSUME Types, Types', Walks, Called
  PROVE  Called'
<1>1. /\ Grows /\ crate' = crate
      /\ \A f \in Loaded : Rule(f)' = Rule(f)
      /\ \A f, kinds : ItemsOf(f, kinds)' = ItemsOf(f, kinds)
      /\ \A t : Healthy(t)' <=> Healthy(t)
  BY WalkGrows DEF Grows, ItemsOf, Healthy
<1>2. Emitted' = Emitted
  BY DEF Emitted
<1>3. ASSUME \A f, t : \A i : Answered(f, i, t) => Answered(f, i, t)',
             \A f \in Loaded' \ Loaded : \A i \in ItemsOf(f, Emitted) : \A t :
               t = i.at[Rule(f)'] /\ Healthy(t) => Answered(f, i, t)',
             done' => \A c \in ToSet(invocations') : c.macro \notin emitting'
      PROVE  Called'
  <2>1. ASSUME NEW f \in Loaded', NEW i \in ItemsOf(f, Emitted), NEW t, t = i.at[Rule(f)'], Healthy(t)
        PROVE  Answered(f, i, t)'
    <3>1. CASE f \in Loaded
      BY <1>1, <1>3, <2>1, <3>1 DEF Called
    <3>2. CASE f \notin Loaded
      BY <1>3, <2>1, <3>2
    <3> QED BY <3>1, <3>2
  <2> QED BY <1>1, <1>2, <1>3, <2>1 DEF Called, Answered
<1>4. CASE UNCHANGED vars
  <2>1. Loaded' = Loaded
    BY <1>4, StandingStill DEF vars
  <2>2. \A f, t : \A i : Answered(f, i, t) => Answered(f, i, t)'
    BY <1>4 DEF vars, Answered
  <2>3. done' => \A c \in ToSet(invocations') : c.macro \notin emitting'
    BY <1>4 DEF vars, Called
  <2> QED BY <1>3, <2>1, <2>2, <2>3
<1>5. CASE Settles
  <2>1. Loaded' = Loaded
    BY <1>5, StandingStill DEF Settles
  <2>2. /\ emitting' = emitting /\ visited' = visited /\ ToSet(queue) = {}
        /\ ToSet(invocations') = {c \in ToSet(invocations) : c.macro \notin emitting}
        /\ \A c \in ToSet(invocations) : c.macro \in emitting /\ c.probe => c.pending \in ToSet(queue')
    BY <1>5, ToSetOfNothing DEF Settles, Types
  <2>3. ASSUME NEW f, NEW i, NEW t, Answered(f, i, t), t \in Files PROVE Answered(f, i, t)'
    <3>1. CASE \E c \in ToSet(invocations) : c.macro = i.macro /\ c.pending.file = t
      <4>1. PICK c \in ToSet(invocations) : c.macro = i.macro /\ c.pending.file = t
        BY <3>1
      <4>2. c.probe
        BY <2>3, <4>1 DEF Types, IsOnDisk
      <4> QED BY <2>2, <4>1, <4>2 DEF Answered
    <3>2. CASE i.macro \in emitting /\ (t \in visited \/ \E q \in ToSet(queue) : q.file = t)
      BY <2>2, <3>2 DEF Answered
    <3> QED BY <2>3, <3>1, <3>2 DEF Answered
  <2>4. ASSUME NEW f \in Loaded', NEW i \in ItemsOf(f, Emitted), NEW t, t = i.at[Rule(f)'], Healthy(t)
        PROVE  Answered(f, i, t)'
    <3>1. Answered(f, i, t) /\ t \in Files
      BY <1>1, <2>1, <2>4 DEF Called, Healthy
    <3> QED BY <2>3, <3>1
  <2>5. \A c \in ToSet(invocations') : c.macro \notin emitting'
    BY <2>2
  <2> QED BY <1>1, <1>2, <2>4, <2>5 DEF Called, Answered
<1>6. ASSUME NEW p \in Pending, NEW rest \in SUBSET Pending, Pops(p, rest), rest \subseteq ToSet(queue'),
             ToSet(invocations) \subseteq ToSet(invocations')
      PROVE  /\ \A f, t : \A i : Answered(f, i, t) => Answered(f, i, t)'
             /\ ~ done'
  <2>1. /\ visited' = visited \cup {p.file} /\ ToSet(queue) = rest \cup {p} /\ emitting \subseteq emitting'
        /\ done' = done
    BY <1>1, <1>6 DEF Pops, Grows
  <2>2. ~ done
    BY <2>1, ToSetOfNothing DEF Types
  <2>3. ASSUME NEW f, NEW i, NEW t, Answered(f, i, t) PROVE Answered(f, i, t)'
    <3>1. CASE \E c \in ToSet(invocations) : c.macro = i.macro /\ c.pending.file = t
      BY <1>6, <3>1 DEF Answered
    <3>2. CASE i.macro \in emitting /\ (t \in visited \/ \E q \in ToSet(queue) : q.file = t)
      <4>1. t \in visited' \/ \E q \in ToSet(queue') : q.file = t
        BY <1>6, <2>1, <3>2
      <4> QED BY <2>1, <3>2, <4>1 DEF Answered
    <3> QED BY <2>3, <3>1, <3>2 DEF Answered
  <2> QED BY <2>1, <2>2, <2>3
<1>7. ASSUME NEW p \in Pending, NEW rest \in SUBSET Pending, Drops(p, rest)
      PROVE  Called'
  <2>1. /\ Pops(p, rest) /\ rest \subseteq ToSet(queue') /\ Loaded' = Loaded
        /\ ToSet(invocations) \subseteq ToSet(invocations')
    BY <1>7, StandingStill DEF Drops
  <2> QED BY <1>3, <1>6, <2>1
<1>8. ASSUME NEW p \in Pending, NEW rest \in SUBSET Pending, NEW site, Reads(p, rest, site)
      PROVE  Called'
  <2>1. /\ Pops(p, rest) /\ rest \subseteq ToSet(queue') /\ IsSite(site)
        /\ ToSet(invocations) \subseteq ToSet(invocations')
        /\ p.file \notin Loaded => CallsOf(p.file, site) \subseteq ToSet(invocations')
    BY <1>8 DEF Reads
  <2>2. Loaded' = Loaded \cup {p.file} /\ Rule(p.file)' = site.isModRoot /\ p.file \in Files
    BY <1>8, ReadingLoads
  <2>3. ASSUME NEW f \in Loaded' \ Loaded, NEW i \in ItemsOf(f, Emitted), NEW t,
               t = i.at[Rule(f)'], Healthy(t)
        PROVE  Answered(f, i, t)'
    <3>1. f = p.file /\ t = i.at[site.isModRoot]
      BY <2>2, <2>3
    <3>2. Call(i, site) \in ToSet(invocations')
      BY <2>1, <2>3, <3>1 DEF CallsOf
    <3>3. Call(i, site).macro = i.macro /\ Call(i, site).pending.file = t
      <4>1. Following(i, site).file = i.at[site.isModRoot]
        BY DEF Following
      <4> QED BY <3>1, <4>1 DEF Call
    <3> QED BY <3>2, <3>3 DEF Answered
  <2> QED BY <1>3, <1>6, <2>1, <2>3
<1> QED BY <1>4, <1>5, <1>7, <1>8 DEF Walks

-------------------------------------------------------------------------------
(* The `mod` walk: what is loaded before it stops is a module, mounted where *)
(* some declaration of a module puts it, and any other place is remembered.  *)
ModulesMatch ==
  /\ Modules \subseteq Loaded
  /\ \A f : f \in Modules <=> f \in Loaded /\ (splicedFrom = 0 \/ IndexOf(f) < splicedFrom)

(* The modules are those loaded before the first splice.                     *)
LEMMA ModulesAre == ASSUME Types PROVE ModulesMatch
<1>1. \A f \in Loaded : IndexOf(f) \in 1..Len(loaded) /\ loaded[IndexOf(f)].file = f
  BY LoadedOnce DEF Indexed
<1>2. \A k \in 1..Len(loaded) : IndexOf(loaded[k].file) = k /\ loaded[k].file \in Loaded
  BY LoadedOnce DEF Indexed, Loaded
<1>3. ASSUME NEW f \in Modules
      PROVE  f \in Loaded /\ (splicedFrom = 0 \/ IndexOf(f) < splicedFrom)
  <2>1. PICK k \in 1..Len(loaded) : f = loaded[k].file /\ (splicedFrom = 0 \/ k < splicedFrom)
    BY DEF Modules
  <2> QED BY <1>2, <2>1
<1>4. ASSUME NEW f \in Loaded, splicedFrom = 0 \/ IndexOf(f) < splicedFrom
      PROVE  f \in Modules
  BY <1>1, <1>4 DEF Modules
<1> QED BY <1>3, <1>4 DEF ModulesMatch

Sent(p) ==
  \/ p = Start
  \/ \E f \in Modules : \E i \in ItemsOf(f, Mods) : p.file = i.at[Rule(f)] /\ p.module = PathIn(f, i)

Awaits(t, path) == splicedFrom = 0 /\ \E p \in ToSet(queue) : p.file = t /\ p.module = path

Placed(t, path) ==
  t \in Modules /\ (ModuleOf(t) \in {<<>>, path} \/ <<ModuleOf(t), path>> \in remounted)

Elsewhere(x) ==
  \E f \in Modules : \E i \in ItemsOf(f, Mods) : \E t \in Modules :
    /\ t = i.at[Rule(f)] /\ x = <<ModuleOf(t), PathIn(f, i)>>
    /\ ModuleOf(t) \notin {<<>>, PathIn(f, i)}

Mounted ==
  /\ Loaded = {} => /\ ToSet(deferred) = {} /\ ToSet(invocations) = {}
                    /\ ToSet(queue) \subseteq IF splicedFrom = 0 THEN {Start} ELSE {}
  /\ Loaded # {} => Root \in Modules /\ ModuleOf(Root) = <<>>
  /\ splicedFrom = 0 => \A p \in ToSet(queue) : Sent(p)
  /\ Modules \subseteq Closure({Root}, Edges(Mods, FALSE))
  /\ \A f \in Modules : \A i \in ItemsOf(f, Mods) : \A t :
       t = i.at[Rule(f)] /\ Healthy(t) => Awaits(t, PathIn(f, i)) \/ Placed(t, PathIn(f, i))
  /\ \A x \in remounted : Elsewhere(x)

(* Until then a file loaded is one more module; afterwards none is.          *)
LEMMA ModulesStay ==
  ASSUME Types, Types', splicedFrom' = splicedFrom, Loaded \subseteq Loaded',
         \A g \in Loaded : IndexOf(g)' = IndexOf(g),
         \A g \in Loaded' \ Loaded : IndexOf(g)' = Len(loaded) + 1
  PROVE  IF splicedFrom = 0 THEN Modules = Loaded /\ Modules' = Loaded' ELSE Modules' = Modules
<1>1. ModulesMatch /\ ModulesMatch'
  BY ModulesAre, PTL
<1>2. Len(loaded) \in Nat /\ splicedFrom \in 0..(Len(loaded) + 1)
  BY DEF Types
<1>3. CASE splicedFrom = 0
  <2>1. \A g : g \in Modules <=> g \in Loaded
    BY <1>1, <1>3 DEF ModulesMatch
  <2>2. \A g : g \in Modules' <=> g \in Loaded'
    BY <1>1, <1>3 DEF ModulesMatch
  <2>3. Modules = Loaded
    BY <2>1
  <2>4. Modules' = Loaded'
    BY <2>2
  <2> QED BY <1>3, <2>3, <2>4
<1>4. CASE splicedFrom # 0
  <2>1. \A g : g \in Modules <=> g \in Loaded /\ IndexOf(g) < splicedFrom
    BY <1>1, <1>4 DEF ModulesMatch
  <2>2. \A g : g \in Modules' <=> g \in Loaded' /\ IndexOf(g)' < splicedFrom
    BY <1>1, <1>4 DEF ModulesMatch
  <2>3. ASSUME NEW g \in Loaded' \ Loaded PROVE ~ (IndexOf(g)' < splicedFrom)
    BY <1>2
  <2> QED BY <1>4, <2>1, <2>2, <2>3
<1> QED BY <1>3, <1>4

(* What some edges reach is reached by them still.                           *)
LEMMA ClosureStays ==
  ASSUME Types, Types', Walks, Defines, Defines'
  PROVE  Closure({Root}, Edges(Mods, FALSE)) \subseteq Closure({Root}, Edges(Mods, FALSE))'
<1>1. ASSUME NEW e \in Edges(Mods, FALSE) PROVE e \in Edges(Mods, FALSE)'
  <2>1. e = <<e[1], e[2]>>
    BY DEF Edges
  <2>2. Goes(e[1], e[2], Mods, FALSE)
    BY EdgesAre DEF EdgesMatch
  <2>3. Goes(e[1], e[2], Mods, FALSE)'
    BY <2>2, GoesOn
  <2>4. EdgesMatch'
    BY EdgesAre, PTL
  <2> QED BY <2>1, <2>3, <2>4 DEF EdgesMatch
<1> DEFINE old == Edges(Mods, FALSE)
           new == Edges(Mods, FALSE)'
<1>2. Closure({Root}, old) \subseteq Closure({Root}, new)
  <2> HIDE DEF old, new
  <2>1. old \subseteq new
    BY <1>1 DEF old, new
  <2> QED BY <2>1, ClosureGrows
<1> QED BY <1>2 DEF Closure

(* What a file's popping does to the mounts, whether it is read or dropped.  *)
Mounting(p, rest) ==
  /\ crate' = crate /\ splicedFrom' = splicedFrom /\ Remembers(p)
  /\ ToSet(queue) = rest \cup {p} /\ rest \subseteq ToSet(queue')
  /\ Loaded \subseteq Loaded' /\ Loaded' \subseteq Loaded \cup {p.file}
  /\ Healthy(p.file) => p.file \in Loaded'
  /\ \A g \in Loaded : IndexOf(g)' = IndexOf(g) /\ Rule(g)' = Rule(g) /\ ModuleOf(g)' = ModuleOf(g)
  /\ \A g \in Loaded' \ Loaded :
       /\ IndexOf(g)' = Len(loaded) + 1 /\ ModuleOf(g)' = p.module
       /\ \A i \in ItemsOf(g, Mods) : \A t : t = i.at[Rule(g)'] /\ Healthy(t) =>
            \E q \in ToSet(queue') : q.file = t /\ q.module = PathIn(g, i)'
  /\ \A q \in ToSet(queue') \ rest :
       /\ p.file \in Loaded'
       /\ \E i \in ItemsOf(p.file, Mods) : q.file = i.at[Rule(p.file)'] /\ q.module = PathIn(p.file, i)'
  /\ Loaded' = {} => /\ deferred' = deferred /\ invocations' = invocations
                     /\ ToSet(queue') \subseteq rest

(* A file's mount is remembered, or is where the file was loaded.            *)
LEMMA PoppingMounts ==
  ASSUME Types, Types', Walks, Defines, Defines', Mounted,
         NEW p \in Pending, NEW rest \in SUBSET Pending, Mounting(p, rest)
  PROVE  Mounted'
<1>1. /\ crate' = crate /\ splicedFrom' = splicedFrom /\ Loaded \subseteq Loaded'
      /\ Loaded' \subseteq Loaded \cup {p.file} /\ p \in ToSet(queue)
      /\ ToSet(queue) = rest \cup {p} /\ rest \subseteq ToSet(queue')
      /\ \A g \in Loaded : IndexOf(g)' = IndexOf(g) /\ Rule(g)' = Rule(g) /\ ModuleOf(g)' = ModuleOf(g)
      /\ \A g \in Loaded' \ Loaded : IndexOf(g)' = Len(loaded) + 1 /\ ModuleOf(g)' = p.module
  BY DEF Mounting
<1>2. IF splicedFrom = 0 THEN Modules = Loaded /\ Modules' = Loaded' ELSE Modules' = Modules
  BY <1>1, ModulesStay
<1>3. /\ \A g : ItemsOf(g, Mods)' = ItemsOf(g, Mods) /\ (Healthy(g)' <=> Healthy(g))
      /\ \A g \in Loaded : \A i : PathIn(g, i)' = PathIn(g, i)
      /\ Mods' = Mods /\ Start' = Start /\ Modules \subseteq Loaded /\ remounted \subseteq remounted'
      /\ Modules \subseteq Modules'
  <2>1. Mods' = Mods /\ Start' = Start
    BY DEF Mods, Start
  <2>2. Modules \subseteq Loaded
    BY ModulesAre DEF ModulesMatch
  <2>3. remounted \subseteq remounted'
    BY DEF Mounting, Remembers
  <2>4. \A g : ItemsOf(g, Mods)' = ItemsOf(g, Mods) /\ (Healthy(g)' <=> Healthy(g))
    BY <1>1, <2>1 DEF ItemsOf, Healthy
  <2>5. \A g \in Loaded : \A i : PathIn(g, i)' = PathIn(g, i)
    BY <1>1 DEF PathIn
  <2>6. Modules \subseteq Modules'
    BY <1>1, <1>2
  <2> QED BY <2>1, <2>2, <2>3, <2>4, <2>5, <2>6
<1>4. \A x : Elsewhere(x) => Elsewhere(x)'
  <2>1. ASSUME NEW x, Elsewhere(x) PROVE Elsewhere(x)'
    <3>1. PICK f \in Modules : \E i \in ItemsOf(f, Mods) : \E t \in Modules :
            /\ t = i.at[Rule(f)] /\ x = <<ModuleOf(t), PathIn(f, i)>>
            /\ ModuleOf(t) \notin {<<>>, PathIn(f, i)}
      BY <2>1 DEF Elsewhere
    <3>2. PICK i \in ItemsOf(f, Mods) : \E t \in Modules :
            /\ t = i.at[Rule(f)] /\ x = <<ModuleOf(t), PathIn(f, i)>>
            /\ ModuleOf(t) \notin {<<>>, PathIn(f, i)}
      BY <3>1
    <3>3. PICK t \in Modules : /\ t = i.at[Rule(f)] /\ x = <<ModuleOf(t), PathIn(f, i)>>
                               /\ ModuleOf(t) \notin {<<>>, PathIn(f, i)}
      BY <3>2
    <3>4. /\ f \in Modules' /\ t \in Modules' /\ i \in ItemsOf(f, Mods)' /\ Rule(f)' = Rule(f)
          /\ ModuleOf(t)' = ModuleOf(t) /\ PathIn(f, i)' = PathIn(f, i)
      BY <1>1, <1>3
    <3> QED BY <1>3, <3>3, <3>4 DEF Elsewhere
  <2> QED BY <2>1
<1>5. \A t : \A path : Placed(t, path) => Placed(t, path)'
  BY <1>1, <1>3 DEF Placed
<1>6. CASE splicedFrom # 0
  <2>1. Modules' = Modules /\ splicedFrom' # 0
    BY <1>1, <1>2, <1>6
  <2>2. Loaded # {} /\ Loaded' # {}
    BY <1>1, <1>6 DEF Mounted
  <2>3. Root \in Modules' /\ ModuleOf(Root)' = <<>>
    BY <1>1, <1>3, <2>1, <2>2 DEF Mounted
  <2>4. Modules' \subseteq Closure({Root}, Edges(Mods, FALSE))'
    BY <2>1, ClosureStays DEF Mounted
  <2>5. ASSUME NEW f \in Modules', NEW i \in ItemsOf(f, Mods)', NEW t, t = i.at[Rule(f)'], Healthy(t)'
        PROVE  Placed(t, PathIn(f, i))'
    <3>1. /\ f \in Modules /\ i \in ItemsOf(f, Mods) /\ t = i.at[Rule(f)] /\ Healthy(t)
          /\ PathIn(f, i)' = PathIn(f, i)
      BY <1>1, <1>3, <2>1, <2>5
    <3>2. Placed(t, PathIn(f, i))
      BY <1>6, <3>1 DEF Mounted, Awaits
    <3> QED BY <1>5, <3>1, <3>2 DEF Placed
  <2>6. remounted' = remounted
    BY <1>6 DEF Mounting, Remembers
  <2>7. \A x \in remounted' : Elsewhere(x)'
    BY <1>4, <2>6 DEF Mounted
  <2> QED BY <1>3, <2>1, <2>2, <2>3, <2>4, <2>5, <2>7 DEF Mounted, Placed, Awaits
<1>7. CASE splicedFrom = 0
  <2>1. Modules = Loaded /\ Modules' = Loaded' /\ splicedFrom' = 0
    BY <1>1, <1>2, <1>7
  <2>2. Sent(p)
    BY <1>1, <1>7 DEF Mounted
  <2>3. Loaded' = {} => /\ ToSet(deferred') = {} /\ ToSet(invocations') = {}
                        /\ ToSet(queue') \subseteq {Start}
    <3>1. SUFFICES ASSUME Loaded' = {}
                   PROVE  /\ ToSet(deferred') = {} /\ ToSet(invocations') = {}
                          /\ ToSet(queue') \subseteq {Start}
      OBVIOUS
    <3>2. Loaded = {}
      BY <1>1, <3>1
    <3>3. deferred' = deferred /\ invocations' = invocations /\ ToSet(queue') \subseteq ToSet(queue)
      BY <3>1 DEF Mounting
    <3>4. ToSet(deferred) = {} /\ ToSet(invocations) = {} /\ ToSet(queue) \subseteq {Start}
      BY <1>7, <3>2 DEF Mounted
    <3> QED BY <3>3, <3>4
  <2>4. Loaded' # {} => Root \in Modules' /\ ModuleOf(Root)' = <<>>
    <3>1. CASE Loaded # {}
      BY <1>1, <2>1, <3>1 DEF Mounted
    <3>2. CASE Loaded = {} /\ Loaded' # {}
      <4>1. p = Start /\ Loaded' = {p.file}
        BY <1>1, <1>7, <3>2 DEF Mounted
      <4>2. p.file = Root /\ p.module = <<>>
        BY <4>1 DEF Start
      <4> QED BY <1>1, <2>1, <3>2, <4>1, <4>2
    <3> QED BY <3>1, <3>2
  <2>5. \A q : Sent(q) => Sent(q)'
    <3>1. SUFFICES ASSUME NEW q, Sent(q), q # Start PROVE Sent(q)'
      BY <1>3 DEF Sent
    <3>2. PICK f \in Modules : \E i \in ItemsOf(f, Mods) : q.file = i.at[Rule(f)] /\ q.module = PathIn(f, i)
      BY <3>1 DEF Sent
    <3>3. PICK i \in ItemsOf(f, Mods) : q.file = i.at[Rule(f)] /\ q.module = PathIn(f, i)
      BY <3>2
    <3>4. f \in Modules' /\ i \in ItemsOf(f, Mods)' /\ Rule(f)' = Rule(f) /\ PathIn(f, i)' = PathIn(f, i)
      BY <1>1, <1>3
    <3> QED BY <1>3, <3>3, <3>4 DEF Sent
  <2>6. ASSUME NEW q \in ToSet(queue') PROVE Sent(q)'
    <3>1. CASE q \in rest
      BY <1>1, <1>7, <2>5, <3>1 DEF Mounted
    <3>2. CASE q \notin rest
      <4>1. PICK i \in ItemsOf(p.file, Mods) : q.file = i.at[Rule(p.file)'] /\ q.module = PathIn(p.file, i)'
        BY <3>2 DEF Mounting
      <4>2. p.file \in Modules' /\ i \in ItemsOf(p.file, Mods)'
        BY <1>3, <2>1, <3>2 DEF Mounting
      <4> QED BY <1>3, <4>1, <4>2 DEF Sent
    <3> QED BY <3>1, <3>2
  <2>7. Modules' \subseteq Closure({Root}, Edges(Mods, FALSE))'
    <3> DEFINE C == Closure({Root}, Edges(Mods, FALSE))
    <3>1. Loaded \subseteq C /\ C \subseteq C'
      BY <2>1, ClosureStays DEF Mounted
    <3>2. ASSUME p.file \in Loaded' PROVE p.file \in C
      <4>1. Root \in C /\ \A e \in Edges(Mods, FALSE) : e[1] \in C /\ e[2] \in Files => e[2] \in C
        BY ClosureIs, RootIsAFile
      <4>2. Healthy(p.file)
        <5>1. \A f \in Loaded' : f \in Files /\ crate.health[f] \in {"sound", "broken"}
          BY <1>1 DEF Types
        <5> QED BY <3>2, <5>1 DEF Healthy
      <4>3. CASE p = Start
        BY <4>1, <4>3 DEF Start
      <4>4. ASSUME NEW f \in Modules, NEW i \in ItemsOf(f, Mods), p.file = i.at[Rule(f)] PROVE p.file \in C
        <5>1. i.kind # "invoke"
          BY DEF ItemsOf, Mods
        <5>2. Goes(f, p.file, Mods, FALSE)
          BY <2>1, <4>2, <4>4, <5>1 DEF Goes
        <5>3. <<f, p.file>> \in Edges(Mods, FALSE) /\ f \in C /\ p.file \in Files
          BY <2>1, <3>1, <4>2, <5>2, EdgesAre DEF EdgesMatch, Healthy
        <5> HIDE DEF C
        <5> QED BY <4>1, <5>3
      <4> QED BY <2>2, <4>3, <4>4 DEF Sent
    <3> HIDE DEF C
    <3>3. Loaded' \subseteq C'
      BY <1>1, <3>1, <3>2
    <3> QED BY <2>1, <3>3 DEF C
  <2>8. Healthy(p.file) => Placed(p.file, p.module)'
    <3>1. SUFFICES ASSUME Healthy(p.file) PROVE Placed(p.file, p.module)'
      OBVIOUS
    <3>2. p.file \in Modules'
      BY <2>1, <3>1 DEF Mounting
    <3>3. CASE p.file \in Loaded
      BY <1>1, <1>7, <3>2, <3>3 DEF Mounting, Remembers, Placed
    <3>4. CASE p.file \notin Loaded
      BY <1>1, <2>1, <3>2, <3>4 DEF Placed
    <3> QED BY <3>3, <3>4
  <2>9. ASSUME NEW f \in Modules', NEW i \in ItemsOf(f, Mods)', NEW t, t = i.at[Rule(f)'], Healthy(t)'
        PROVE  Awaits(t, PathIn(f, i))' \/ Placed(t, PathIn(f, i))'
    <3>1. i \in ItemsOf(f, Mods) /\ Healthy(t) /\ f \in Loaded'
      BY <1>3, <2>1, <2>9
    <3>2. CASE f \notin Loaded
      <4>1. \E q \in ToSet(queue') : q.file = t /\ q.module = PathIn(f, i)'
        BY <2>9, <3>1, <3>2 DEF Mounting
      <4> QED BY <2>1, <4>1 DEF Awaits
    <3>3. CASE f \in Loaded
      <4>1. t = i.at[Rule(f)] /\ PathIn(f, i)' = PathIn(f, i)
        BY <1>1, <1>3, <2>9, <3>3
      <4>2. Awaits(t, PathIn(f, i)) \/ Placed(t, PathIn(f, i))
        BY <2>1, <3>1, <3>3, <4>1 DEF Mounted
      <4>3. CASE Placed(t, PathIn(f, i))
        BY <1>5, <4>1, <4>3 DEF Placed
      <4>4. ASSUME NEW q \in ToSet(queue), q.file = t, q.module = PathIn(f, i)
            PROVE  Awaits(t, PathIn(f, i))' \/ Placed(t, PathIn(f, i))'
        <5>1. CASE q = p
          BY <2>8, <3>1, <4>1, <4>4, <5>1 DEF Placed
        <5>2. CASE q \in rest
          BY <1>1, <2>1, <4>1, <4>4, <5>2 DEF Awaits
        <5> QED BY <1>1, <4>4, <5>1, <5>2
      <4> QED BY <4>2, <4>3, <4>4 DEF Awaits
    <3> QED BY <3>2, <3>3
  <2>10. ASSUME NEW x \in remounted' PROVE Elsewhere(x)'
    <3>1. CASE x \in remounted
      BY <1>4, <3>1 DEF Mounted
    <3>2. CASE x \notin remounted
      <4>1. /\ p.file \in Loaded /\ p.module # ModuleOf(p.file) /\ ModuleOf(p.file) # <<>>
            /\ x = <<ModuleOf(p.file), p.module>>
        BY <3>2 DEF Mounting, Remembers
      <4>2. p # Start
        <5>1. Start.file = Root
          BY DEF Start
        <5> QED BY <4>1, <5>1 DEF Mounted
      <4>3. PICK f \in Modules : \E i \in ItemsOf(f, Mods) : p.file = i.at[Rule(f)] /\ p.module = PathIn(f, i)
        BY <2>2, <4>2 DEF Sent
      <4>4. PICK i \in ItemsOf(f, Mods) : p.file = i.at[Rule(f)] /\ p.module = PathIn(f, i)
        BY <4>3
      <4>5. Elsewhere(x)
        BY <2>1, <4>1, <4>4 DEF Elsewhere
      <4> QED BY <1>4, <4>5
    <3> QED BY <3>1, <3>2
  <2> QED BY <1>3, <2>1, <2>3, <2>4, <2>6, <2>7, <2>9, <2>10 DEF Mounted, Placed, Awaits
<1> QED BY <1>6, <1>7

(* Dropping a file loads none; reading one puts what it declares in line.    *)
LEMMA PopsAreMountings ==
  ASSUME Types, Types', NEW p \in Pending, NEW rest \in SUBSET Pending,
         Drops(p, rest) \/ \E site : Reads(p, rest, site)
  PROVE  Mounting(p, rest)
<1>1. CASE Drops(p, rest)
  <2>1. /\ crate' = crate /\ splicedFrom' = splicedFrom /\ Remembers(p) /\ loaded' = loaded
        /\ ToSet(queue) = rest \cup {p} /\ ToSet(queue') = rest
        /\ deferred' = deferred /\ invocations' = invocations
        /\ crate.health[p.file] \notin {"sound", "broken"} \/ p.file \in Loaded
    BY <1>1 DEF Drops, Pops
  <2>2. /\ Loaded' = Loaded
        /\ \A g \in Loaded : IndexOf(g)' = IndexOf(g) /\ Rule(g)' = Rule(g) /\ ModuleOf(g)' = ModuleOf(g)
    BY <2>1, StandingStill
  <2>3. Healthy(p.file) => p.file \in Loaded'
    BY <2>1, <2>2 DEF Healthy
  <2> QED BY <2>1, <2>2, <2>3 DEF Mounting
<1>2. ASSUME NEW site, Reads(p, rest, site) PROVE Mounting(p, rest)
  <2> DEFINE f == p.file
  <2>1. /\ crate' = crate /\ splicedFrom' = splicedFrom /\ Remembers(p)
        /\ ToSet(queue) = rest \cup {p} /\ ToSet(queue') = rest \cup DeclsOf(f, site) /\ IsSite(site)
        /\ f \notin Loaded => site.module = p.module
    BY <1>2 DEF Reads, Pops
  <2>2. /\ f \in Files /\ Loaded' = Loaded \cup {f}
        /\ \A g \in Loaded : IndexOf(g)' = IndexOf(g) /\ Rule(g)' = Rule(g) /\ ModuleOf(g)' = ModuleOf(g)
        /\ Rule(f)' = site.isModRoot /\ ModuleOf(f)' = site.module
        /\ f \notin Loaded => IndexOf(f)' = Len(loaded) + 1
    BY <1>2, ReadingLoads
  <2> HIDE DEF f
  <2>3. Adds(f, site)
    BY <2>1, <2>2, AddedIs
  <2>4. \A i : PathIn(f, i)' = site.module \o i.within \o <<i.name>>
    BY <2>2 DEF PathIn
  <2>5. ASSUME NEW i \in ItemsOf(f, Mods), NEW t, t = i.at[Rule(f)'], Healthy(t)
        PROVE  \E q \in ToSet(queue') : q.file = t /\ q.module = PathIn(f, i)'
    <3>1. IsOnDisk(i.at[site.isModRoot]) /\ i.kind # "include"
      BY <2>2, <2>5 DEF Healthy, IsOnDisk, ItemsOf, Mods
    <3>2. Following(i, site) \in DeclsOf(f, site)
      BY <3>1 DEF DeclsOf
    <3>3. Following(i, site).file = t /\ Following(i, site).module = PathIn(f, i)'
      BY <2>2, <2>4, <2>5, <3>1 DEF Following
    <3> QED BY <2>1, <3>2, <3>3
  <2>6. ASSUME NEW q \in ToSet(queue') \ rest
        PROVE  \E i \in ItemsOf(f, Mods) : q.file = i.at[Rule(f)'] /\ q.module = PathIn(f, i)'
    <3>1. q \in DeclsOf(f, site)
      BY <2>1, <2>6
    <3>2. PICK i \in ItemsOf(f, Mods) : /\ q.file = i.at[site.isModRoot]
                                        /\ q.module = site.module \o i.within \o <<i.name>>
      BY <2>3, <3>1 DEF Adds
    <3> QED BY <2>2, <2>4, <3>2
  <2>7. ASSUME NEW g \in Loaded' \ Loaded
        PROVE  /\ IndexOf(g)' = Len(loaded) + 1 /\ ModuleOf(g)' = p.module
               /\ \A i \in ItemsOf(g, Mods) : \A t : t = i.at[Rule(g)'] /\ Healthy(t) =>
                    \E q \in ToSet(queue') : q.file = t /\ q.module = PathIn(g, i)'
    <3>1. g = f /\ f \notin Loaded
      BY <2>2
    <3> QED BY <2>1, <2>2, <2>5, <3>1
  <2> QED BY <2>1, <2>2, <2>6, <2>7 DEF Mounting, f
<1> QED BY <1>1, <1>2

(* Once the `mod` walk stops, the modules are what they are.                 *)
LEMMA SettlingMounts ==
  ASSUME Types, Types', Walks, Defines, Defines', Mounted, Settles
  PROVE  Mounted'
<1>1. /\ loaded' = loaded /\ crate' = crate /\ remounted' = remounted
      /\ ToSet(queue) = {} /\ ToSet(deferred') = {} /\ splicedFrom' # 0
      /\ splicedFrom' = IF splicedFrom = 0 THEN Len(loaded) + 1 ELSE splicedFrom
      /\ ToSet(queue') = ToSet(deferred) \cup
           {c.pending : c \in {d \in ToSet(invocations) : d.macro \in emitting /\ d.probe}}
      /\ ToSet(invocations') \subseteq ToSet(invocations)
  <2>1. Len(loaded) \in Nat
    BY DEF Types
  <2> QED BY <2>1, ToSetOfNothing DEF Settles, Types
<1>2. /\ Loaded' = Loaded
      /\ \A g : Rule(g)' = Rule(g) /\ ModuleOf(g)' = ModuleOf(g) /\ IndexOf(g)' = IndexOf(g)
  BY <1>1, StandingStill
<1>3. Modules' = Modules
  <2>1. ModulesMatch /\ ModulesMatch'
    BY ModulesAre, PTL
  <2>2. Len(loaded) \in Nat /\ \A g \in Loaded : IndexOf(g) \in 1..Len(loaded)
    BY LoadedOnce DEF Types, Indexed
  <2>3. \A g \in Loaded : IndexOf(g) < Len(loaded) + 1
    BY <2>2
  <2>4. ASSUME NEW g PROVE g \in Modules' <=> g \in Modules
    <3>1. g \in Modules' <=> g \in Loaded /\ IndexOf(g) < splicedFrom'
      BY <1>1, <1>2, <2>1 DEF ModulesMatch
    <3>2. g \in Modules <=> g \in Loaded /\ (splicedFrom = 0 \/ IndexOf(g) < splicedFrom)
      BY <2>1 DEF ModulesMatch
    <3> QED BY <1>1, <2>3, <3>1, <3>2
  <2> QED BY <2>4
<1>4. /\ \A g, kinds : ItemsOf(g, kinds)' = ItemsOf(g, kinds) /\ (Healthy(g)' <=> Healthy(g))
      /\ \A g, i : PathIn(g, i)' = PathIn(g, i)
      /\ Mods' = Mods
  BY <1>1, <1>2 DEF ItemsOf, Healthy, PathIn, Mods
<1>5. Loaded' = {} => /\ ToSet(deferred') = {} /\ ToSet(invocations') = {} /\ ToSet(queue') = {}
  BY <1>1, <1>2 DEF Mounted
<1>6. Loaded' # {} => Root \in Modules' /\ ModuleOf(Root)' = <<>>
  BY <1>2, <1>3 DEF Mounted
<1>7. Modules' \subseteq Closure({Root}, Edges(Mods, FALSE))'
  BY <1>3, ClosureStays DEF Mounted
<1>8. ASSUME NEW f \in Modules', NEW i \in ItemsOf(f, Mods)', NEW t, t = i.at[Rule(f)'], Healthy(t)'
      PROVE  Placed(t, PathIn(f, i))'
  <2>1. f \in Modules /\ i \in ItemsOf(f, Mods) /\ t = i.at[Rule(f)] /\ Healthy(t)
    BY <1>2, <1>3, <1>4, <1>8
  <2>2. Placed(t, PathIn(f, i))
    BY <1>1, <2>1 DEF Mounted, Awaits
  <2> QED BY <1>1, <1>2, <1>3, <1>4, <2>2 DEF Placed
<1>9. ASSUME NEW x \in remounted' PROVE Elsewhere(x)'
  <2>1. Elsewhere(x)
    BY <1>1 DEF Mounted
  <2> QED BY <1>2, <1>3, <1>4, <2>1 DEF Elsewhere
<1> QED BY <1>1, <1>5, <1>6, <1>7, <1>8, <1>9 DEF Mounted, Awaits

(* The mounts stand, whatever the step.                                      *)
LEMMA MountedStep ==
  ASSUME Types, Types', Walks, Defines, Defines', Mounted
  PROVE  Mounted'
<1>1. CASE UNCHANGED vars
  <2>1. /\ Loaded' = Loaded /\ Modules' = Modules /\ crate' = crate /\ queue' = queue /\ deferred' = deferred
        /\ invocations' = invocations /\ remounted' = remounted /\ splicedFrom' = splicedFrom
        /\ \A g : Rule(g)' = Rule(g) /\ ModuleOf(g)' = ModuleOf(g)
    BY <1>1, StandingStill DEF vars, Modules
  <2>2. /\ \A g, kinds : ItemsOf(g, kinds)' = ItemsOf(g, kinds) /\ (Healthy(g)' <=> Healthy(g))
        /\ \A g, i : PathIn(g, i)' = PathIn(g, i)
    BY <2>1 DEF ItemsOf, Healthy, PathIn
  <2>3. Modules' \subseteq Closure({Root}, Edges(Mods, FALSE))'
    BY <2>1, ClosureStays DEF Mounted
  <2>4. \A x : Elsewhere(x)' <=> Elsewhere(x)
    BY <2>1, <2>2 DEF Elsewhere, Mods
  <2>5. \A p : Sent(p)' <=> Sent(p)
    BY <2>1, <2>2 DEF Sent, Mods, Start
  <2>6. ASSUME NEW f \in Modules', NEW i \in ItemsOf(f, Mods)', NEW t, t = i.at[Rule(f)'], Healthy(t)'
        PROVE  Awaits(t, PathIn(f, i))' \/ Placed(t, PathIn(f, i))'
    <3>1. f \in Modules /\ i \in ItemsOf(f, Mods) /\ t = i.at[Rule(f)] /\ Healthy(t)
      BY <2>1, <2>2, <2>6 DEF Mods
    <3>2. Awaits(t, PathIn(f, i)) \/ Placed(t, PathIn(f, i))
      BY <3>1 DEF Mounted
    <3> QED BY <2>1, <2>2, <3>2 DEF Awaits, Placed
  <2>7. Loaded' = {} => /\ ToSet(deferred') = {} /\ ToSet(invocations') = {}
                        /\ ToSet(queue') \subseteq IF splicedFrom' = 0 THEN {Start} ELSE {}
    BY <2>1 DEF Mounted
  <2>8. Loaded' # {} => Root \in Modules' /\ ModuleOf(Root)' = <<>>
    BY <2>1 DEF Mounted
  <2>9. splicedFrom' = 0 => \A p \in ToSet(queue') : Sent(p)'
    BY <2>1, <2>5 DEF Mounted
  <2>10. \A x \in remounted' : Elsewhere(x)'
    BY <2>1, <2>4 DEF Mounted
  <2>11. Start' = Start
    BY DEF Start
  <2> QED BY <2>3, <2>6, <2>7, <2>8, <2>9, <2>10, <2>11 DEF Mounted
<1>2. CASE Settles
  BY <1>2, SettlingMounts
<1>3. ASSUME NEW p \in Pending, NEW rest \in SUBSET Pending,
             Drops(p, rest) \/ \E site : Reads(p, rest, site)
      PROVE  Mounted'
  BY <1>3, PopsAreMountings, PoppingMounts
<1> QED BY <1>1, <1>2, <1>3 DEF Walks

-------------------------------------------------------------------------------
(* What stands at every step of the walk.                                    *)
Walked ==
  /\ Types /\ Defines /\ Called /\ Mounted
  /\ Deserved(FALSE) /\ Deserved(TRUE) /\ Ranked(FALSE) /\ Ranked(TRUE)

(* It stands at the start, with the root waiting and nothing met.            *)
LEMMA WalkedAtFirst == ASSUME Init PROVE Walked
<1>1. /\ Types /\ Loaded = {} /\ Cleared = {} /\ Modules \subseteq Loaded
      /\ ToSet(queue) = {Start} /\ ToSet(deferred) = {} /\ ToSet(invocations) = {}
      /\ emitting = {} /\ splicedFrom = 0 /\ remounted = {} /\ done = FALSE
  BY WalkBegins, ModulesAre DEF Init, ModulesMatch
<1>2. /\ Start.file = Root /\ Start.testOnly = FALSE /\ Start.depth = 0
  BY DEF Start
<1>3. Defines
  BY <1>1 DEF Defines, DefinedAnywhere
<1>4. Called
  BY <1>1 DEF Called
<1>5. Mounted
  BY <1>1 DEF Mounted, Sent
<1>6. \A free \in BOOLEAN : Got(free) = {}
  BY <1>1 DEF Got
<1>7. \A free \in BOOLEAN : Deserved(free)
  BY <1>1, <1>2, <1>6 DEF Deserved, Led
<1>8. ASSUME NEW free \in BOOLEAN PROVE Ranked(free)
  <2>1. PICK rank \in [Files -> Nat] : TRUE
    <3>1. [f \in Files |-> 0] \in [Files -> Nat]
      OBVIOUS
    <3> QED BY <3>1
  <2>2. Waiting(ToSet(queue), Root, free)
    BY <1>1, <1>2 DEF Waiting, Counts
  <2>3. ShallowAt(0)
    BY <1>1, <1>2 DEF ShallowAt
  <2>4. RankedBy(0, rank, free)
    BY <1>6, <2>2, <2>3 DEF RankedBy
  <2>5. 0 \in Nat
    OBVIOUS
  <2> QED BY <2>4, <2>5 DEF Ranked
<1> QED BY <1>1, <1>3, <1>4, <1>5, <1>7, <1>8 DEF Walked

(* It stands throughout.                                                     *)
LEMMA WalkedAlways == Spec => []Walked
<1>1. Walked /\ [Next]_vars => Walked'
  <2> SUFFICES ASSUME Walked, [Next]_vars PROVE Walked'
    OBVIOUS
  <2>1. /\ Types /\ Types' /\ Walks /\ Defines /\ Called /\ Mounted
        /\ Deserved(FALSE) /\ Deserved(TRUE) /\ Ranked(FALSE) /\ Ranked(TRUE)
    BY StepsAre DEF Walked
  <2>2. Defines'
    BY <2>1, DefinesStep
  <2>3. Deserved(FALSE)' /\ Ranked(FALSE)'
    BY <2>1, <2>2, DeservedStep, RankedStep
  <2>4. Deserved(TRUE)' /\ Ranked(TRUE)'
    BY <2>1, <2>2, DeservedStep, RankedStep
  <2>5. Called'
    BY <2>1, CalledStep
  <2>6. Mounted'
    BY <2>1, <2>2, MountedStep
  <2> QED BY <2>1, <2>2, <2>3, <2>4, <2>5, <2>6 DEF Walked
<1> QED BY <1>1, WalkedAtFirst, PTL DEF Spec

(* A finished walk has followed every macro's claims.                        *)
LEMMA ClaimsAreFollowed ==
  ASSUME Walked, done
  PROVE  \A e \in Edges(Emitted, FALSE) : e[2] \in Loaded
<1> SUFFICES ASSUME NEW e \in Edges(Emitted, FALSE) PROVE e[2] \in Loaded
  OBVIOUS
<1>1. Goes(e[1], e[2], Emitted, FALSE)
  BY EdgesAre DEF EdgesMatch, Walked
<1>2. PICK i \in ItemsOf(e[1], Emitted) : i.macro \in DefinedAnywhere /\ e[2] = i.at[Rule(e[1])]
  BY <1>1 DEF Goes, ItemsOf, Emitted
<1>3. Healthy(e[2]) /\ i.macro \in emitting /\ Answered(e[1], i, e[2])
  BY <1>1, <1>2 DEF Goes, Walked, Defines, Called
<1>4. /\ ~ \E q \in ToSet(queue) : q.file = e[2]
      /\ \A c \in ToSet(invocations) : c.macro \notin emitting
  BY ToSetOfNothing DEF Walked, Types, Called
<1>5. e[2] \in visited
  BY <1>3, <1>4 DEF Answered
<1> QED BY <1>3, <1>5 DEF Healthy, Walked, Types

(* A finished `mod` walk has followed every `mod`, and nothing else.         *)
LEMMA ModsAreFollowed ==
  ASSUME Walked, done, Loaded # {}
  PROVE  Modules = Closure({Root}, Edges(Mods, FALSE))
<1>1. /\ Modules \subseteq Closure({Root}, Edges(Mods, FALSE)) /\ Root \in Modules
  BY DEF Walked, Mounted
<1>2. Modules \subseteq Files
  BY ModulesAre, LoadedOnce DEF Walked, ModulesMatch, Indexed
<1>3. ASSUME NEW e \in Edges(Mods, FALSE), e[1] \in Modules PROVE e[2] \in Modules
  <2>1. Goes(e[1], e[2], Mods, FALSE)
    BY EdgesAre DEF EdgesMatch, Walked
  <2>2. PICK i \in ItemsOf(e[1], Mods) : e[2] = i.at[Rule(e[1])] /\ Healthy(e[2])
    BY <2>1 DEF Goes
  <2>3. ~ Awaits(e[2], PathIn(e[1], i))
    BY ToSetOfNothing DEF Walked, Types, Awaits
  <2>4. Placed(e[2], PathIn(e[1], i))
    BY <1>3, <2>2, <2>3 DEF Walked, Mounted
  <2> QED BY <2>4 DEF Placed
<1>4. Closure({Root}, Edges(Mods, FALSE)) \subseteq Modules
  <2> DEFINE mods == Edges(Mods, FALSE)
             S == Modules
  <2>1. {Root} \in SUBSET Files /\ S \in SUBSET Files /\ {Root} \subseteq S
    BY <1>1, <1>2, RootIsAFile
  <2>2. \A e \in mods : e[1] \in S => e[2] \in S
    BY <1>3
  <2> HIDE DEF mods, S
  <2>3. Closure({Root}, mods) \subseteq S
    BY <2>1, <2>2, ClosureIs
  <2> QED BY <2>3 DEF mods, S
<1> QED BY <1>1, <1>4

(* Whatever the crate, and in whatever order its declarations come up, the   *)
(* finished walk has loaded every file within MaxIncludeDepth splices of the *)
(* root and every file a macro's invocations claim, and none that no chain   *)
(* of items leads to; and it counts as modules the files `mod` alone reaches *)
(* (WalkIsExact, src/modtree.rs:282-286 and 500-558).                        *)
THEOREM WalkIsExactAlways == Spec => []WalkIsExact
<1>1. Walked => WalkIsExact
  <2> SUFFICES ASSUME Walked, done PROVE ReachIsExact /\ ModulesAreReachedByMods
    BY DEF WalkIsExact, ReachIsExact, ModulesAreReachedByMods
  <2>1. Types /\ Deserved(FALSE) /\ Ranked(FALSE)
    BY DEF Walked
  <2>2. Loaded \subseteq Closure({Root}, Edges(Mods \cup Spliced \cup Emitted, FALSE))
    BY <2>1 DEF Deserved, Got, All
  <2>3. ASSUME crate.health[Root] \in {"sound", "broken"}
        PROVE  Within(MaxIncludeDepth, FALSE) \subseteq Loaded
    <3>1. Healthy(Root)
      BY <2>3, RootIsAFile DEF Healthy
    <3>2. Within(MaxIncludeDepth, FALSE) \subseteq Got(FALSE)
      BY <2>1, <3>1, RoundsReach
    <3> QED BY <3>2 DEF Got
  <2> QED BY <2>2, <2>3, ClaimsAreFollowed, ModsAreFollowed DEF ReachIsExact, ModulesAreReachedByMods
<1> QED BY <1>1, WalkedAlways, PTL

-------------------------------------------------------------------------------
(* What only tests compile: a file's inline blocks are those of the site it  *)
(* was last loaded at.                                                       *)
Fresh == \A k \in 1..Len(loaded) : loaded[k] = LoadedAs(loaded[k].file, loaded[k])

(* A file is loaded with what its own record says of it.                     *)
LEMMA LoadedAsItself ==
  ASSUME NEW f, NEW site
  PROVE  LoadedAs(f, site) = LoadedAs(LoadedAs(f, site).file, LoadedAs(f, site))
<1> DEFINE new == LoadedAs(f, site)
<1>1. /\ new.file = f /\ new.isModRoot = site.isModRoot
      /\ new.module = site.module /\ new.testOnly = site.testOnly
  BY DEF LoadedAs
<1>2. ConfinedInlineMods(f, new) = ConfinedInlineMods(f, site)
  <2> HIDE DEF new
  <2> QED BY <1>1 DEF ConfinedInlineMods
<1>3. LoadedAs(f, new) = LoadedAs(f, site)
  <2> HIDE DEF new
  <2> QED BY <1>1, <1>2 DEF LoadedAs
<1> QED BY <1>1, <1>3

(* It still is, whatever the step.                                           *)
LEMMA FreshStep ==
  ASSUME Types, Types', Walks, Fresh
  PROVE  Fresh'
<1>1. crate' = crate
  BY WalkGrows DEF Grows
<1>2. \A f, site : LoadedAs(f, site)' = LoadedAs(f, site)
  BY <1>1 DEF LoadedAs, ConfinedInlineMods
<1>3. ASSUME \A k \in 1..Len(loaded') : loaded'[k] = LoadedAs(loaded'[k].file, loaded'[k])
      PROVE  Fresh'
  BY <1>1, <1>3 DEF Fresh, LoadedAs, ConfinedInlineMods
<1>4. CASE loaded' = loaded
  BY <1>3, <1>4 DEF Fresh
<1>5. ASSUME NEW p \in Pending, NEW rest, NEW site, Reads(p, rest, site)
      PROVE  Fresh'
  <2> DEFINE f == p.file
  <2>1. /\ f \in Files /\ IsSite(site) /\ Enters(f, site)
        /\ f \in Loaded => /\ ~ site.testOnly /\ site.isModRoot = Rule(f) /\ site.module = ModuleOf(f)
    BY <1>5 DEF Reads, Pending
  <2> HIDE DEF f
  <2>2. /\ Len(loaded') \in Nat /\ Len(loaded) \in Nat
        /\ Len(loaded') = IF f \in Loaded THEN Len(loaded) ELSE Len(loaded) + 1
        /\ \A j, k \in 1..Len(loaded') : loaded'[j].file = loaded'[k].file => j = k
        /\ \A k \in 1..Len(loaded) : /\ loaded'[k].file = loaded[k].file
                                     /\ loaded[k].file # f => loaded'[k] = loaded[k]
        /\ \E k \in 1..Len(loaded') : loaded'[k] = LoadedAs(f, site) /\ loaded'[k].file = f
        /\ Loaded' = Loaded \cup {f}
    BY <2>1, EnteringIs
  <2>3. PICK n \in 1..Len(loaded') : loaded'[n] = LoadedAs(f, site) /\ loaded'[n].file = f
    BY <2>2
  <2>4. ASSUME NEW k \in 1..Len(loaded') PROVE loaded'[k] = LoadedAs(loaded'[k].file, loaded'[k])
    <3>1. CASE k = n
      BY <2>3, <3>1, LoadedAsItself
    <3>2. CASE k # n
      <4>1. loaded'[k].file # f
        BY <2>2, <2>3, <3>2
      <4>2. k \in 1..Len(loaded)
        <5>1. CASE k \notin 1..Len(loaded)
          <6>1. f \notin Loaded /\ k = Len(loaded) + 1
            BY <2>2, <5>1
          <6>2. \A j \in 1..Len(loaded) : loaded[j].file # f
            BY <6>1 DEF Loaded
          <6>3. n \notin 1..Len(loaded)
            BY <2>2, <2>3, <6>2
          <6> QED BY <2>2, <3>2, <6>1, <6>3
        <5> QED BY <5>1
      <4>3. loaded'[k] = loaded[k]
        BY <2>2, <4>1, <4>2
      <4> QED BY <4>2, <4>3 DEF Fresh
    <3> QED BY <3>1, <3>2
  <2> QED BY <1>3, <2>4
<1> QED BY <1>4, <1>5 DEF Walks, vars, Settles, Drops

(* Of blocks that may share a path, those with no unconfined one are the     *)
(* paths that no unconfined block has.                                       *)
LEMMA ConfinedPaths ==
  ASSUME NEW inline, NEW path
  PROVE  {path[i] : i \in {j \in inline : \A k \in inline : path[k] = path[j] => k.confined}}
           = {path[i] : i \in inline} \ {path[i] : i \in {j \in inline : ~ j.confined}}
OBVIOUS

(* A file's blocks are confined by their own gates once it is cleared.       *)
LEMMA BlocksFollow ==
  ASSUME Types, Fresh
  PROVE  InlineModsFollowTheirFile
<1> SUFFICES
      ASSUME NEW k \in 1..Len(loaded)
      PROVE  LET blocks == ItemsOf(loaded[k].file, {"inline"})
                 Paths(which) == {PathIn(loaded[k].file, i) : i \in which}
             IN  loaded[k].testOnlyMods =
                   IF loaded[k].testOnly THEN Paths(blocks)
                   ELSE Paths(blocks) \ Paths({i \in blocks : ~ i.confined})
  BY DEF InlineModsFollowTheirFile
<1> DEFINE f == loaded[k].file
           blocks == ItemsOf(f, {"inline"})
           path == [i \in blocks |-> PathIn(f, i)]
<1>1. /\ f \in Files /\ loaded[k].testOnly \in BOOLEAN
      /\ \A i : PathIn(f, i) = loaded[k].module \o i.within \o <<i.name>>
  BY LoadedOnce DEF Indexed, LoadedFile, PathIn, ModuleOf
<1>2. loaded[k].testOnlyMods = IF crate.health[f] = "sound" THEN ConfinedInlineMods(f, loaded[k]) ELSE {}
  <2>1. LoadedAs(f, loaded[k]).testOnlyMods =
          IF crate.health[f] = "sound" THEN ConfinedInlineMods(f, loaded[k]) ELSE {}
    BY DEF LoadedAs
  <2>2. loaded[k] = LoadedAs(f, loaded[k])
    BY DEF Fresh
  <2> QED BY <2>1, <2>2
<1>3. CASE crate.health[f] # "sound"
  <2>1. blocks = {} /\ loaded[k].testOnlyMods = {}
    BY <1>2, <1>3 DEF ItemsOf
  <2>2. /\ {PathIn(f, i) : i \in {}} = {}
        /\ {PathIn(f, i) : i \in {}} \ {PathIn(f, i) : i \in {j \in {} : ~ j.confined}} = {}
    OBVIOUS
  <2>3. loaded[k].testOnlyMods =
          IF loaded[k].testOnly THEN {PathIn(f, i) : i \in blocks}
          ELSE {PathIn(f, i) : i \in blocks} \ {PathIn(f, i) : i \in {j \in blocks : ~ j.confined}}
    <3> HIDE DEF blocks, f
    <3> QED BY <2>1, <2>2
  <2> QED BY <2>3
<1>4. CASE crate.health[f] = "sound"
  <2>1. blocks = {i \in ToSet(crate.items[f]) : i.kind = "inline"}
    BY <1>4 DEF ItemsOf
  <2>2. loaded[k].testOnlyMods =
          {PathIn(f, i) : i \in {j \in blocks : \A l \in blocks : PathIn(f, l) = PathIn(f, j) =>
                                                  loaded[k].testOnly \/ l.confined}}
    <3> HIDE DEF blocks, f
    <3> QED BY <1>1, <1>2, <1>4, <2>1 DEF ConfinedInlineMods
  <2>3. CASE loaded[k].testOnly
    <3>1. loaded[k].testOnlyMods = {PathIn(f, i) : i \in blocks}
      BY <2>2, <2>3
    <3> QED BY <2>3, <3>1
  <2>4. CASE ~ loaded[k].testOnly
    <3>1. \A i \in blocks : path[i] = PathIn(f, i)
      OBVIOUS
    <3> HIDE DEF path, blocks, f
    <3>2. loaded[k].testOnlyMods =
            {path[i] : i \in {j \in blocks : \A l \in blocks : path[l] = path[j] => l.confined}}
      BY <2>2, <2>4, <3>1
    <3>3. loaded[k].testOnlyMods = {path[i] : i \in blocks} \ {path[i] : i \in {j \in blocks : ~ j.confined}}
      BY <3>2, ConfinedPaths
    <3>4. loaded[k].testOnlyMods =
            {PathIn(f, i) : i \in blocks} \ {PathIn(f, i) : i \in {j \in blocks : ~ j.confined}}
      BY <3>1, <3>3
    <3> QED BY <2>4, <3>4 DEF blocks, f
  <2> QED BY <1>1, <2>3, <2>4
<1> QED BY <1>3, <1>4

(* Whatever the crate, a file is cleared only where some chain of items none *)
(* of them confined leads, and every file such a chain leads to within       *)
(* MaxIncludeDepth splices is, however late in the walk; and its inline      *)
(* blocks are then confined by their own gates alone (TestOnlyIsExact,       *)
(* src/modtree.rs:265-275).                                                  *)
THEOREM TestOnlyIsExactAlways == Spec => []TestOnlyIsExact
<1>1. Init => Fresh
  BY DEF Init, Fresh
<1>2. Walked /\ Fresh /\ [Next]_vars => Fresh'
  BY StepsAre, FreshStep DEF Walked
<1>3. Walked /\ Fresh => TestOnlyIsExact
  <2> SUFFICES ASSUME Walked, Fresh PROVE TestOnlyIsExact
    OBVIOUS
  <2>1. ClearedIsDeserved
    BY DEF Walked, Deserved, Got, All, ClearedIsDeserved
  <2>2. ASSUME done, Loaded # {} PROVE Within(MaxIncludeDepth, TRUE) \subseteq Cleared
    <3>1. Root \in Loaded
      BY <2>2, ModulesAre DEF Walked, Mounted, ModulesMatch
    <3>2. Healthy(Root)
      BY <3>1, RootIsAFile DEF Walked, Types, Healthy
    <3>3. Within(MaxIncludeDepth, TRUE) \subseteq Got(TRUE)
      BY <2>2, <3>2, RoundsReach DEF Walked
    <3> QED BY <3>3 DEF Got
  <2>3. InlineModsFollowTheirFile
    BY BlocksFollow DEF Walked
  <2> QED BY <2>1, <2>2, <2>3 DEF TestOnlyIsExact, LateDeclarationsClear
<1> QED BY <1>1, <1>2, <1>3, WalkedAlways, PTL DEF Spec

-------------------------------------------------------------------------------
(* What is told, of which files, and once.                                   *)
Says(s, files) ==
  /\ s \in Seq(Told)
  /\ \A k \in 1..Len(s) : s[k][1] \in files
  /\ \A j, k \in 1..Len(s) : s[j] = s[k] => j = k

(* More told of another file repeats nothing.                                *)
LEMMA SaysMore ==
  ASSUME NEW s, NEW t, NEW files, NEW f, f \notin files, Says(s, files), Says(t, {f})
  PROVE  Says(s \o t, files \cup {f})
<1>1. /\ Len(s) \in Nat /\ Len(t) \in Nat
      /\ s \o t \in Seq(Told) /\ Len(s \o t) = Len(s) + Len(t)
      /\ \A i \in 1..(Len(s) + Len(t)) :
           (s \o t)[i] = IF i <= Len(s) THEN s[i] ELSE t[i - Len(s)]
  BY DEF Says
<1>2. \A i \in 1..(Len(s) + Len(t)) : i \in 1..Len(s) \/ (~ (i <= Len(s)) /\ i - Len(s) \in 1..Len(t))
  BY <1>1
<1> DEFINE u == s \o t
<1>3. \A i \in 1..(Len(s) + Len(t)) : \/ i \in 1..Len(s) /\ u[i] = s[i] /\ u[i][1] \in files
                                      \/ i - Len(s) \in 1..Len(t) /\ u[i] = t[i - Len(s)] /\ u[i][1] = f
  <2> SUFFICES ASSUME NEW i \in 1..(Len(s) + Len(t))
               PROVE  \/ i \in 1..Len(s) /\ u[i] = s[i] /\ u[i][1] \in files
                      \/ i - Len(s) \in 1..Len(t) /\ u[i] = t[i - Len(s)] /\ u[i][1] = f
    OBVIOUS
  <2>1. u[i] = IF i <= Len(s) THEN s[i] ELSE t[i - Len(s)]
    BY <1>1
  <2> HIDE DEF u
  <2>2. CASE i \in 1..Len(s)
    <3>1. u[i] = s[i]
      BY <1>1, <2>1, <2>2
    <3> QED BY <2>2, <3>1 DEF Says
  <2>3. CASE ~ (i <= Len(s)) /\ i - Len(s) \in 1..Len(t)
    <3>1. u[i] = t[i - Len(s)]
      BY <2>1, <2>3
    <3> QED BY <2>3, <3>1 DEF Says
  <2> QED BY <1>2, <2>2, <2>3
<1> HIDE DEF u
<1>4. ASSUME NEW j \in 1..(Len(s) + Len(t)), NEW k \in 1..(Len(s) + Len(t)), u[j] = u[k]
      PROVE  j = k
  <2>1. CASE j \in 1..Len(s) /\ u[j] = s[j] /\ u[j][1] \in files
    <3>1. k \in 1..Len(s) /\ u[k] = s[k]
      BY <1>3, <1>4, <2>1
    <3> QED BY <1>4, <2>1, <3>1 DEF Says
  <2>2. CASE j - Len(s) \in 1..Len(t) /\ u[j] = t[j - Len(s)] /\ u[j][1] = f
    <3>1. k - Len(s) \in 1..Len(t) /\ u[k] = t[k - Len(s)]
      BY <1>3, <1>4, <2>2
    <3>2. j - Len(s) = k - Len(s)
      BY <1>4, <2>2, <3>1 DEF Says
    <3> QED BY <1>1, <3>2
  <2> QED BY <1>3, <2>1, <2>2
<1>5. Says(u, files \cup {f})
  BY <1>1, <1>3, <1>4 DEF Says, u
<1> QED BY <1>5 DEF u

(* Nothing told is nothing repeated.                                         *)
LEMMA SaysStill ==
  ASSUME NEW s, NEW files, NEW more, files \subseteq more, Says(s, files)
  PROVE  Says(s, more)
BY DEF Says

(* What is told of a file as a whole, or of its items, is told of it.        *)
LEMMA SaysOf ==
  ASSUME crate \in Crates, NEW f \in Files, NEW site
  PROVE  /\ Says(<<<<f, 0>>>>, {f})
         /\ Says(Unresolved(f, site), {f}) /\ Says(LeftOut(f, site), {f})
<1>1. Says(<<<<f, 0>>>>, {f})
  <2>1. \A x \in Told : <<x>> \in Seq(Told) /\ Len(<<x>>) = 1 /\ <<x>>[1] = x
    OBVIOUS
  <2>2. <<f, 0>> \in Told /\ <<f, 0>>[1] = f
    BY DEF Told
  <2> QED BY <2>1, <2>2 DEF Says
<1> DEFINE items == crate.items[f]
<1>2. ASSUME NEW at \in SUBSET (1..Len(items)) PROVE Says(Tell(f, InOrder(at)), {f})
  <2> DEFINE said == Tell(f, InOrder(at))
  <2>1. /\ said \in Seq(Told)
        /\ \A j, k \in 1..Len(said) : said[j] = said[k] => j = k
        /\ \A k \in 1..Len(said) : said[k][1] = f
    BY <1>2, TellIs
  <2> HIDE DEF said
  <2>2. Says(said, {f})
    BY <2>1 DEF Says
  <2> QED BY <2>2 DEF said
<1> DEFINE lost == {k \in 1..Len(items) : items[k].kind = "mod" /\ items[k].at[site.isModRoot] = Missing}
           out  == {k \in 1..Len(items) : items[k].kind = "ruled out mod" /\ IsOnDisk(items[k].at[site.isModRoot])}
<1>3. Unresolved(f, site) = Tell(f, InOrder(lost)) /\ LeftOut(f, site) = Tell(f, InOrder(out))
  BY DEF Unresolved, LeftOut, Where
<1>4. lost \in SUBSET (1..Len(items)) /\ out \in SUBSET (1..Len(items))
  OBVIOUS
<1> HIDE DEF lost, out, items
<1> QED BY <1>1, <1>2, <1>3, <1>4

(* The walk's account so far: only of files it has popped.                   *)
Accounts == Says(warnings, visited) /\ Says(excluded, visited)

(* A file is told of when it is first popped, and not again.                 *)
LEMMA AccountsStep ==
  ASSUME Types, [Next]_vars, Accounts
  PROVE  Accounts'
<1>1. ASSUME queue # <<>>, Popped.file \notin visited, visited' = visited \cup {Popped.file},
             \/ warnings' = warnings
             \/ warnings' = Append(warnings, <<Popped.file, 0>>)
             \/ warnings' = warnings \o Unresolved(Popped.file, Popped),
             \/ excluded' = excluded
             \/ excluded' = Append(excluded, <<Popped.file, 0>>)
             \/ excluded' = excluded \o LeftOut(Popped.file, Popped)
      PROVE  Accounts'
  <2> DEFINE f == Popped.file
  <2>1. f \in Files /\ crate \in Crates
    BY <1>1, PoppedIs DEF Types
  <2>2. \A s \in Seq(Told) : Append(s, <<f, 0>>) = s \o <<<<f, 0>>>>
    <3>1. \A S : \A s \in Seq(S) : \A x \in S : Append(s, x) = s \o <<x>>
      OBVIOUS
    <3>2. <<f, 0>> \in Told
      BY <2>1 DEF Told
    <3> QED BY <3>1, <3>2
  <2> DEFINE lost == Unresolved(f, Popped)
             out == LeftOut(f, Popped)
             whole == <<<<f, 0>>>>
  <2>3. Says(whole, {f}) /\ Says(lost, {f}) /\ Says(out, {f})
    BY <2>1, SaysOf
  <2>4. /\ Says(warnings, visited) /\ Says(excluded, visited)
        /\ warnings \in Seq(Told) /\ excluded \in Seq(Told)
        /\ f \notin visited /\ visited' = visited \cup {f}
        /\ warnings' = warnings \/ warnings' = Append(warnings, <<f, 0>>) \/ warnings' = warnings \o lost
        /\ excluded' = excluded \/ excluded' = Append(excluded, <<f, 0>>) \/ excluded' = excluded \o out
    BY <1>1 DEF Accounts, Says
  <2>5. /\ warnings' = warnings \/ warnings' = warnings \o whole \/ warnings' = warnings \o lost
        /\ excluded' = excluded \/ excluded' = excluded \o whole \/ excluded' = excluded \o out
    BY <2>2, <2>4
  <2> HIDE DEF f, lost, out, whole
  <2>6. ASSUME NEW s, Says(s, visited)
        PROVE  /\ Says(s, visited \cup {f}) /\ Says(s \o whole, visited \cup {f})
               /\ Says(s \o lost, visited \cup {f}) /\ Says(s \o out, visited \cup {f})
    <3>1. Says(s, visited \cup {f})
      BY <2>6, SaysStill
    <3>2. Says(s \o whole, visited \cup {f})
      BY <2>3, <2>4, <2>6, SaysMore
    <3>3. Says(s \o lost, visited \cup {f})
      BY <2>3, <2>4, <2>6, SaysMore
    <3>4. Says(s \o out, visited \cup {f})
      BY <2>3, <2>4, <2>6, SaysMore
    <3> QED BY <3>1, <3>2, <3>3, <3>4
  <2>7. Says(warnings', visited') /\ Says(excluded', visited')
    BY <2>4, <2>5, <2>6
  <2> QED BY <2>7 DEF Accounts, Says, Told
<1>2. CASE PopAbsent
  BY <1>1, <1>2 DEF PopAbsent
<1>3. CASE PopNew
  BY <1>1, <1>3 DEF PopNew
<1>4. CASE UNCHANGED <<visited, warnings, excluded>>
  BY <1>4 DEF Accounts, Says, Told
<1> QED BY <1>2, <1>3, <1>4 DEF Next, vars, PopAgain, Settle

(* The remounts known at the end are those the modules' own `mod`s make.     *)
LEMMA RemountsMatch ==
  ASSUME Walked
  PROVE  RemountsAreKnown
<1> DEFINE Mounts == UNION {UNION {{<<t, PathIn(f, i)>> : t \in Leads(i, f)} :
                                   i \in ItemsOf(f, {"mod"})} : f \in Modules}
           Others == {<<ModuleOf(m[1]), m[2]>> : m \in {n \in Mounts : ModuleOf(n[1]) \notin {<<>>, n[2]}}}
<1> SUFFICES ASSUME done PROVE remounted = Others
  BY DEF RemountsAreKnown
<1>1. ASSUME NEW x \in remounted PROVE x \in Others
  <2>1. PICK f \in Modules : \E i \in ItemsOf(f, Mods) : \E t \in Modules :
          /\ t = i.at[Rule(f)] /\ x = <<ModuleOf(t), PathIn(f, i)>>
          /\ ModuleOf(t) \notin {<<>>, PathIn(f, i)}
    BY DEF Walked, Mounted, Elsewhere
  <2>2. PICK i \in ItemsOf(f, Mods) : \E t \in Modules :
          /\ t = i.at[Rule(f)] /\ x = <<ModuleOf(t), PathIn(f, i)>>
          /\ ModuleOf(t) \notin {<<>>, PathIn(f, i)}
    BY <2>1
  <2>3. PICK t \in Modules : /\ t = i.at[Rule(f)] /\ x = <<ModuleOf(t), PathIn(f, i)>>
                             /\ ModuleOf(t) \notin {<<>>, PathIn(f, i)}
    BY <2>2
  <2>4. t \in Files /\ crate.health[t] \in {"sound", "broken"}
    BY ModulesAre, LoadedOnce DEF Walked, ModulesMatch, Types, Indexed
  <2>5. t \in Leads(i, f) /\ i \in ItemsOf(f, {"mod"})
    BY <2>3, <2>4 DEF Leads, IsOnDisk, Rule, Mods
  <2>6. <<t, PathIn(f, i)>> \in Mounts
    BY <2>5
  <2> DEFINE m == <<t, PathIn(f, i)>>
  <2>7. m[1] = t /\ m[2] = PathIn(f, i) /\ m \in Mounts
    BY <2>6
  <2> HIDE DEF m, Mounts
  <2> QED BY <2>3, <2>7
<1>2. ASSUME NEW x \in Others PROVE x \in remounted
  <2>1. PICK m \in Mounts : x = <<ModuleOf(m[1]), m[2]>> /\ ModuleOf(m[1]) \notin {<<>>, m[2]}
    <3> HIDE DEF Mounts
    <3> QED BY <1>2
  <2>2. PICK f \in Modules : \E i \in ItemsOf(f, {"mod"}) : m \in {<<t, PathIn(f, i)>> : t \in Leads(i, f)}
    BY <2>1
  <2>3. PICK i \in ItemsOf(f, {"mod"}) : m \in {<<t, PathIn(f, i)>> : t \in Leads(i, f)}
    BY <2>2
  <2>4. PICK t \in Leads(i, f) : m = <<t, PathIn(f, i)>>
    BY <2>3
  <2>5. t = i.at[Rule(f)] /\ Healthy(t)
    BY <2>4 DEF Leads, IsOnDisk, Rule, Healthy
  <2>6. ~ Awaits(t, PathIn(f, i))
    BY ToSetOfNothing DEF Walked, Types, Awaits
  <2>7. Placed(t, PathIn(f, i))
    BY <2>5, <2>6 DEF Walked, Mounted, Mods
  <2>8. m[1] = t /\ m[2] = PathIn(f, i)
    BY <2>4
  <2> QED BY <2>1, <2>7, <2>8 DEF Placed
<1> HIDE DEF Others
<1> QED BY <1>1, <1>2

(* Whatever the crate, a file met again is given no second warning and no    *)
(* second exclusion, and the finished walk remembers each other place its    *)
(* modules' `mod`s mount a module at, and nothing else                       *)
(* (SecondMeetingsAreSettled, src/modtree.rs:169-172 and 334-404).           *)
THEOREM SecondMeetingsAlways == Spec => []SecondMeetingsAreSettled
<1>1. Init => Accounts
  <2>1. <<>> \in Seq(Told) /\ Len(<<>>) = 0
    OBVIOUS
  <2> QED BY <2>1 DEF Init, Accounts, Says
<1>2. Walked /\ Accounts /\ [Next]_vars => Accounts'
  BY AccountsStep DEF Walked
<1>3. Walked /\ Accounts => SecondMeetingsAreSettled
  <2>1. Accounts => NothingIsSaidTwice
    BY DEF Accounts, Says, NothingIsSaidTwice
  <2> QED BY <2>1, RemountsMatch DEF SecondMeetingsAreSettled
<1> QED BY <1>1, <1>2, <1>3, WalkedAlways, PTL DEF Spec
=================================================================================
