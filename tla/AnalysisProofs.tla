----------------------------- MODULE AnalysisProofs -----------------------------
(*****************************************************************************)
(* What one run answers for, for every workspace: however many packages and  *)
(* files there are, whatever their declarations do and whatever fails.       *)
(*****************************************************************************)
EXTENDS Analysis, FiniteSetTheorems, TLAPS

(* The worklist of a walk ends with the least set that holds its roots and   *)
(* is closed under the declarations (src/modtree.rs:260-286).                *)
LEMMA ClosureIsLeast ==
  ASSUME NEW start, NEW edges, NEW S \in SUBSET Files, start \subseteq S,
         \A e \in edges : e.from \in S => e.to \in S
  PROVE  Closure(start, edges) \subseteq S
BY DEF Closure

(* What is reached from some files begins with them and is files             *)
(* (modtree::resolve, Graph::live).                                          *)
LEMMA ClosureHoldsRoots ==
  ASSUME NEW start \in SUBSET Files, NEW edges
  PROVE  start \subseteq Closure(start, edges) /\ Closure(start, edges) \subseteq Files
BY DEF Closure

(* An edge out of what is reached leads to what is reached.                  *)
LEMMA ClosureIsClosed ==
  ASSUME NEW start, NEW edges \in SUBSET Edge, NEW e \in edges, e.from \in Closure(start, edges)
  PROVE  e.to \in Closure(start, edges)
<1>1. e.to \in Files
  BY DEF Edge
<1> QED BY <1>1 DEF Closure

(* More roots and more declarations reach no less. *)
LEMMA ClosureIsMonotone ==
  ASSUME NEW start \in SUBSET Files, NEW edges \in SUBSET Edge,
         NEW from \in SUBSET start, NEW along \in SUBSET edges
  PROVE  Closure(from, along) \subseteq Closure(start, edges)
<1>1. Closure(start, edges) \in SUBSET Files /\ from \subseteq Closure(start, edges)
  BY ClosureHoldsRoots
<1>2. \A e \in along : e.from \in Closure(start, edges) => e.to \in Closure(start, edges)
  BY ClosureIsClosed
<1> QED BY <1>1, <1>2, ClosureIsLeast

(* Walking the roots one by one reaches what walking them together does: the *)
(* targets of a package share no state but the lists they add to.            *)
LEMMA ClosureOfUnion ==
  ASSUME NEW some \in SUBSET Files, NEW more \in SUBSET Files, NEW edges \in SUBSET Edge
  PROVE  Closure(some \cup more, edges) = Closure(some, edges) \cup Closure(more, edges)
<1> DEFINE both == Closure(some, edges) \cup Closure(more, edges)
<1>1. both \in SUBSET Files /\ some \cup more \subseteq both
  BY ClosureHoldsRoots
<1>2. \A e \in edges : e.from \in both => e.to \in both
  BY ClosureIsClosed
<1>3. Closure(some \cup more, edges) \subseteq both
  <2> HIDE DEF both
  <2> QED BY <1>1, <1>2, ClosureIsLeast
<1>4. both \subseteq Closure(some \cup more, edges)
  BY ClosureIsMonotone
<1> QED BY <1>3, <1>4

(* From no file nothing is reached.                                          *)
LEMMA ClosureOfNothing ==
  ASSUME NEW edges PROVE Closure({}, edges) = {}
<1>1. Closure({}, edges) \subseteq {}
  BY ClosureIsLeast
<1> QED BY <1>1

(* Declarations of files that are not reached make no difference: a file     *)
(* that does not parse hides something only from the walks that meet it.     *)
LEMMA UnreachedMakeNoDifference ==
  ASSUME NEW start \in SUBSET Files, NEW edges \in SUBSET Edge, NEW along \in SUBSET edges,
         \A e \in edges : e.from \in Closure(start, along) => e \in along
  PROVE  Closure(start, edges) = Closure(start, along)
<1>1. Closure(start, along) \in SUBSET Files /\ start \subseteq Closure(start, along)
  BY ClosureHoldsRoots
<1>2. \A e \in edges : e.from \in Closure(start, along) => e.to \in Closure(start, along)
  BY ClosureIsClosed
<1>3. Closure(start, edges) \subseteq Closure(start, along)
  BY <1>1, <1>2, ClosureIsLeast
<1>4. Closure(start, along) \subseteq Closure(start, edges)
  BY ClosureIsMonotone
<1> QED BY <1>3, <1>4

(* The modules the table has of a crate are modules of it. *)
LEMMA OwnedAreModules ==
  ASSUME NEW root, NEW mods
  PROVE  Owned(root, mods) \subseteq Closure({root}, mods)
BY DEF Owned

(* Which modules are mounted twice is told by the modules that are reached.  *)
LEMMA OwnedMakesNoDifference ==
  ASSUME NEW root \in Files, NEW edges \in SUBSET Edge, NEW along \in SUBSET edges,
         \A e \in edges : e.from \in Closure({root}, along) => e \in along
  PROVE  Owned(root, edges) = Owned(root, along)
<1> DEFINE files == Closure({root}, along)
           Twice(mods) == {f \in files \ {root} :
                            \E d, e \in mods : /\ d.to = f /\ e.to = f /\ d.from # e.from
                                              /\ {d.from, e.from} \subseteq files}
           twice == Twice(along)
           Down(mods) == {e \in mods : e.to # root}
<1>1. Closure({root}, edges) = files
  BY UnreachedMakeNoDifference
<1>2. files \in SUBSET Files /\ \A e \in along : e.from \in files => e.to \in files
  BY ClosureHoldsRoots, ClosureIsClosed
<1>3. Twice(edges) = twice
  OBVIOUS
<1>4. Closure(twice, Down(along)) \subseteq files
  <2>1. twice \subseteq files /\ \A e \in Down(along) : e.from \in files => e.to \in files
    BY <1>2
  <2> HIDE DEF files, twice, Down
  <2> QED BY <1>2, <2>1, ClosureIsLeast
<1>5. /\ twice \in SUBSET Files /\ Down(edges) \in SUBSET Edge /\ Down(along) \in SUBSET Down(edges)
      /\ \A e \in Down(edges) : e.from \in Closure(twice, Down(along)) => e \in Down(along)
  <2> HIDE DEF files
  <2>1. twice \in SUBSET Files
    BY <1>2
  <2>2. \A e \in edges : e.from \in files => e \in along
    BY DEF files
  <2> QED BY <1>4, <2>1, <2>2
<1>6. Closure(twice, Down(edges)) = Closure(twice, Down(along))
  <2> HIDE DEF twice, Down
  <2> QED BY <1>5, UnreachedMakeNoDifference
<1>7. /\ Owned(root, edges) = files \ Closure(Twice(edges), Down(edges))
      /\ Owned(root, along) = files \ Closure(twice, Down(along))
  BY <1>1 DEF Owned
<1> QED BY <1>3, <1>6, <1>7

(* What is left when the modules mounted twice and all below them are taken  *)
(* away is what single mounts lead to (src/lib.rs:397-424).                  *)
LEMMA OwnedAreMountedOnce ==
  ASSUME NEW root \in Files, NEW mods \in SUBSET Edge
  PROVE  Owned(root, mods) = MountedOnce(root, mods)
<1> DEFINE files == Closure({root}, mods)
           twice == {f \in files \ {root} :
                       \E d, e \in mods : /\ d.to = f /\ e.to = f /\ d.from # e.from
                                         /\ {d.from, e.from} \subseteq files}
           down  == {e \in mods : e.to # root}
           below == Closure(twice, down)
           alone == {e \in mods : \A d \in mods : d.to = e.to /\ d.from \in files => d.from = e.from}
           once  == Closure({root}, alone)
<1>1. Owned(root, mods) = files \ below /\ MountedOnce(root, mods) = once
  BY DEF Owned, MountedOnce
<1>2. /\ files \in SUBSET Files /\ root \in files /\ mods \in SUBSET Edge
      /\ \A e \in mods : e.from \in files => e.to \in files
  BY ClosureHoldsRoots, ClosureIsClosed
<1>3. /\ \A f \in twice : f \in files /\ f # root
      /\ \A d, e \in mods : d.from \in files /\ e.from \in files /\ d.to = e.to /\ d.from # e.from
           => d.to = root \/ d.to \in twice
  BY <1>2
<1>4. /\ down \in SUBSET mods /\ \A e \in mods : e \in down <=> e.to # root
      /\ alone \in SUBSET mods
      /\ \A e \in mods : e \in alone <=> \A d \in mods : d.to = e.to /\ d.from \in files => d.from = e.from
  OBVIOUS
<1> HIDE DEF files, twice, down, alone
<1>5. twice \subseteq below /\ \A e \in down : e.from \in below => e.to \in below
  BY <1>2, <1>3, <1>4, ClosureHoldsRoots, ClosureIsClosed
<1>6. root \in once /\ \A e \in alone : e.from \in once => e.to \in once
  BY <1>2, <1>4, ClosureHoldsRoots, ClosureIsClosed
<1>7. below \subseteq files \ {root}
  <2>1. files \ {root} \in SUBSET Files /\ twice \subseteq files \ {root}
        /\ \A e \in down : e.from \in files \ {root} => e.to \in files \ {root}
    BY <1>2, <1>3, <1>4
  <2> QED BY <2>1, ClosureIsLeast
<1>8. ASSUME NEW e \in alone, e.from \in files \ below
      PROVE  e.to \in files \ below
  <2>1. e.to \in files
    BY <1>2, <1>4, <1>8
  <2>2. ASSUME e.to \in below PROVE FALSE
    <3>1. e.to # root /\ e.to \notin twice
      BY <1>3, <1>4, <1>7, <1>8, <2>2 DEF twice
    <3>2. below \ {e.to} \in SUBSET Files /\ twice \subseteq below \ {e.to}
      BY <1>2, <1>5, <1>7, <3>1
    <3>3. \A d \in down : d.from \in below \ {e.to} => d.to \in below \ {e.to}
      BY <1>4, <1>5, <1>7, <1>8
    <3>4. below \subseteq below \ {e.to}
      <4> DEFINE less == below \ {e.to}
      <4>1. less \in SUBSET Files /\ twice \subseteq less /\ \A d \in down : d.from \in less => d.to \in less
        BY <3>2, <3>3
      <4> HIDE DEF less
      <4>2. Closure(twice, down) \subseteq less
        BY <4>1, ClosureIsLeast
      <4> QED BY <4>2 DEF less
    <3> QED BY <2>2, <3>4
  <2> QED BY <2>1, <2>2
<1>9. once \subseteq files \ below
  <2> DEFINE rest == files \ below
  <2>1. rest \in SUBSET Files /\ {root} \subseteq rest /\ \A e \in alone : e.from \in rest => e.to \in rest
    BY <1>2, <1>7, <1>8
  <2> HIDE DEF rest
  <2>2. Closure({root}, alone) \subseteq rest
    BY <2>1, ClosureIsLeast
  <2> QED BY <2>2 DEF rest
<1>10. files \subseteq once \cup below
  <2> DEFINE both == once \cup below
  <2>1. once \in SUBSET Files /\ once \subseteq files /\ below \subseteq files
    BY <1>2, <1>7, <1>9
  <2>2. ASSUME NEW e \in mods, e.from \in both PROVE e.to \in both
    <3>1. CASE e.from \in below
      BY <1>4, <1>5, <1>6, <3>1
    <3>2. CASE e.from \in once /\ e \in alone
      BY <1>6, <3>2
    <3>3. CASE e.from \in once /\ e \notin alone
      <4>1. PICK d \in mods : d.to = e.to /\ d.from \in files /\ d.from # e.from
        BY <1>4, <3>3
      <4>2. e.to = root \/ e.to \in twice
        BY <1>3, <2>1, <3>3, <4>1
      <4> QED BY <1>5, <1>6, <4>2
    <3> QED BY <2>2, <3>1, <3>2, <3>3
  <2>3. both \in SUBSET Files /\ {root} \subseteq both
    BY <1>2, <1>6, <2>1
  <2> HIDE DEF both
  <2>4. Closure({root}, mods) \subseteq both
    BY <2>2, <2>3, ClosureIsLeast
  <2> QED BY <2>4 DEF both, files
<1> QED BY <1>1, <1>7, <1>9, <1>10

-------------------------------------------------------------------------------
(* The workspace stays the one the run was given. *)
LEMMA WorkspaceFacts ==
  ASSUME workspace \in Workspaces
  PROVE  /\ workspace.order \in Seq(Packages) /\ ToSet(workspace.order) = Packages
         /\ \A i, j \in 1..Len(workspace.order) : workspace.order[i] = workspace.order[j] => i = j
         /\ \A p \in Packages : workspace.targets[p] \in Seq(Files)
         /\ workspace.edges \in SUBSET Edge
         /\ workspace.swept \in [Packages -> SUBSET Files]
         /\ workspace.dir \in [Packages -> SUBSET Files]
BY WorkspacesAreTyped DEF IsInjective

(* The warnings of a walk: as many as the files it met that do not parse or  *)
(* declare a module that is not there.                                       *)
LEMMA TroublesAreCounted ==
  ASSUME NEW files \in SUBSET Files
  PROVE  /\ Troubles(files) \in Seq(Files)
         /\ Len(Troubles(files)) = 0 <=> files \cap (workspace.broken \cup workspace.lost) = {}
<1> DEFINE T == files \cap (workspace.broken \cup workspace.lost)
           n == Cardinality(T)
<1>1. IsFiniteSet(T)
  BY FilesAreFinite, FS_Subset
<1>2. n \in Nat /\ ExistsBijection(1..n, T)
  BY <1>1, FS_CardinalityType
<1>3. \E f \in [1..n -> T] : IsInjective(f)
  BY <1>2 DEF ExistsBijection, Bijection, Injection, IsInjective
<1>4. Troubles(files) \in [1..n -> T]
  BY <1>3 DEF Troubles, SetToSeq
<1>5. Len(Troubles(files)) = n /\ Troubles(files) \in Seq(Files)
  <2> DEFINE s == Troubles(files)
  <2>1. n \in Nat /\ s \in [1..n -> Files]
    BY <1>2, <1>4
  <2> HIDE DEF s, n
  <2>2. s \in Seq(Files) /\ Len(s) = n
    BY <2>1
  <2> QED BY <2>2 DEF s
<1>6. n = 0 <=> T = {}
  BY <1>1, FS_EmptySet
<1> QED BY <1>5, <1>6

(* A warning added to the list is added to the set of those told.            *)
LEMMA ToSetOfAppend ==
  ASSUME NEW S, NEW s \in Seq(S), NEW x
  PROVE  ToSet(Append(s, x)) = ToSet(s) \cup {x}
BY DEF ToSet

-------------------------------------------------------------------------------
(* What walking some of a package's roots leaves behind. *)

FollowedMods(p) == {e \in Followed(p) : e.kind = "mod"}

Excludes(p, files) ==
  {e.to : e \in {d \in workspace.edges :
                   d.from \in files \ workspace.broken /\ d.kind = "mod" /\ p \in d.ruledOut}}

All(reach) == reach.files \cup reach.spliced

Walked(p, roots, reach) ==
  /\ reach.files = Closure(roots, FollowedMods(p))
  /\ All(reach) = Closure(roots, Followed(p))
  /\ reach.excluded = Excludes(p, All(reach))

Both(some, more) ==
  [files |-> some.files \cup more.files, spliced |-> some.spliced \cup more.spliced,
   excluded |-> some.excluded \cup more.excluded]

(* One walk, from one root. *)
LEMMA ResolvedIsWalked ==
  ASSUME workspace \in Workspaces, NEW p \in Packages, NEW root \in Files
  PROVE  /\ Resolved(p, root) \in Reach
         /\ Walked(p, {root}, Resolved(p, root))
         /\ Resolved(p, root).spliced \cap Resolved(p, root).files = {}
<1> DEFINE files == Closure({root}, FollowedMods(p))
           all   == Closure({root}, Followed(p))
<1>1. Followed(p) \in SUBSET Edge /\ FollowedMods(p) \in SUBSET Followed(p)
  BY WorkspaceFacts DEF Followed, FollowedMods
<1>2. files \subseteq all /\ all \subseteq Files
  BY <1>1, ClosureIsMonotone, ClosureHoldsRoots
<1>3. Excludes(p, all) \subseteq Files
  BY WorkspaceFacts DEF Excludes, Edge
<1>4. Resolved(p, root) = [files |-> files, spliced |-> all \ files, excluded |-> Excludes(p, all)]
  BY DEF Resolved, FollowedMods, Excludes
<1> HIDE DEF files, all
<1>5. All(Resolved(p, root)) = all
  BY <1>2, <1>4 DEF All
<1> QED BY <1>2, <1>3, <1>4, <1>5 DEF Walked, Reach, files, all

(* A package's targets put together. *)
LEMMA WalksAddUp ==
  ASSUME workspace \in Workspaces, NEW p \in Packages,
         NEW some \in SUBSET Files, NEW more \in SUBSET Files, NEW one, NEW other,
         Walked(p, some, one), Walked(p, more, other)
  PROVE  Walked(p, some \cup more, Both(one, other))
<1>1. Followed(p) \in SUBSET Edge /\ FollowedMods(p) \in SUBSET Edge
  BY WorkspaceFacts DEF Followed, FollowedMods
<1>2. /\ Closure(some \cup more, Followed(p)) = All(one) \cup All(other)
      /\ Closure(some \cup more, FollowedMods(p)) = one.files \cup other.files
  BY <1>1, ClosureOfUnion DEF Walked
<1>3. All(Both(one, other)) = All(one) \cup All(other)
  BY DEF All, Both
<1>4. Excludes(p, All(one) \cup All(other)) = one.excluded \cup other.excluded
  <2>1. \A S, T : Excludes(p, S \cup T) = Excludes(p, S) \cup Excludes(p, T)
    BY DEF Excludes
  <2> QED BY <2>1 DEF Walked
<1> QED BY <1>2, <1>3, <1>4 DEF Walked, Both

(* A package no target of which was walked has contributed nothing.          *)
LEMMA NothingIsWalked ==
  ASSUME NEW p
  PROVE  Walked(p, {}, Nobody)
BY ClosureOfNothing DEF Walked, Nobody, All, Excludes

-------------------------------------------------------------------------------
(* Where the walk stands: the packages it is done with, the roots it has     *)
(* walked of each, and what it has reached of each so far.                   *)

Finished == {workspace.order[i] : i \in 1..(next[1] - 1)}

RootsSoFar(p) ==
  IF Walking /\ p = Package THEN {workspace.targets[p][j] : j \in 1..(next[2] - 1)}
  ELSE IF p \in Finished THEN Roots(p) ELSE {}

SoFar(p) == IF Walking /\ p = Package THEN own ELSE seen[p]

Clear(reach) == All(reach) \cap (workspace.broken \cup workspace.lost) = {}

WalkTypes ==
  /\ workspace \in Workspaces
  /\ next \in Nat \X Nat /\ next[1] \in 1..(Len(workspace.order) + 1) /\ next[2] >= 1
  /\ Walking => next[2] <= Len(workspace.targets[Package]) + 1
  /\ own \in Reach /\ seen \in [Packages -> Reach]
  /\ reachable \subseteq Files /\ excluded \subseteq Files /\ spliced \subseteq Files
  /\ crates \in Seq([files: SUBSET Files, spliced: SUBSET Files])
  /\ complete \in Seq(Packages)
  /\ warnings \in Seq(Files \cup Packages \cup {"items"}) /\ before \in 0..Len(warnings)

(* A package that is not begun has nothing, and the walk is in one at a time.*)
OneAtATime ==
  /\ \A p \in Packages : p \notin Finished => seen[p] = Nobody
  /\ ~ Walking => own = Nobody

(* Each package has what its roots so far lead to, in its own matrix. *)
EachIsWalked == \A p \in Packages : Walked(p, RootsSoFar(p), SoFar(p))

(* The shared lists and the crates hold what the packages reached. *)
ListsAreUnions ==
  /\ reachable = UNION {seen[p].files : p \in Packages}
  /\ excluded = UNION {seen[p].excluded : p \in Packages}
  /\ spliced = UNION {seen[p].spliced : p \in Packages}

OwnedSoFar(p) == UNION {Owned(r, FollowedMods(p)) : r \in RootsSoFar(p)}

CratesAreUnions ==
  /\ Table = UNION {OwnedSoFar(p) : p \in Packages}
  /\ Readers = UNION {All(SoFar(p)) : p \in Packages}

CratesAreTyped == \A c \in ToSet(crates) : c.files \subseteq Files /\ c.spliced \cap c.files = {}

(* No warning is lost: a package is complete only if its walk met nothing,   *)
(* and without warnings every walk was like that.                            *)
SilenceIsClear ==
  /\ Walking /\ Len(warnings) = before => Clear(own)
  /\ IsInjective(complete) /\ ToSet(complete) \subseteq Finished
  /\ \A p \in ToSet(complete) : Clear(seen[p])
  /\ Len(warnings) = 0 => ToSet(complete) = Finished

Sites(p) == (SoFar(p).files \cap workspace.gated) \ workspace.broken

(* The gates: condemned by every package so far that cannot hold them, and   *)
(* excused by any that can.                                                  *)
GatesAreTold ==
  /\ \A s \in impossible : \E p \in Packages : \E f \in Sites(p) : s = <<f, p>> /\ s \notin workspace.holds
  /\ \A p \in Packages : \A f \in Sites(p) :
       <<f, p>> \notin workspace.holds => \E q \in Packages : <<f, q>> \in impossible
  /\ satisfiable = {f \in Files : \E p \in Packages : f \in Sites(p) /\ <<f, p>> \in workspace.holds}

WalkInv ==
  WalkTypes /\ OneAtATime /\ EachIsWalked /\ ListsAreUnions /\ CratesAreUnions /\ CratesAreTyped
    /\ SilenceIsClear /\ GatesAreTold

-------------------------------------------------------------------------------
(* One target walked: its package has what it had and what the root leads to.*)
LEMMA TargetStep ==
  ASSUME WalkTypes, WalkTarget
  PROVE  LET p    == Package
             root == workspace.targets[p][next[2]]
             r    == Resolved(p, root)
         IN  /\ p \in Packages /\ root \in Files /\ r \in Reach
             /\ own' = Both(own, r)
             /\ \A q \in Packages :
                  /\ q = p => SoFar(q)' = Both(SoFar(q), r) /\ RootsSoFar(q)' = RootsSoFar(q) \cup {root}
                  /\ q # p => SoFar(q)' = SoFar(q) /\ RootsSoFar(q)' = RootsSoFar(q)
<1> DEFINE p    == Package
           root == workspace.targets[p][next[2]]
           r    == Resolved(p, root)
<1> USE DEF WalkTypes
<1>1. Walking /\ next[1] \in 1..Len(workspace.order) /\ next[2] \in 1..Len(workspace.targets[p])
  BY DEF WalkTarget, Walking
<1>2. p \in Packages /\ root \in Files
  BY <1>1, WorkspaceFacts DEF Package
<1>3. r \in Reach
  BY <1>2, ResolvedIsWalked
<1>4. /\ own' = Both(own, r) /\ seen' = seen /\ workspace' = workspace
      /\ next' = <<next[1], next[2] + 1>>
  BY DEF WalkTarget, Both
<1>5. next'[1] = next[1] /\ next'[2] = next[2] + 1 /\ Package' = p /\ Walking' /\ Finished' = Finished
  BY <1>1, <1>4 DEF Package, Walking, Finished
<1>6. {workspace.targets[p][j] : j \in 1..(next'[2] - 1)}
        = {workspace.targets[p][j] : j \in 1..(next[2] - 1)} \cup {root}
  <2>1. 1..(next'[2] - 1) = 1..(next[2] - 1) \cup {next[2]}
    BY <1>1, <1>5
  <2> QED BY <2>1
<1>7. ASSUME NEW q \in Packages
      PROVE  /\ q = p => SoFar(q)' = Both(SoFar(q), r) /\ RootsSoFar(q)' = RootsSoFar(q) \cup {root}
             /\ q # p => SoFar(q)' = SoFar(q) /\ RootsSoFar(q)' = RootsSoFar(q)
  <2> HIDE DEF p, root, r
  <2>1. CASE q = p
    <3>1. SoFar(q)' = own' /\ SoFar(q) = own
      BY <1>1, <1>5, <2>1 DEF SoFar, p
    <3>2. /\ RootsSoFar(q)' = {workspace.targets[p][j] : j \in 1..(next'[2] - 1)}
          /\ RootsSoFar(q) = {workspace.targets[p][j] : j \in 1..(next[2] - 1)}
      BY <1>1, <1>4, <1>5, <2>1 DEF RootsSoFar, p
    <3>3. RootsSoFar(q)' = RootsSoFar(q) \cup {root}
      BY <1>6, <3>2
    <3> QED BY <1>4, <2>1, <3>1, <3>3
  <2>2. CASE q # p
    BY <1>1, <1>4, <1>5, <2>2 DEF SoFar, RootsSoFar, Roots, p
  <2> QED BY <2>1, <2>2
<1> HIDE DEF p, root, r
<1>8. QED BY <1>2, <1>3, <1>4, <1>7 DEF p, root, r

(* One package done: nobody has more or less of it than before. *)
LEMMA PackageStep ==
  ASSUME WalkTypes, OneAtATime, EndPackage
  PROVE  /\ Package \in Packages /\ Package \notin Finished
         /\ Finished' = Finished \cup {Package}
         /\ seen[Package] = Nobody /\ seen'[Package] = own /\ own' = Nobody
         /\ \A q \in Packages : q # Package => seen'[q] = seen[q]
         /\ \A q \in Packages : SoFar(q)' = SoFar(q) /\ RootsSoFar(q)' = RootsSoFar(q)
<1> USE DEF WalkTypes
<1>1. Walking /\ next[1] \in 1..Len(workspace.order) /\ next[2] = Len(workspace.targets[Package]) + 1
  <2>1. Walking /\ next[1] \in 1..Len(workspace.order) /\ next[2] > Len(workspace.targets[Package])
    BY DEF EndPackage, Walking
  <2>2. workspace.targets[Package] \in Seq(Files)
    BY <2>1, WorkspaceFacts DEF Package
  <2> QED BY <2>1, <2>2
<1>2. /\ seen' = [seen EXCEPT ![Package] = own] /\ own' = Nobody /\ workspace' = workspace
      /\ next' = <<next[1] + 1, 1>>
  BY DEF EndPackage
<1>3. next'[1] = next[1] + 1 /\ next'[2] = 1
  BY <1>2
<1>4. Package \in Packages /\ Package \notin Finished
  BY <1>1, WorkspaceFacts DEF Package, Finished
<1>5. Finished' = Finished \cup {Package}
  <2>1. 1..(next'[1] - 1) = 1..(next[1] - 1) \cup {next[1]}
    BY <1>1, <1>3
  <2> QED BY <1>2, <2>1 DEF Finished, Package
<1>6. /\ seen[Package] = Nobody /\ seen'[Package] = own
      /\ \A q \in Packages : q # Package => seen'[q] = seen[q]
  BY <1>2, <1>4 DEF OneAtATime
<1>7. {workspace.targets[Package][j] : j \in 1..(next[2] - 1)} = Roots(Package)
  <2>1. workspace.targets[Package] \in Seq(Files)
    BY <1>4, WorkspaceFacts
  <2> QED BY <1>1, <2>1 DEF Roots, ToSet
<1>8. Walking' => Package' \in Packages /\ Package' # Package /\ Package' \notin Finished
  <2> SUFFICES ASSUME Walking' PROVE Package' \in Packages /\ Package' # Package /\ Package' \notin Finished
    OBVIOUS
  <2>1. Package' = workspace.order[next[1] + 1] /\ next[1] + 1 \in 1..Len(workspace.order)
    BY <1>1, <1>2, <1>3 DEF Walking, Package
  <2> QED BY <1>1, <2>1, WorkspaceFacts DEF Package, Finished
<1>9. ASSUME NEW q \in Packages PROVE SoFar(q)' = SoFar(q) /\ RootsSoFar(q)' = RootsSoFar(q)
  <2>1. CASE q = Package
    <3>1. ~ (Walking' /\ q = Package')
      BY <1>8, <2>1
    <3>2. SoFar(q)' = seen'[q] /\ RootsSoFar(q)' = Roots(q)'
      BY <1>5, <2>1, <3>1 DEF SoFar, RootsSoFar
    <3>3. Roots(q)' = Roots(q)
      BY <1>2 DEF Roots
    <3>4. SoFar(q) = own /\ RootsSoFar(q) = {workspace.targets[Package][j] : j \in 1..(next[2] - 1)}
      BY <1>1, <2>1 DEF SoFar, RootsSoFar
    <3> QED BY <1>6, <1>7, <2>1, <3>2, <3>3, <3>4
  <2>2. CASE q # Package /\ Walking' /\ q = Package'
    <3>1. SoFar(q)' = own' /\ RootsSoFar(q)' = {workspace'.targets[q][j] : j \in 1..(next'[2] - 1)}
      BY <2>2 DEF SoFar, RootsSoFar
    <3>2. RootsSoFar(q)' = {}
      BY <1>3, <3>1
    <3>3. q \notin Finished
      BY <1>8, <2>2
    <3>4. SoFar(q) = Nobody /\ RootsSoFar(q) = {}
      BY <2>2, <3>3 DEF SoFar, RootsSoFar, OneAtATime
    <3> QED BY <1>2, <3>1, <3>2, <3>4
  <2>3. CASE q # Package /\ ~ (Walking' /\ q = Package')
    <3>1. SoFar(q)' = seen'[q] /\ SoFar(q) = seen[q]
      BY <2>3 DEF SoFar
    <3>2. Roots(q)' = Roots(q) /\ (q \in Finished' <=> q \in Finished)
      BY <1>2, <1>5, <2>3 DEF Roots
    <3>3. RootsSoFar(q)' = RootsSoFar(q)
      BY <2>3, <3>2 DEF RootsSoFar
    <3> QED BY <1>6, <2>3, <3>1, <3>3
  <2> QED BY <2>1, <2>2, <2>3
<1> QED BY <1>2, <1>4, <1>5, <1>6, <1>9

(* The roots met so far are files.                                           *)
LEMMA RootsAreFiles ==
  ASSUME WalkTypes, NEW q \in Packages
  PROVE  RootsSoFar(q) \in SUBSET Files
<1>1. workspace.targets[q] \in Seq(Files)
  BY WorkspaceFacts DEF WalkTypes
<1>2. Roots(q) \subseteq Files
  BY <1>1 DEF Roots, ToSet
<1>3. CASE Walking /\ q = Package
  <2>1. next[2] - 1 <= Len(workspace.targets[q]) /\ next[2] \in Nat
    BY <1>1, <1>3 DEF WalkTypes
  <2>2. \A j \in 1..(next[2] - 1) : workspace.targets[q][j] \in Files
    BY <1>1, <2>1
  <2> QED BY <1>3, <2>2 DEF RootsSoFar
<1>4. CASE ~ (Walking /\ q = Package)
  BY <1>2, <1>4 DEF RootsSoFar
<1> QED BY <1>3, <1>4

(* Walking one more target keeps every part of the account. *)
LEMMA TargetKeepsAccount == WalkInv /\ WalkTarget => WalkInv'
<1> SUFFICES ASSUME WalkInv, WalkTarget PROVE WalkInv'
  OBVIOUS
<1> DEFINE p    == Package
           root == workspace.targets[p][next[2]]
           r    == Resolved(p, root)
           new  == [files |-> Owned(root, FollowedMods(p)), spliced |-> All(r) \ Owned(root, FollowedMods(p))]
<1>1. WalkTypes /\ OneAtATime /\ EachIsWalked /\ ListsAreUnions /\ CratesAreUnions /\ CratesAreTyped
        /\ SilenceIsClear /\ GatesAreTold
  BY DEF WalkInv
<1>2. /\ p \in Packages /\ root \in Files /\ r \in Reach
      /\ own' = Both(own, r)
      /\ \A q \in Packages :
           /\ q = p => SoFar(q)' = Both(SoFar(q), r) /\ RootsSoFar(q)' = RootsSoFar(q) \cup {root}
           /\ q # p => SoFar(q)' = SoFar(q) /\ RootsSoFar(q)' = RootsSoFar(q)
  BY <1>1, TargetStep
<1>3. /\ workspace \in Workspaces /\ workspace' = workspace /\ seen' = seen /\ complete' = complete
      /\ next'[1] = next[1] /\ next'[2] = next[2] + 1 /\ before' = before
      /\ Walking /\ Walking' /\ Package' = p /\ Finished' = Finished
      /\ next[2] \in 1..Len(workspace.targets[p]) /\ next' = <<next[1], next[2] + 1>>
      /\ reachable' = reachable /\ excluded' = excluded /\ spliced' = spliced
  <2>1. /\ workspace \in Workspaces /\ workspace' = workspace /\ seen' = seen /\ complete' = complete
        /\ before' = before /\ Walking /\ next' = <<next[1], next[2] + 1>>
        /\ next[2] \in Nat /\ next[2] >= 1 /\ next[2] <= Len(workspace.targets[p])
        /\ reachable' = reachable /\ excluded' = excluded /\ spliced' = spliced
    BY <1>1 DEF WalkTarget, WalkTypes, unionVars
  <2>2. workspace.targets[p] \in Seq(Files)
    BY <1>2, <2>1, WorkspaceFacts
  <2>3. next'[1] = next[1] /\ next'[2] = next[2] + 1
    BY <2>1
  <2> QED BY <2>1, <2>2, <2>3 DEF Walking, Package, Finished
<1>4. /\ crates' = Append(crates, new)
      /\ warnings' = warnings \o Troubles(All(r))
      /\ Record(p, r.files)
  BY DEF WalkTarget, Divided, All, FollowedMods
<1>5. Walked(p, {root}, r) /\ r.spliced \cap r.files = {}
  BY <1>2, <1>3, ResolvedIsWalked
<1>6. All(r) \in SUBSET Files /\ All(Both(own, r)) = All(own) \cup All(r)
  BY <1>2 DEF All, Reach, Both
<1>7. /\ Troubles(All(r)) \in Seq(Files)
      /\ Len(Troubles(All(r))) = 0 <=> All(r) \cap (workspace.broken \cup workspace.lost) = {}
  BY <1>6, TroublesAreCounted
<1>8. /\ warnings' \in Seq(Files \cup Packages \cup {"items"})
      /\ Len(warnings') = Len(warnings) + Len(Troubles(All(r)))
      /\ Len(warnings) \in Nat /\ Len(Troubles(All(r))) \in Nat /\ before \in 0..Len(warnings)
  <2> DEFINE W == Files \cup Packages \cup {"items"}
             t == Troubles(All(r))
  <2>1. warnings \in Seq(W) /\ t \in Seq(W) /\ before \in 0..Len(warnings)
    BY <1>1, <1>7 DEF WalkTypes
  <2> HIDE DEF W, t
  <2>2. (warnings \o t) \in Seq(W) /\ Len(warnings \o t) = Len(warnings) + Len(t)
        /\ Len(warnings) \in Nat /\ Len(t) \in Nat
    BY <2>1
  <2> QED BY <1>4, <2>1, <2>2 DEF W, t
<1>9. /\ new \in [files: SUBSET Files, spliced: SUBSET Files]
      /\ new.files = Owned(root, FollowedMods(p)) /\ new.files \cup new.spliced = All(r)
      /\ new.spliced \cap new.files = {}
  <2>1. Owned(root, FollowedMods(p)) \subseteq r.files
    BY <1>5, OwnedAreModules DEF Walked
  <2> QED BY <1>2, <1>6, <2>1 DEF Reach, All
<1> HIDE DEF p, root, r, new
<1>10. WalkTypes'
  <2>1. next' \in Nat \X Nat /\ next'[1] = next[1] /\ next'[2] = next[2] + 1
    BY <1>1, <1>3 DEF WalkTypes
  <2>2. Walking' => next'[2] <= Len(workspace'.targets[Package']) + 1
    <3>1. workspace.targets[p] \in Seq(Files)
      BY <1>2, <1>3, WorkspaceFacts
    <3> QED BY <1>3, <2>1, <3>1
  <2>3. Both(own, r) \in Reach
    BY <1>1, <1>2 DEF Both, Reach, WalkTypes
  <2>4. crates' \in Seq([files: SUBSET Files, spliced: SUBSET Files])
    BY <1>1, <1>4, <1>9 DEF WalkTypes
  <2>5. before' \in 0..Len(warnings')
    BY <1>3, <1>8
  <2> QED BY <1>1, <1>2, <1>3, <1>8, <2>1, <2>2, <2>3, <2>4, <2>5 DEF WalkTypes
<1>11. OneAtATime'
  BY <1>1, <1>3 DEF OneAtATime
<1>12. EachIsWalked'
  <2> SUFFICES ASSUME NEW q \in Packages PROVE Walked(q, RootsSoFar(q), SoFar(q))'
    BY DEF EachIsWalked
  <2>1. RootsSoFar(q) \in SUBSET Files
    BY <1>1, RootsAreFiles
  <2>2. Walked(q, RootsSoFar(q), SoFar(q))
    BY <1>1 DEF EachIsWalked
  <2>3. CASE q = p
    <3>1. Walked(q, RootsSoFar(q) \cup {root}, Both(SoFar(q), r))
      BY <1>2, <1>3, <1>5, <2>1, <2>2, <2>3, WalksAddUp
    <3> QED BY <1>2, <1>3, <2>3, <3>1 DEF Walked, FollowedMods, Followed, Excludes, All
  <2>4. CASE q # p
    BY <1>2, <1>3, <2>2, <2>4 DEF Walked, FollowedMods, Followed, Excludes, All
  <2> QED BY <2>3, <2>4
<1>13. ListsAreUnions'
  BY <1>1, <1>3 DEF ListsAreUnions
<1>14. ToSet(crates') = ToSet(crates) \cup {new}
  BY <1>1, <1>4, ToSetOfAppend DEF WalkTypes
<1>15. CratesAreUnions'
  <2>1. Table' = Table \cup new.files /\ Readers' = Readers \cup All(r)
    <3>1. Table' = Table \cup new.files
      BY <1>14 DEF Table
    <3>2. UNION {c.spliced : c \in ToSet(crates')} = (UNION {c.spliced : c \in ToSet(crates)}) \cup new.spliced
      BY <1>14
    <3> QED BY <1>9, <3>1, <3>2 DEF Readers
  <2>2. \A q \in Packages :
          /\ q = p => OwnedSoFar(q)' = OwnedSoFar(q) \cup new.files
          /\ q = p => All(SoFar(q)') = All(SoFar(q)) \cup All(r)
          /\ q # p => OwnedSoFar(q)' = OwnedSoFar(q) /\ SoFar(q)' = SoFar(q)
    <3>1. \A q \in Packages : FollowedMods(q)' = FollowedMods(q)
      BY <1>3 DEF FollowedMods, Followed
    <3>2. \A q \in Packages : OwnedSoFar(q)' = UNION {Owned(f, FollowedMods(q)) : f \in RootsSoFar(q)'}
      BY <3>1 DEF OwnedSoFar, Owned, Closure
    <3>3. \A q \in Packages : q = p => OwnedSoFar(q)' = OwnedSoFar(q) \cup new.files
      BY <1>2, <1>9, <3>2 DEF OwnedSoFar
    <3>4. \A q \in Packages : q # p => OwnedSoFar(q)' = OwnedSoFar(q)
      BY <1>2, <3>2 DEF OwnedSoFar
    <3> QED BY <1>2, <3>3, <3>4 DEF Both, All
  <2>3. UNION {OwnedSoFar(q)' : q \in Packages} = (UNION {OwnedSoFar(q) : q \in Packages}) \cup new.files
    BY <1>2, <2>2
  <2>4. UNION {All(SoFar(q)') : q \in Packages} = (UNION {All(SoFar(q)) : q \in Packages}) \cup All(r)
    BY <1>2, <2>2
  <2> QED BY <1>1, <2>1, <2>3, <2>4 DEF CratesAreUnions, All
<1>16. CratesAreTyped'
  BY <1>1, <1>9, <1>14 DEF CratesAreTyped
<1>17. SilenceIsClear'
  <2>1. ASSUME Len(warnings') = before' PROVE Clear(own)'
    <3>1. Len(warnings) = before /\ Len(Troubles(All(r))) = 0
      BY <1>3, <1>8, <2>1
    <3>2. Clear(own)
      BY <1>1, <1>3, <3>1 DEF SilenceIsClear
    <3>3. All(own') = All(own) \cup All(r)
      BY <1>2, <1>6
    <3> QED BY <1>3, <1>7, <3>1, <3>2, <3>3 DEF Clear, All
  <2>2. \A q \in ToSet(complete) : Clear(seen[q])'
    BY <1>1, <1>3 DEF SilenceIsClear, Clear, All
  <2>3. Len(warnings') = 0 => Len(warnings) = 0
    BY <1>8
  <2> QED BY <1>1, <1>3, <2>1, <2>2, <2>3 DEF SilenceIsClear
<1>18. GatesAreTold'
  <2> DEFINE sites == {f \in r.files \cap workspace.gated : f \notin workspace.broken}
             condemned == {f \in sites : <<f, p>> \notin workspace.holds}
  <2>1. /\ satisfiable' = satisfiable \cup (sites \ condemned)
        /\ impossible' = impossible \cup
              {<<f, p>> : f \in {g \in condemned : ~ \E q \in Packages : <<g, q>> \in impossible}}
    BY <1>4 DEF Record
  <2>2. \A q \in Packages : (q = p => Sites(q)' = Sites(q) \cup sites) /\ (q # p => Sites(q)' = Sites(q))
    BY <1>2, <1>3 DEF Sites, Both
  <2>3. sites \subseteq Files
    BY <1>2 DEF Reach
  <2> HIDE DEF sites
  <2>4. ASSUME NEW s \in impossible'
        PROVE  \E q \in Packages : \E f \in Sites(q)' : s = <<f, q>> /\ s \notin workspace.holds
    <3>1. CASE s \in impossible
      <4>1. PICK q \in Packages : \E f \in Sites(q) : s = <<f, q>> /\ s \notin workspace.holds
        BY <1>1, <3>1 DEF GatesAreTold
      <4>2. Sites(q) \subseteq Sites(q)'
        BY <2>2
      <4> QED BY <4>1, <4>2
    <3>2. CASE s \notin impossible
      <4>1. PICK f \in condemned : s = <<f, p>>
        BY <2>1, <2>4, <3>2
      <4>2. PICK q \in Packages : q = p
        BY <1>2
      <4>3. f \in Sites(q)' /\ s = <<f, q>> /\ s \notin workspace.holds
        BY <2>2, <4>1, <4>2
      <4> QED BY <4>3
    <3> QED BY <3>1, <3>2
  <2>5. ASSUME NEW q \in Packages, NEW f \in Sites(q)', <<f, q>> \notin workspace.holds
        PROVE  \E o \in Packages : <<f, o>> \in impossible'
    <3>1. CASE f \in Sites(q)
      BY <1>1, <2>1, <2>5, <3>1 DEF GatesAreTold
    <3>2. CASE f \notin Sites(q)
      <4>1. q = p /\ f \in condemned
        BY <2>2, <2>5, <3>2
      <4> QED BY <1>2, <2>1, <4>1
    <3> QED BY <3>1, <3>2
  <2>6. satisfiable' = {f \in Files : \E q \in Packages : f \in Sites(q)' /\ <<f, q>> \in workspace.holds}
    <3>1. satisfiable = {f \in Files : \E q \in Packages : f \in Sites(q) /\ <<f, q>> \in workspace.holds}
      BY <1>1 DEF GatesAreTold
    <3>2. \A f \in Files : f \in sites \ condemned <=> f \in sites /\ <<f, p>> \in workspace.holds
      OBVIOUS
    <3> HIDE DEF condemned
    <3> QED BY <1>2, <2>1, <2>2, <2>3, <3>1, <3>2
  <2> QED BY <1>3, <2>4, <2>5, <2>6 DEF GatesAreTold
<1> QED BY <1>10, <1>11, <1>12, <1>13, <1>15, <1>16, <1>17, <1>18 DEF WalkInv

(* Who condemns and who excuses a gate depends on what was reached alone. *)
LEMMA GatesCarryOver ==
  ASSUME GatesAreTold, workspace' = workspace,
         impossible' = impossible, satisfiable' = satisfiable,
         \A q \in Packages : SoFar(q)' = SoFar(q)
  PROVE  GatesAreTold'
<1>1. \A q \in Packages : Sites(q)' = Sites(q)
  BY DEF Sites
<1>2. ASSUME NEW s \in impossible
      PROVE  \E q \in Packages : \E f \in Sites(q)' : s = <<f, q>> /\ s \notin workspace.holds
  <2>1. PICK q \in Packages : \E f \in Sites(q) : s = <<f, q>> /\ s \notin workspace.holds
    BY <1>2 DEF GatesAreTold
  <2> QED BY <1>1, <2>1
<1>3. ASSUME NEW q \in Packages, NEW f \in Sites(q)', <<f, q>> \notin workspace.holds
      PROVE  \E o \in Packages : <<f, o>> \in impossible
  <2>1. f \in Sites(q)
    BY <1>1
  <2> QED BY <1>3, <2>1 DEF GatesAreTold
<1>4. {f \in Files : \E q \in Packages : f \in Sites(q)' /\ <<f, q>> \in workspace.holds}
        = {f \in Files : \E q \in Packages : f \in Sites(q) /\ <<f, q>> \in workspace.holds}
  BY <1>1
<1>5. satisfiable' = {f \in Files : \E q \in Packages : f \in Sites(q)' /\ <<f, q>> \in workspace.holds}
  BY <1>4 DEF GatesAreTold
<1> QED BY <1>2, <1>3, <1>5 DEF GatesAreTold

(* So is what the table has of it. *)
LEMMA OwnedCarriesOver ==
  ASSUME workspace' = workspace, NEW q, RootsSoFar(q)' = RootsSoFar(q)
  PROVE  OwnedSoFar(q)' = OwnedSoFar(q)
<1>1. FollowedMods(q)' = FollowedMods(q)
  BY DEF FollowedMods, Followed
<1> QED BY <1>1 DEF OwnedSoFar, Owned, Closure

(* Ending a package keeps it: what it reached moves into the shared lists,   *)
(* and it is complete or has its warning.                                    *)
LEMMA PackageKeepsAccount == WalkInv /\ EndPackage => WalkInv'
<1> SUFFICES ASSUME WalkInv, EndPackage PROVE WalkInv'
  OBVIOUS
<1>1. WalkTypes /\ OneAtATime /\ EachIsWalked /\ ListsAreUnions /\ CratesAreUnions /\ CratesAreTyped
        /\ SilenceIsClear /\ GatesAreTold
  BY DEF WalkInv
<1>2. /\ Package \in Packages /\ Package \notin Finished
      /\ Finished' = Finished \cup {Package}
      /\ seen[Package] = Nobody /\ seen'[Package] = own /\ own' = Nobody
      /\ \A q \in Packages : q # Package => seen'[q] = seen[q]
      /\ \A q \in Packages : SoFar(q)' = SoFar(q) /\ RootsSoFar(q)' = RootsSoFar(q)
  BY <1>1, PackageStep
<1>3. /\ workspace \in Workspaces /\ workspace' = workspace /\ crates' = crates
      /\ impossible' = impossible /\ satisfiable' = satisfiable
      /\ reachable' = reachable \cup own.files /\ excluded' = excluded \cup own.excluded
      /\ spliced' = spliced \cup own.spliced
      /\ seen' = [seen EXCEPT ![Package] = own] /\ before' = Len(warnings')
      /\ next' = <<next[1] + 1, 1>> /\ Walking
  BY <1>1 DEF EndPackage, Unite, WalkTypes, gateVars
<1>4. Len(warnings) \in Nat /\ before \in 0..Len(warnings)
  BY <1>1 DEF WalkTypes
<1>5. /\ warnings' \in Seq(Files \cup Packages \cup {"items"}) /\ complete' \in Seq(Packages)
      /\ Len(warnings') >= Len(warnings) /\ Len(warnings') \in Nat
      /\ \/ Len(warnings') # 0 /\ complete' = complete
         \/ warnings' = warnings /\ Len(warnings) = before /\ complete' = Append(complete, Package)
  <2>1. CASE IsIncomplete
    <3>1. warnings' = Append(warnings, Package) /\ complete' = complete
      BY <2>1 DEF EndPackage
    <3> QED BY <1>1, <1>2, <3>1 DEF WalkTypes
  <2>2. CASE ~ IsIncomplete
    <3>1. warnings' = warnings /\ complete' = Append(complete, Package)
      BY <2>2 DEF EndPackage
    <3> QED BY <1>1, <1>2, <1>4, <2>2, <3>1 DEF WalkTypes, IsIncomplete
  <2> QED BY <2>1, <2>2
<1>6. Nobody \in Reach /\ All(Nobody) = {}
  BY DEF Nobody, Reach, All
<1>7. WalkTypes'
  <2>1. next' \in Nat \X Nat /\ next'[1] = next[1] + 1 /\ next'[2] = 1
        /\ next'[1] \in 1..(Len(workspace'.order) + 1)
    <3>1. workspace.order \in Seq(Packages)
      BY <1>3, WorkspaceFacts
    <3> QED BY <1>1, <1>3, <3>1 DEF WalkTypes, Walking
  <2>2. Walking' => next'[2] <= Len(workspace'.targets[Package']) + 1
    <3> SUFFICES ASSUME Walking' PROVE 1 <= Len(workspace.targets[Package']) + 1
      BY <1>3, <2>1
    <3>1. Package' \in Packages
      BY <1>1, <1>3, <2>1, WorkspaceFacts DEF WalkTypes, Walking, Package
    <3>2. workspace.targets[Package'] \in Seq(Files)
      BY <1>3, <3>1, WorkspaceFacts
    <3> QED BY <3>2
  <2>3. seen' \in [Packages -> Reach] /\ own' \in Reach
    BY <1>1, <1>2, <1>3, <1>6 DEF WalkTypes
  <2>4. own.files \subseteq Files /\ own.excluded \subseteq Files /\ own.spliced \subseteq Files
    BY <1>1 DEF WalkTypes, Reach
  <2> QED BY <1>1, <1>3, <1>5, <2>1, <2>2, <2>3, <2>4 DEF WalkTypes
<1>8. OneAtATime'
  BY <1>1, <1>2 DEF OneAtATime
<1>9. EachIsWalked'
  <2> SUFFICES ASSUME NEW q \in Packages PROVE Walked(q, RootsSoFar(q), SoFar(q))'
    BY DEF EachIsWalked
  <2>1. Walked(q, RootsSoFar(q), SoFar(q))
    BY <1>1 DEF EachIsWalked
  <2> QED BY <1>2, <1>3, <2>1 DEF Walked, FollowedMods, Followed, Excludes, All
<1>10. ListsAreUnions'
  <2>1. /\ UNION {seen'[q].files : q \in Packages} = (UNION {seen[q].files : q \in Packages}) \cup own.files
        /\ UNION {seen'[q].spliced : q \in Packages} = (UNION {seen[q].spliced : q \in Packages}) \cup own.spliced
        /\ UNION {seen'[q].excluded : q \in Packages} = (UNION {seen[q].excluded : q \in Packages}) \cup own.excluded
    <3>1. Nobody.files = {} /\ Nobody.spliced = {} /\ Nobody.excluded = {}
      BY DEF Nobody
    <3> QED BY <1>2, <3>1
  <2> QED BY <1>1, <1>3, <2>1 DEF ListsAreUnions
<1>11. CratesAreUnions'
  <2>1. /\ UNION {OwnedSoFar(q)' : q \in Packages} = UNION {OwnedSoFar(q) : q \in Packages}
        /\ UNION {All(SoFar(q)') : q \in Packages} = UNION {All(SoFar(q)) : q \in Packages}
    BY <1>2, <1>3, OwnedCarriesOver
  <2>2. Table' = Table /\ Readers' = Readers
    BY <1>3 DEF Table, Readers
  <2> QED BY <1>1, <2>1, <2>2 DEF CratesAreUnions, All
<1>12. CratesAreTyped'
  BY <1>1, <1>3 DEF CratesAreTyped
<1>13. SilenceIsClear'
  <2>1. Clear(own)'
    BY <1>2, <1>6 DEF Clear, All
  <2>2. ASSUME NEW q \in ToSet(complete) PROVE Clear(seen'[q])
    <3>1. q \in Finished /\ q # Package /\ Clear(seen[q])
      BY <1>1, <1>2 DEF SilenceIsClear
    <3>2. q \in Packages
      BY <1>1 DEF ToSet, WalkTypes
    <3> QED BY <1>2, <3>1, <3>2
  <2>3. CASE Len(warnings') # 0 /\ complete' = complete
    <3>1. \A q \in ToSet(complete') : Clear(seen'[q])
      BY <2>2, <2>3
    <3> QED BY <1>1, <1>2, <1>3, <2>1, <2>3, <3>1 DEF SilenceIsClear, Clear, All
  <2>4. CASE warnings' = warnings /\ Len(warnings) = before /\ complete' = Append(complete, Package)
    <3>1. ToSet(complete') = ToSet(complete) \cup {Package}
      BY <1>1, <2>4, ToSetOfAppend DEF WalkTypes
    <3>2. Clear(own) /\ Clear(seen'[Package])
      BY <1>1, <1>2, <1>3, <2>4 DEF SilenceIsClear
    <3>3. IsInjective(complete')
      BY <1>1, <1>2, <2>4 DEF SilenceIsClear, IsInjective, WalkTypes, ToSet
    <3>4. ToSet(complete') \subseteq Finished'
      BY <1>1, <1>2, <3>1 DEF SilenceIsClear
    <3>5. \A q \in ToSet(complete') : Clear(seen'[q])
      BY <2>2, <3>1, <3>2
    <3>6. Len(warnings') = 0 => ToSet(complete') = Finished'
      BY <1>1, <1>2, <2>4, <3>1 DEF SilenceIsClear
    <3> QED BY <1>3, <2>1, <3>3, <3>4, <3>5, <3>6 DEF SilenceIsClear, Clear, All
  <2> QED BY <1>5, <2>3, <2>4
<1>14. GatesAreTold'
  BY <1>1, <1>2, <1>3, GatesCarryOver
<1> QED BY <1>7, <1>8, <1>9, <1>10, <1>11, <1>12, <1>13, <1>14 DEF WalkInv

(* After the walk nothing it left behind changes, and no warning is unsaid.  *)
walkVars ==
  <<workspace, next, before, own, seen, unionVars, crates, gateVars, complete>>

(* The checks after the walks (src/lib.rs:508-747) touch nothing the walks   *)
(* gathered: what is known of the walks stays so.                            *)
LEMMA ChecksKeepAccount ==
  ASSUME WalkInv, UNCHANGED walkVars, Walking => warnings' = warnings,
         warnings' \in Seq(Files \cup Packages \cup {"items"}), Len(warnings') >= Len(warnings)
  PROVE  WalkInv'
<1>1. /\ workspace' = workspace /\ next' = next /\ before' = before /\ own' = own /\ seen' = seen
      /\ reachable' = reachable /\ excluded' = excluded /\ spliced' = spliced /\ crates' = crates
      /\ impossible' = impossible /\ satisfiable' = satisfiable /\ complete' = complete
  BY DEF walkVars, unionVars, gateVars
<1>2. Walking' = Walking /\ Package' = Package /\ Finished' = Finished
  BY <1>1 DEF Walking, Package, Finished
<1>3. Len(warnings) \in Nat /\ Len(warnings') \in Nat
  BY DEF WalkInv, WalkTypes
<1>4. WalkTypes'
  BY <1>1, <1>2, <1>3 DEF WalkInv, WalkTypes
<1>5. OneAtATime' /\ ListsAreUnions' /\ CratesAreTyped'
  BY <1>1, <1>2 DEF WalkInv, OneAtATime, ListsAreUnions, CratesAreTyped
<1>6. \A q \in Packages : SoFar(q)' = SoFar(q) /\ RootsSoFar(q)' = RootsSoFar(q)
  BY <1>1, <1>2 DEF SoFar, RootsSoFar, Roots
<1>7. EachIsWalked'
  BY <1>1, <1>6 DEF WalkInv, EachIsWalked, Walked, FollowedMods, Followed, Excludes, All
<1>8. CratesAreUnions'
  <2>1. \A q \in Packages : OwnedSoFar(q)' = OwnedSoFar(q)
    BY <1>1, <1>6, OwnedCarriesOver
  <2> QED BY <1>1, <1>6, <2>1 DEF WalkInv, CratesAreUnions, Table, Readers, All
<1>9. SilenceIsClear'
  BY <1>1, <1>2, <1>3 DEF WalkInv, SilenceIsClear, Clear, All
<1>10. GatesAreTold'
  BY <1>1, <1>6, GatesCarryOver DEF WalkInv
<1> QED BY <1>4, <1>5, <1>7, <1>8, <1>9, <1>10 DEF WalkInv

-------------------------------------------------------------------------------
(* Once the packages are walked, each has what its roots lead to, and one    *)
(* whose walk met no trouble has exactly what its build contains.            *)
LEMMA WalkIsOver ==
  ASSUME WalkInv, ~ Walking
  PROVE  /\ Finished = Packages
         /\ \A p \in Packages : SoFar(p) = seen[p] /\ RootsSoFar(p) = Roots(p)
<1>1. workspace.order \in Seq(Packages) /\ ToSet(workspace.order) = Packages
  BY WorkspaceFacts DEF WalkInv, WalkTypes
<1>2. next[1] = Len(workspace.order) + 1
  BY <1>1 DEF WalkInv, WalkTypes, Walking
<1>3. Finished = Packages
  BY <1>1, <1>2 DEF Finished, ToSet
<1> QED BY <1>3 DEF SoFar, RootsSoFar

(* Walks with nothing hidden found every file the package compiles, and left *)
(* out those its gates leave out (src/lib.rs:353-507).                       *)
LEMMA ClearWalksAreExact ==
  ASSUME WalkInv, ~ Walking, NEW p \in Packages, Clear(seen[p])
  PROVE  /\ All(seen[p]) = Compiled(p) /\ seen[p].files = Modules(p) /\ seen[p].excluded = LeftOut(p)
         /\ \A r \in Roots(p) : Owned(r, FollowedMods(p)) = Owned(r, BuiltMods(p))
         /\ All(seen[p]) \subseteq Files
<1> DEFINE all == All(seen[p])
<1>1. /\ seen[p].files = Closure(Roots(p), FollowedMods(p)) /\ all = Closure(Roots(p), Followed(p))
      /\ seen[p].excluded = Excludes(p, all) /\ all \cap workspace.broken = {}
  <2>1. Walked(p, RootsSoFar(p), SoFar(p))
    BY DEF WalkInv, EachIsWalked
  <2> QED BY <2>1, WalkIsOver DEF Walked, Clear
<1>2. Roots(p) \in SUBSET Files /\ Built(p) \in SUBSET Edge /\ Followed(p) \in SUBSET Built(p)
      /\ BuiltMods(p) \in SUBSET Edge /\ FollowedMods(p) \in SUBSET BuiltMods(p)
  <2>1. Roots(p) \in SUBSET Files
    BY WalkIsOver, RootsAreFiles DEF WalkInv
  <2>2. workspace.edges \in SUBSET Edge
    BY WorkspaceFacts DEF WalkInv, WalkTypes
  <2> QED BY <2>1, <2>2 DEF Built, Followed, FollowedMods, BuiltMods
<1>3. all = Compiled(p)
  <2>1. \A e \in Built(p) : e.from \in Closure(Roots(p), Followed(p)) => e \in Followed(p)
    BY <1>1 DEF Built, Followed
  <2> QED BY <1>1, <1>2, <2>1, UnreachedMakeNoDifference DEF Compiled
<1>4. seen[p].files = Modules(p)
  <2>1. \A e \in BuiltMods(p) : e.from \in Closure(Roots(p), FollowedMods(p)) => e \in FollowedMods(p)
    BY <1>1 DEF BuiltMods, Built, Followed, FollowedMods, All
  <2> QED BY <1>1, <1>2, <2>1, UnreachedMakeNoDifference DEF Modules
<1>5. seen[p].excluded = LeftOut(p)
  BY <1>1, <1>3 DEF Excludes, LeftOut
<1>6. all \subseteq Files
  BY <1>1, <1>2, ClosureHoldsRoots
<1>7. ASSUME NEW r \in Roots(p) PROVE Owned(r, FollowedMods(p)) = Owned(r, BuiltMods(p))
  <2>1. Closure({r}, FollowedMods(p)) \subseteq seen[p].files
    BY <1>1, <1>2, ClosureIsMonotone
  <2>2. \A e \in BuiltMods(p) : e.from \in Closure({r}, FollowedMods(p)) => e \in FollowedMods(p)
    BY <1>1, <2>1 DEF BuiltMods, Built, Followed, FollowedMods, All
  <2> QED BY <1>2, <2>2, OwnedMakesNoDifference
<1> QED BY <1>3, <1>4, <1>5, <1>6, <1>7

(* What the dependency check read of a package that is complete is all its   *)
(* sources, if it could parse them.                                          *)
LEMMA ReadingIsExact ==
  ASSUME WalkInv, ~ Walking, NEW p \in Packages, Clear(seen[p]),
         ReadForNames(p) \cap workspace.broken = {}
  PROVE  ReadForNames(p) = Sources(p)
<1> DEFINE start == Modules(p) \cup (workspace.dir[p] \ LeftOut(p))
           edges == {e \in workspace.edges : e.kind = "include"}
           along == {e \in workspace.edges : e.kind = "include" /\ e.from \notin workspace.broken}
<1>1. /\ ReadForNames(p) = Closure(start, along) /\ Sources(p) = Closure(start, edges)
      /\ start \in SUBSET Files
  <2>1. workspace.dir[p] \subseteq Files
    BY WorkspaceFacts DEF WalkInv, WalkTypes
  <2> QED BY <2>1, ClearWalksAreExact DEF ReadForNames, Including, Sources, All
<1>2. edges \in SUBSET Edge /\ along \in SUBSET edges
  BY WorkspaceFacts DEF WalkInv, WalkTypes
<1>3. \A e \in edges : e.from \in Closure(start, along) => e \in along
  BY <1>1
<1> HIDE DEF start, edges, along
<1> QED BY <1>1, <1>2, <1>3, UnreachedMakeNoDifference

(* Without a warning every package was walked completely, and what was put   *)
(* together is what the builds contain.                                      *)
LEMMA SilentWalksAreExact ==
  ASSUME WalkInv, ~ Walking, Len(warnings) = 0
  PROVE  /\ ToSet(complete) = Packages
         /\ \A p \in Packages : Clear(seen[p])
         /\ Table = UNION {UNION {MountedOnce(r, BuiltMods(p)) : r \in Roots(p)} : p \in Packages}
         /\ Readers = UNION {Compiled(p) : p \in Packages}
         /\ reachable \cup excluded \cup spliced
              = (UNION {Compiled(p) : p \in Packages}) \cup (UNION {LeftOut(p) : p \in Packages})
<1>1. ToSet(complete) = Packages
  BY WalkIsOver DEF WalkInv, SilenceIsClear
<1>2. \A p \in Packages : Clear(seen[p])
  BY <1>1 DEF WalkInv, SilenceIsClear
<1>3. \A p \in Packages :
        /\ All(seen[p]) = Compiled(p) /\ seen[p].files = Modules(p)
        /\ seen[p].excluded = LeftOut(p) /\ SoFar(p) = seen[p]
  BY <1>2, ClearWalksAreExact, WalkIsOver
<1>4. Table = UNION {UNION {MountedOnce(r, BuiltMods(p)) : r \in Roots(p)} : p \in Packages}
  <2>1. ASSUME NEW p \in Packages
        PROVE  OwnedSoFar(p) = UNION {MountedOnce(r, BuiltMods(p)) : r \in Roots(p)}
    <3>1. RootsSoFar(p) = Roots(p) /\ Roots(p) \in SUBSET Files
      BY WalkIsOver, RootsAreFiles DEF WalkInv
    <3>2. BuiltMods(p) \in SUBSET Edge
      BY WorkspaceFacts DEF WalkInv, WalkTypes, BuiltMods, Built
    <3>3. \A r \in Roots(p) : Owned(r, FollowedMods(p)) = MountedOnce(r, BuiltMods(p))
      BY <1>2, <3>1, <3>2, ClearWalksAreExact, OwnedAreMountedOnce
    <3> QED BY <3>1, <3>3 DEF OwnedSoFar
  <2> QED BY <2>1 DEF WalkInv, CratesAreUnions
<1>5. Readers = UNION {Compiled(p) : p \in Packages}
  <2>1. {All(SoFar(p)) : p \in Packages} = {Compiled(p) : p \in Packages}
    BY <1>3
  <2> QED BY <2>1 DEF WalkInv, CratesAreUnions
<1>6. /\ reachable = UNION {seen[p].files : p \in Packages}
      /\ excluded = UNION {seen[p].excluded : p \in Packages}
      /\ spliced = UNION {seen[p].spliced : p \in Packages}
  BY DEF WalkInv, ListsAreUnions
<1>7. reachable \cup spliced = UNION {Compiled(p) : p \in Packages}
  <2>1. \A p \in Packages : Compiled(p) = seen[p].files \cup seen[p].spliced
    BY <1>3 DEF All
  <2> QED BY <1>6, <2>1
<1>8. excluded = UNION {LeftOut(p) : p \in Packages}
  BY <1>3, <1>6
<1> QED BY <1>1, <1>2, <1>4, <1>5, <1>7, <1>8

-------------------------------------------------------------------------------
(* What a report claims, of one report: it depends on the packages' own      *)
(* reach and on the workspace alone.                                         *)
HoldsTrue(f) ==
  /\ f.kind = "dead_file" =>
       /\ All(seen[f.about]) = Compiled(f.about)
       /\ \A p \in Packages : \A g \in All(seen[p]) \cup seen[p].excluded :
            workspace.real[g] # workspace.real[f.file]
  /\ f.kind = "unused_pub_item" =>
       \A p \in Packages : \A g \in Compiled(p) : <<g, f.file>> \notin workspace.uses
  /\ f.kind = "unused_dependency" =>
       \A g \in Sources(f.file) : f.about \notin workspace.names[g]
  /\ f.kind = "unsatisfiable_cfg" =>
       /\ f.file \in seen[f.about].files
       /\ \A p \in Packages : f.file \in seen[p].files => <<f.file, p>> \notin workspace.holds

(* What ReportsFitWhatWasSeen says of all findings it says of each.          *)
LEMMA TrueOneByOne == ReportsFitWhatWasSeen <=> \A f \in findings : HoldsTrue(f)
<1>1. DeadFilesAreSeenByNobody <=> \A f \in findings : f.kind = "dead_file" =>
       /\ All(seen[f.about]) = Compiled(f.about)
       /\ \A p \in Packages : \A g \in All(seen[p]) \cup seen[p].excluded :
            workspace.real[g] # workspace.real[f.file]
  BY DEF DeadFilesAreSeenByNobody, Found, All
<1>2. ItemsAreNamedByNobody <=> \A f \in findings : f.kind = "unused_pub_item" =>
       \A p \in Packages : \A g \in Compiled(p) : <<g, f.file>> \notin workspace.uses
  BY DEF ItemsAreNamedByNobody, Found
<1>3. DependenciesAreNamedByNobody <=> \A f \in findings : f.kind = "unused_dependency" =>
       \A g \in Sources(f.file) : f.about \notin workspace.names[g]
  BY DEF DependenciesAreNamedByNobody, Found
<1>4. GatesAreImpossibleWhereSeen <=> \A f \in findings : f.kind = "unsatisfiable_cfg" =>
       /\ f.file \in seen[f.about].files
       /\ \A p \in Packages : f.file \in seen[p].files => <<f.file, p>> \notin workspace.holds
  BY DEF GatesAreImpossibleWhereSeen, Found
<1> QED BY <1>1, <1>2, <1>3, <1>4 DEF ReportsFitWhatWasSeen, HoldsTrue

(* A finding stays true while workspace and walks stay the same.             *)
LEMMA TruthStays ==
  ASSUME workspace' = workspace, seen' = seen, NEW f, HoldsTrue(f)
  PROVE  HoldsTrue(f)'
BY DEF HoldsTrue, All, Compiled, Sources, Modules, LeftOut, Roots, Built, BuiltMods

(* A finding carries the kind, the file and the item it was made of.         *)
LEMMA SayFields ==
  ASSUME NEW kind, NEW file, NEW about
  PROVE  LET f == Say(kind, file, about)
         IN  f.kind = kind /\ f.file = file /\ f.about = about
BY DEF Say

(* A dead file belongs to a package walked completely, and no list excuses   *)
(* it under any spelling (src/lib.rs:508-562).                               *)
LEMMA DeadFilesHoldTrue ==
  ASSUME WalkInv, ~ Walking, NEW f \in DeadFiles
  PROVE  HoldsTrue(f) /\ f.kind = "dead_file"
<1>1. PICK p \in ToSet(complete), d \in Files : f = Say("dead_file", d, p) /\ ~ Excused(d)
  <2>1. PICK p \in ToSet(complete) : \E d \in workspace.swept[p] : f = Say("dead_file", d, p) /\ ~ Excused(d)
    BY DEF DeadFiles
  <2>2. workspace.swept[p] \subseteq Files
    BY WorkspaceFacts DEF WalkInv, WalkTypes, ToSet
  <2> QED BY <2>1, <2>2
<1>2. f.kind = "dead_file" /\ f.file = d /\ f.about = p
  BY <1>1, SayFields
<1>3. p \in Packages /\ Clear(seen[p])
  BY DEF WalkInv, WalkTypes, SilenceIsClear, ToSet
<1>4. All(seen[p]) = Compiled(p)
  BY <1>3, ClearWalksAreExact
<1>5. ASSUME NEW q \in Packages, NEW g \in All(seen[q]) \cup seen[q].excluded
      PROVE  workspace.real[g] # workspace.real[d]
  <2>1. g \in reachable \cup excluded \cup spliced
    BY <1>5 DEF WalkInv, ListsAreUnions, All
  <2> QED BY <1>1, <2>1 DEF Excused
<1> QED BY <1>2, <1>4, <1>5 DEF HoldsTrue

(* Items are judged only without warnings, over every file compiled.         *)
LEMMA UnusedItemsHoldTrue ==
  ASSUME WalkInv, ~ Walking, Len(warnings) = 0, NEW f \in UnusedItems
  PROVE  HoldsTrue(f) /\ f.kind = "unused_pub_item"
<1>1. PICK i \in Table : f = Say("unused_pub_item", i, i) /\ \A g \in Readers : <<g, i>> \notin workspace.uses
  BY DEF UnusedItems
<1>2. f.kind = "unused_pub_item" /\ f.file = i
  BY <1>1, SayFields
<1>3. Readers = UNION {Compiled(p) : p \in Packages}
  BY SilentWalksAreExact
<1> QED BY <1>1, <1>2, <1>3 DEF HoldsTrue

(* A dependency is judged from all the sources of a package.                 *)
LEMMA UnusedDependenciesHoldTrue ==
  ASSUME WalkInv, ~ Walking, NEW p \in ToSet(complete),
         ReadForNames(p) \cap workspace.broken = {}, NEW f \in UnusedDependencies(p)
  PROVE  HoldsTrue(f) /\ f.kind = "unused_dependency"
<1>1. PICK d \in workspace.deps[p] :
        f = Say("unused_dependency", p, d) /\ \A g \in ReadForNames(p) : d \notin workspace.names[g]
  BY DEF UnusedDependencies
<1>2. f.kind = "unused_dependency" /\ f.file = p /\ f.about = d
  BY <1>1, SayFields
<1>3. p \in Packages /\ Clear(seen[p])
  BY DEF WalkInv, WalkTypes, SilenceIsClear, ToSet
<1>4. ReadForNames(p) = Sources(p)
  BY <1>3, ReadingIsExact
<1> QED BY <1>1, <1>2, <1>4 DEF HoldsTrue

(* A condemned gate no package excused (src/lib.rs:811-848).                 *)
LEMMA GateFindingsHoldTrue ==
  ASSUME WalkInv, ~ Walking, NEW f \in GateFindings
  PROVE  HoldsTrue(f) /\ f.kind = "unsatisfiable_cfg"
<1>1. PICK s \in impossible : s[1] \notin satisfiable /\ f = Say("unsatisfiable_cfg", s[1], s[2])
  BY DEF GateFindings
<1>2. PICK p \in Packages : \E g \in Sites(p) : s = <<g, p>> /\ s \notin workspace.holds
  BY DEF WalkInv, GatesAreTold
<1>3. PICK g \in Sites(p) : s = <<g, p>> /\ s \notin workspace.holds
  BY <1>2
<1>4. f.kind = "unsatisfiable_cfg" /\ f.file = g /\ f.about = p
  BY <1>1, <1>3, SayFields
<1>5. \A q \in Packages : SoFar(q) = seen[q]
  BY WalkIsOver
<1>6. g \in seen[p].files /\ g \in workspace.gated /\ g \notin workspace.broken
  BY <1>3, <1>5 DEF Sites
<1>7. ASSUME NEW q \in Packages, g \in seen[q].files PROVE <<g, q>> \notin workspace.holds
  <2>1. g \in Sites(q)
    BY <1>5, <1>6, <1>7 DEF Sites
  <2>2. g \in Files
    BY <1>6 DEF WalkInv, WalkTypes, Reach
  <2>3. g \notin satisfiable
    BY <1>1, <1>3
  <2> QED BY <2>1, <2>2, <2>3 DEF WalkInv, GatesAreTold
<1> QED BY <1>4, <1>6, <1>7 DEF HoldsTrue

-------------------------------------------------------------------------------
(* The checks, one after another: what has been reported so far is what each *)
(* check finds, nothing else and, without a warning, nothing less.           *)

Reported(n) == DeadFiles \cup UnusedItems \cup (UNION {UnusedDependencies(complete[i]) : i \in 1..n})

Stages ==
  /\ pc \in {"walk", "items", "dependencies", "done"}
  /\ pc # "walk" => ~ Walking
  /\ judged \in 0..Len(complete)
  /\ pc \in {"walk", "items"} => judged = 0
  /\ pc = "walk" => findings = {}
  /\ pc = "items" => findings = DeadFiles
  /\ pc = "dependencies" /\ Len(warnings) = 0 => findings = Reported(judged)
  /\ pc = "done" => judged = Len(complete)
  /\ pc = "done" /\ Len(warnings) = 0 => findings = Configured(Reported(judged) \cup GateFindings)
  /\ Len(warnings) = 0 => \A i \in 1..judged : ReadForNames(complete[i]) \cap workspace.broken = {}

ReportsAreTrue == \A f \in findings : HoldsTrue(f) /\ f.kind \in Kinds

RunInv == WalkInv /\ Stages /\ ReportsAreTrue

(* What a check would report depends on what the walk left behind alone. *)
LEMMA ChecksAreFixed ==
  ASSUME UNCHANGED walkVars
  PROVE  /\ Walking' = Walking /\ DeadFiles' = DeadFiles /\ UnusedItems' = UnusedItems
         /\ GateFindings' = GateFindings
         /\ \A i \in Nat : (UnusedDependencies(complete[i]))' = UnusedDependencies(complete[i])
         /\ \A i \in Nat : (ReadForNames(complete[i]))' = ReadForNames(complete[i])
         /\ judged' \in Nat => Reported(judged)' = Reported(judged')
         /\ \A some : Configured(some)' = Configured(some)
         /\ \A f : HoldsTrue(f) => HoldsTrue(f)'
<1>1. /\ workspace' = workspace /\ next' = next /\ seen' = seen /\ reachable' = reachable
      /\ excluded' = excluded /\ spliced' = spliced /\ crates' = crates
      /\ impossible' = impossible /\ satisfiable' = satisfiable /\ complete' = complete
  BY DEF walkVars, unionVars, gateVars
<1>2. Walking' = Walking /\ GateFindings' = GateFindings
  BY <1>1 DEF Walking, GateFindings
<1>3. DeadFiles' = DeadFiles
  BY <1>1 DEF DeadFiles, Excused
<1>4. UnusedItems' = UnusedItems
  BY <1>1 DEF UnusedItems, Table, Readers
<1>5. ASSUME NEW i \in Nat
      PROVE  /\ (UnusedDependencies(complete[i]))' = UnusedDependencies(complete[i])
             /\ (ReadForNames(complete[i]))' = ReadForNames(complete[i])
  BY <1>1 DEF UnusedDependencies, ReadForNames, Including
<1>6. ASSUME judged' \in Nat PROVE Reported(judged)' = Reported(judged')
  <2>1. \A i \in 1..(judged') : i \in Nat
    BY <1>6
  <2>2. UNION {(UnusedDependencies(complete[i]))' : i \in 1..(judged')}
          = UNION {UnusedDependencies(complete[i]) : i \in 1..(judged')}
    BY <1>5, <2>1
  <2> QED BY <1>3, <1>4, <2>2 DEF Reported
<1>7. \A some : Configured(some)' = Configured(some)
  BY <1>1 DEF Configured
<1>8. \A f : HoldsTrue(f) => HoldsTrue(f)'
  BY <1>1, TruthStays
<1> QED BY <1>2, <1>3, <1>4, <1>5, <1>6, <1>7, <1>8

(* While packages are walked nothing is reported. *)
LEMMA WalkKeepsStages ==
  ASSUME Stages, ReportsAreTrue, WalkInv', pc = "walk", pc' = pc, judged' = judged, findings' = findings
  PROVE  Stages' /\ ReportsAreTrue'
<1>1. Len(complete') \in Nat
  BY DEF WalkInv, WalkTypes
<1> QED BY <1>1 DEF Stages, ReportsAreTrue

(* Reporting the dead files (src/lib.rs:508-562) adds true findings and      *)
(* keeps the account.                                                        *)
LEMMA DeadFilesStep ==
  ASSUME RunInv, FindDeadFiles
  PROVE  RunInv'
<1>1. UNCHANGED walkVars /\ warnings' = warnings /\ judged' = judged /\ ~ Walking
      /\ pc = "walk" /\ pc' = "items" /\ findings' = DeadFiles
  BY DEF FindDeadFiles, walkVars
<1>2. Len(warnings) \in Nat /\ warnings' \in Seq(Files \cup Packages \cup {"items"})
  BY <1>1 DEF RunInv, WalkInv, WalkTypes
<1>3. WalkInv'
  BY <1>1, <1>2, ChecksKeepAccount DEF RunInv
<1>4. DeadFiles' = DeadFiles /\ ~ Walking' /\ complete' = complete
  BY <1>1, ChecksAreFixed DEF walkVars
<1>5. Stages'
  BY <1>1, <1>4 DEF RunInv, Stages
<1>6. \A f \in DeadFiles : HoldsTrue(f) /\ f.kind = "dead_file"
  BY <1>1, DeadFilesHoldTrue DEF RunInv
<1>7. \A f \in DeadFiles : HoldsTrue(f)' /\ f.kind \in Kinds
  BY <1>1, <1>6, ChecksAreFixed DEF Kinds
<1> QED BY <1>1, <1>3, <1>5, <1>7 DEF RunInv, ReportsAreTrue

(* Reporting the unused items (src/lib.rs:566-638) adds true findings and    *)
(* keeps the account.                                                        *)
LEMMA ItemsStep ==
  ASSUME RunInv, FindItems
  PROVE  RunInv'
<1>1. UNCHANGED walkVars /\ judged' = judged /\ pc = "items" /\ pc' = "dependencies"
      /\ findings = DeadFiles /\ judged = 0 /\ ~ Walking
  BY DEF FindItems, walkVars, RunInv, Stages
<1>2. /\ warnings \in Seq(Files \cup Packages \cup {"items"}) /\ Len(warnings) \in Nat
      /\ WalkInv /\ Stages /\ ReportsAreTrue
  BY DEF RunInv, WalkInv, WalkTypes
<1>3. \/ warnings' = warnings /\ findings' = findings \cup UnusedItems /\ Len(warnings) = 0
      \/ warnings' = Append(warnings, "items") /\ findings' = findings
  BY <1>2 DEF FindItems, ItemsCanBeJudged
<1>4. /\ warnings' \in Seq(Files \cup Packages \cup {"items"}) /\ Len(warnings') >= Len(warnings)
      /\ Len(warnings') = 0 => findings' = DeadFiles \cup UnusedItems
  BY <1>1, <1>2, <1>3
<1>5. WalkInv'
  BY <1>1, <1>2, <1>4, ChecksKeepAccount
<1>6. Reported(0) = DeadFiles \cup UnusedItems
  BY DEF Reported
<1>7. Reported(judged)' = Reported(0) /\ ~ Walking' /\ complete' = complete /\ judged' = 0
  BY <1>1, ChecksAreFixed DEF walkVars
<1>8. Stages'
  <2>1. Len(warnings') = 0 => findings' = Reported(judged)'
    BY <1>4, <1>6, <1>7
  <2>2. judged' \in 0..Len(complete')
    BY <1>1, <1>2, <1>7 DEF Stages
  <2>3. 1..(judged') = {}
    BY <1>7
  <2> QED BY <1>1, <1>7, <2>1, <2>2, <2>3 DEF Stages
<1>9. ASSUME NEW f \in findings' PROVE HoldsTrue(f) /\ f.kind \in Kinds
  <2>1. CASE f \in findings
    BY <1>2, <2>1 DEF ReportsAreTrue
  <2>2. CASE f \notin findings
    <3>1. f \in UnusedItems /\ Len(warnings) = 0
      BY <1>3, <1>9, <2>2
    <3> QED BY <1>1, <1>2, <3>1, UnusedItemsHoldTrue DEF Kinds
  <2> QED BY <2>1, <2>2
<1>10. ReportsAreTrue'
  BY <1>1, <1>9, ChecksAreFixed DEF ReportsAreTrue
<1> QED BY <1>5, <1>8, <1>10 DEF RunInv

(* Reporting a package's dependencies (src/lib.rs:640-717) adds true         *)
(* findings and keeps the account.                                           *)
LEMMA DependenciesStep ==
  ASSUME RunInv, JudgeDependencies
  PROVE  RunInv'
<1> DEFINE p == complete[judged + 1]
<1>1. UNCHANGED walkVars /\ judged' = judged + 1 /\ pc = "dependencies" /\ pc' = "dependencies"
      /\ judged < Len(complete) /\ ~ Walking /\ complete' = complete
  BY DEF JudgeDependencies, walkVars, RunInv, Stages
<1>2. /\ warnings \in Seq(Files \cup Packages \cup {"items"}) /\ Len(warnings) \in Nat
      /\ WalkInv /\ Stages /\ ReportsAreTrue /\ judged \in 0..Len(complete) /\ complete \in Seq(Packages)
      /\ Len(complete) \in Nat
  BY DEF RunInv, WalkInv, WalkTypes, Stages
<1>3. p \in ToSet(complete) /\ p \in Packages /\ judged + 1 \in 1..Len(complete)
  BY <1>1, <1>2 DEF ToSet
<1>4. \/ /\ warnings' = warnings /\ findings' = findings \cup UnusedDependencies(p)
         /\ ReadForNames(p) \cap workspace.broken = {}
      \/ warnings' = warnings \o <<p, p>> /\ findings' = findings
  BY DEF JudgeDependencies
<1>5. warnings \o <<p, p>> \in Seq(Files \cup Packages \cup {"items"})
      /\ Len(warnings \o <<p, p>>) = Len(warnings) + 2
  <2> DEFINE W == Files \cup Packages \cup {"items"}
             two == <<p, p>>
  <2>1. two \in Seq(W) /\ Len(two) = 2
    BY <1>3
  <2>2. warnings \in Seq(W)
    BY <1>2
  <2> HIDE DEF W, two
  <2>3. \A s, t \in Seq(W) : (s \o t) \in Seq(W) /\ Len(s \o t) = Len(s) + Len(t)
    OBVIOUS
  <2>4. (warnings \o two) \in Seq(W) /\ Len(warnings \o two) = Len(warnings) + 2
    BY <2>1, <2>2, <2>3
  <2> QED BY <2>4 DEF W, two
<1> HIDE DEF p
<1>6. /\ warnings' \in Seq(Files \cup Packages \cup {"items"}) /\ Len(warnings') >= Len(warnings)
      /\ Len(warnings') = 0 =>
           /\ Len(warnings) = 0 /\ findings' = findings \cup UnusedDependencies(p)
           /\ ReadForNames(p) \cap workspace.broken = {}
  <2>1. CASE warnings' = warnings
    <3>1. Len(warnings') # Len(warnings) + 2
      BY <1>2, <2>1
    <3>2. ~ (warnings' = warnings \o <<p, p>> /\ findings' = findings)
      BY <1>5, <3>1
    <3> QED BY <1>2, <1>4, <2>1, <3>2
  <2>2. CASE warnings' = warnings \o <<p, p>>
    <3>1. Len(warnings') = Len(warnings) + 2
      BY <1>5, <2>2
    <3> QED BY <1>2, <1>5, <2>2, <3>1
  <2> QED BY <1>4, <2>1, <2>2
<1>7. WalkInv'
  BY <1>1, <1>2, <1>6, ChecksKeepAccount
<1>8. Reported(judged + 1) = Reported(judged) \cup UnusedDependencies(p)
  <2>1. 1..(judged + 1) = 1..judged \cup {judged + 1}
    BY <1>2
  <2> QED BY <2>1 DEF Reported, p
<1>9. /\ Reported(judged)' = Reported(judged + 1) /\ ~ Walking' /\ judged + 1 \in Nat
      /\ \A i \in Nat : (ReadForNames(complete[i]))' = ReadForNames(complete[i])
      /\ workspace' = workspace
  BY <1>1, <1>2, ChecksAreFixed DEF walkVars
<1>10. Len(warnings') = 0 => \A i \in 1..(judged') : (ReadForNames(complete[i]) \cap workspace.broken)' = {}
  <2> SUFFICES ASSUME Len(warnings') = 0, NEW i \in 1..(judged + 1)
               PROVE  ReadForNames(complete[i]) \cap workspace.broken = {}
    BY <1>1, <1>2, <1>9
  <2>1. CASE i \in 1..judged
    BY <1>2, <1>6, <2>1 DEF Stages
  <2>2. CASE i = judged + 1
    BY <1>6, <2>2 DEF p
  <2> QED BY <1>2, <2>1, <2>2
<1>11. Stages'
  <2>1. Len(warnings') = 0 => findings' = Reported(judged)'
    BY <1>1, <1>2, <1>6, <1>8, <1>9 DEF Stages
  <2>2. judged' \in 0..Len(complete')
    BY <1>1, <1>3
  <2> QED BY <1>1, <1>9, <1>10, <2>1, <2>2 DEF Stages
<1>12. ASSUME NEW f \in findings' PROVE HoldsTrue(f) /\ f.kind \in Kinds
  <2>1. CASE f \in findings
    BY <1>2, <2>1 DEF ReportsAreTrue
  <2>2. CASE f \notin findings
    <3>1. f \in UnusedDependencies(p) /\ ReadForNames(p) \cap workspace.broken = {}
      BY <1>4, <1>12, <2>2
    <3> QED BY <1>1, <1>2, <1>3, <3>1, UnusedDependenciesHoldTrue DEF Kinds
  <2> QED BY <2>1, <2>2
<1>13. ReportsAreTrue'
  BY <1>1, <1>12, ChecksAreFixed DEF ReportsAreTrue
<1> QED BY <1>7, <1>11, <1>13 DEF RunInv

(* Dropping the ignored findings at the end (src/lib.rs:718-747) keeps those *)
(* that stay true.                                                           *)
LEMMA FinishStep ==
  ASSUME RunInv, Finish
  PROVE  RunInv'
<1>1. UNCHANGED walkVars /\ judged' = judged /\ pc = "dependencies" /\ pc' = "done" /\ ~ Walking
      /\ warnings' = warnings /\ judged = Len(complete) /\ complete' = complete
      /\ findings' = Configured(findings \cup GateFindings)
  BY DEF Finish, walkVars, RunInv, Stages
<1>2. /\ warnings \in Seq(Files \cup Packages \cup {"items"}) /\ Len(warnings) \in Nat
      /\ WalkInv /\ Stages /\ ReportsAreTrue /\ judged \in Nat
  BY <1>1 DEF RunInv, WalkInv, WalkTypes, Stages
<1>3. WalkInv'
  BY <1>1, <1>2, ChecksKeepAccount
<1>4. /\ Reported(judged)' = Reported(judged) /\ ~ Walking' /\ GateFindings' = GateFindings
      /\ \A i \in Nat : (ReadForNames(complete[i]))' = ReadForNames(complete[i])
      /\ workspace' = workspace
  BY <1>1, <1>2, ChecksAreFixed DEF walkVars
<1>5. Len(warnings') = 0 => findings' = Configured(Reported(judged) \cup GateFindings)
  BY <1>1, <1>2 DEF Stages
<1>6. Configured(Reported(judged) \cup GateFindings)' = Configured(Reported(judged) \cup GateFindings)
  BY <1>4 DEF Configured
<1>7. Len(warnings') = 0 => \A i \in 1..(judged') : (ReadForNames(complete[i]) \cap workspace.broken)' = {}
  BY <1>1, <1>2, <1>4 DEF Stages
<1>8. Stages'
  BY <1>1, <1>2, <1>4, <1>5, <1>6, <1>7 DEF Stages
<1>9. ASSUME NEW f \in findings' PROVE HoldsTrue(f) /\ f.kind \in Kinds
  <2>1. f \in findings \cup GateFindings
    BY <1>1, <1>9 DEF Configured
  <2>2. CASE f \in findings
    BY <1>2, <2>2 DEF ReportsAreTrue
  <2>3. CASE f \in GateFindings
    BY <1>1, <1>2, <2>3, GateFindingsHoldTrue DEF Kinds
  <2> QED BY <2>1, <2>2, <2>3
<1>10. ReportsAreTrue'
  BY <1>1, <1>9, ChecksAreFixed DEF ReportsAreTrue
<1> QED BY <1>3, <1>8, <1>10 DEF RunInv

(* Every step of the run keeps the account and the reports. *)
LEMMA RunIsInductive == RunInv /\ [Next]_vars => RunInv'
<1> SUFFICES ASSUME RunInv, [Next]_vars PROVE RunInv'
  OBVIOUS
<1>1. CASE WalkTarget
  <2>1. WalkInv'
    BY <1>1, TargetKeepsAccount DEF RunInv
  <2>2. pc = "walk" /\ pc' = pc /\ judged' = judged /\ findings' = findings
    BY <1>1 DEF WalkTarget, RunInv, Stages
  <2> QED BY <2>1, <2>2, WalkKeepsStages DEF RunInv
<1>2. CASE EndPackage
  <2>1. WalkInv'
    BY <1>2, PackageKeepsAccount DEF RunInv
  <2>2. pc = "walk" /\ pc' = pc /\ judged' = judged /\ findings' = findings
    BY <1>2 DEF EndPackage, RunInv, Stages
  <2>3. judged = 0
    BY <2>2 DEF RunInv, Stages
  <2> QED BY <2>1, <2>2, <2>3, WalkKeepsStages DEF RunInv
<1>3. CASE FindDeadFiles
  BY <1>3, DeadFilesStep
<1>4. CASE FindItems
  BY <1>4, ItemsStep
<1>5. CASE JudgeDependencies
  BY <1>5, DependenciesStep
<1>6. CASE Finish
  BY <1>6, FinishStep
<1>7. CASE UNCHANGED vars
  <2>1. UNCHANGED walkVars /\ pc' = pc /\ judged' = judged /\ warnings' = warnings /\ findings' = findings
    BY <1>7 DEF vars, walkVars, unionVars, gateVars
  <2>2. WalkInv /\ Stages /\ ReportsAreTrue /\ warnings' \in Seq(Files \cup Packages \cup {"items"})
        /\ Len(warnings) \in Nat /\ judged \in Nat /\ complete' = complete /\ workspace' = workspace
    BY <2>1 DEF RunInv, WalkInv, WalkTypes, Stages, walkVars
  <2>3. WalkInv'
    BY <2>1, <2>2, ChecksKeepAccount
  <2>4. /\ Reported(judged)' = Reported(judged) /\ Walking' = Walking /\ GateFindings' = GateFindings
        /\ DeadFiles' = DeadFiles
        /\ \A i \in Nat : (ReadForNames(complete[i]))' = ReadForNames(complete[i])
    BY <2>1, <2>2, ChecksAreFixed
  <2>5. Configured(Reported(judged) \cup GateFindings)' = Configured(Reported(judged) \cup GateFindings)
    BY <2>2, <2>4 DEF Configured
  <2>6. Len(warnings') = 0 => \A i \in 1..(judged') : (ReadForNames(complete[i]) \cap workspace.broken)' = {}
    BY <2>1, <2>2, <2>4 DEF Stages
  <2>7. Stages'
    BY <2>1, <2>2, <2>4, <2>5, <2>6 DEF Stages
  <2>8. ReportsAreTrue'
    BY <2>1, <2>2, ChecksAreFixed DEF ReportsAreTrue
  <2> QED BY <2>3, <2>7, <2>8 DEF RunInv
<1> QED BY <1>1, <1>2, <1>3, <1>4, <1>5, <1>6, <1>7 DEF Next

(* A run begins with nothing walked and nothing found.                       *)
LEMMA RunBegins == Init => RunInv
<1> SUFFICES ASSUME Init PROVE RunInv
  OBVIOUS
<1>1. /\ workspace \in Workspaces /\ next[1] = 1 /\ next[2] = 1 /\ next \in Nat \X Nat
      /\ own = Nobody /\ seen = [p \in Packages |-> Nobody]
      /\ crates = <<>> /\ complete = <<>> /\ warnings = <<>> /\ before = 0
      /\ reachable = {} /\ excluded = {} /\ spliced = {} /\ impossible = {} /\ satisfiable = {}
      /\ pc = "walk" /\ judged = 0 /\ findings = {}
  BY DEF Init
<1>2. Nobody \in Reach /\ All(Nobody) = {} /\ Nobody.files = {} /\ Nobody.spliced = {} /\ Nobody.excluded = {}
  BY DEF Nobody, Reach, All
<1>3. workspace.order \in Seq(Packages) /\ \A p \in Packages : workspace.targets[p] \in Seq(Files)
  BY <1>1, WorkspaceFacts
<1>4. Finished = {}
  BY <1>1 DEF Finished
<1>5. \A p \in Packages : SoFar(p) = Nobody /\ RootsSoFar(p) = {}
  BY <1>1, <1>4 DEF SoFar, RootsSoFar
<1>6. WalkTypes
  <2>1. Walking => next[2] <= Len(workspace.targets[Package]) + 1
    <3> SUFFICES ASSUME Walking PROVE 1 <= Len(workspace.targets[Package]) + 1
      BY <1>1
    <3>1. Package \in Packages
      BY <1>1, <1>3 DEF Walking, Package
    <3> QED BY <1>3, <3>1
  <2> QED BY <1>1, <1>2, <1>3, <2>1 DEF WalkTypes
<1>7. OneAtATime
  BY <1>1 DEF OneAtATime
<1>8. EachIsWalked
  BY <1>5, NothingIsWalked DEF EachIsWalked
<1>9. ListsAreUnions
  BY <1>1, <1>2 DEF ListsAreUnions
<1>10. ToSet(crates) = {} /\ ToSet(complete) = {}
  BY <1>1 DEF ToSet
<1>11. CratesAreUnions /\ CratesAreTyped
  <2>1. Table = {} /\ Readers = {}
    BY <1>10 DEF Table, Readers
  <2> QED BY <1>2, <1>5, <1>10, <2>1 DEF CratesAreUnions, CratesAreTyped, OwnedSoFar
<1>12. SilenceIsClear
  BY <1>1, <1>2, <1>4, <1>10 DEF SilenceIsClear, Clear, IsInjective
<1>13. GatesAreTold
  <2>1. \A p \in Packages : Sites(p) = {}
    BY <1>2, <1>5 DEF Sites
  <2> QED BY <1>1, <2>1 DEF GatesAreTold
<1>14. Stages
  BY <1>1 DEF Stages
<1> QED
  BY <1>1, <1>6, <1>7, <1>8, <1>9, <1>11, <1>12, <1>13, <1>14 DEF RunInv, WalkInv, ReportsAreTrue

(* The run accounts for what it reached and what it reported, all the time.  *)
THEOREM RunIsAccounted == Spec => []RunInv
BY RunBegins, RunIsInductive, PTL DEF Spec

-------------------------------------------------------------------------------
(* Every package is judged once, the lists hold files and the findings are   *)
(* of the kinds there are (analyze_with).                                    *)
THEOREM TypeCorrect == Spec => []TypeOK
<1>1. RunInv => TypeOK
  <2> SUFFICES ASSUME RunInv PROVE TypeOK
    OBVIOUS
  <2>1. own \in Reach /\ seen \in [Packages -> Reach] /\ (reachable \cup excluded) \cup spliced \subseteq Files
        /\ before \in 0..Len(warnings)
    BY DEF RunInv, WalkInv, WalkTypes
  <2>2. IsInjective(complete) /\ ToSet(complete) \subseteq Packages
    BY DEF RunInv, WalkInv, WalkTypes, SilenceIsClear, ToSet
  <2>3. \A c \in ToSet(crates) : c.files \subseteq Files /\ c.spliced \cap c.files = {}
    BY DEF RunInv, WalkInv, CratesAreTyped
  <2>4. /\ pc \in {"walk", "items", "dependencies", "done"} /\ judged \in 0..Len(complete)
        /\ \A f \in findings : f.kind \in Kinds
    BY DEF RunInv, Stages, ReportsAreTrue
  <2> QED BY <2>1, <2>2, <2>3, <2>4 DEF TypeOK
<1> QED BY <1>1, RunIsAccounted, PTL

(* Nothing is reported that the walk of any package contradicts, complete or *)
(* not, and no item or dependency that any file names, walked or not         *)
(* (src/lib.rs:340-346, 438-478, 566-569, 779-786).  Of a file or a gate only*)
(* what was seen is claimed: what an unparsable file hides is not in it.     *)
THEOREM ReportsFitWhatWasSeenAlways == Spec => []ReportsFitWhatWasSeen
<1>1. RunInv => ReportsFitWhatWasSeen
  BY TrueOneByOne DEF RunInv, ReportsAreTrue
<1> QED BY <1>1, RunIsAccounted, PTL

-------------------------------------------------------------------------------
(* What a run without warnings reports, kind by kind. *)

OfKind(some, kind) == {f \in some : f.kind = kind}

(* Which of what was reported is of a kind: no check reports another's. *)
LEMMA ReportsByKind ==
  ASSUME ToSet(complete) = Packages, complete \in Seq(Packages)
  PROVE  LET all == Reported(Len(complete)) \cup GateFindings
         IN  /\ OfKind(all, "dead_file") = DeadFiles
             /\ OfKind(all, "unused_pub_item") = UnusedItems
             /\ OfKind(all, "unused_dependency") = UNION {UnusedDependencies(p) : p \in Packages}
             /\ OfKind(all, "unsatisfiable_cfg") = GateFindings
<1> DEFINE deps == UNION {UnusedDependencies(p) : p \in Packages}
<1>1. UNION {UnusedDependencies(complete[i]) : i \in 1..Len(complete)} = deps
  <2>1. \A i \in 1..Len(complete) : complete[i] \in Packages
    OBVIOUS
  <2>2. \A p \in Packages : \E i \in 1..Len(complete) : p = complete[i]
    BY DEF ToSet
  <2> QED BY <2>1, <2>2
<1>2. \A f \in DeadFiles : f.kind = "dead_file"
  BY DEF DeadFiles, Say
<1>3. \A f \in UnusedItems : f.kind = "unused_pub_item"
  BY DEF UnusedItems, Say
<1>4. \A f \in deps : f.kind = "unused_dependency"
  BY DEF UnusedDependencies, Say
<1>5. \A f \in GateFindings : f.kind = "unsatisfiable_cfg"
  BY DEF GateFindings, Say
<1>6. Reported(Len(complete)) = (DeadFiles \cup UnusedItems) \cup deps
  BY <1>1 DEF Reported
<1> HIDE DEF deps
<1>7. QED BY <1>2, <1>3, <1>4, <1>5, <1>6 DEF OfKind, deps

(* Configuration takes away kinds and files, and nothing else. *)
LEMMA KeptFiles ==
  ASSUME NEW all, findings = Configured(all), NEW kind, NEW files,
         {f.file : f \in OfKind(all, kind)} = files
  PROVE  {f.file : f \in Found(kind)} = IF kind \in Off THEN {} ELSE files \ workspace.ignored
<1>1. \A f : f \in Found(kind) <=>
        f \in OfKind(all, kind) /\ f.file \notin workspace.ignored /\ kind \notin Off
  BY DEF Found, OfKind, Configured
<1>2. CASE kind \in Off
  BY <1>1, <1>2
<1>3. CASE kind \notin Off
  <2>1. ASSUME NEW f \in Found(kind) PROVE f.file \in files \ workspace.ignored
    BY <1>1, <2>1
  <2>2. ASSUME NEW x \in files \ workspace.ignored PROVE \E f \in Found(kind) : f.file = x
    <3>1. PICK f \in OfKind(all, kind) : f.file = x
      BY <2>2
    <3> QED BY <1>1, <1>3, <2>2, <3>1
  <2> QED BY <1>3, <2>1, <2>2
<1> QED BY <1>2, <1>3

(* A run whose every walk was clear and every check made reports all that is *)
(* dead: CleanRunIsExact from the account.                                   *)
LEMMA CleanRuns == RunInv => CleanRunIsExact
<1> SUFFICES ASSUME RunInv, Done, warnings = <<>>
             PROVE  CleanRunIsExact
  BY DEF CleanRunIsExact
<1> DEFINE all        == Reported(Len(complete)) \cup GateFindings
           compiled   == UNION {Compiled(p) : p \in Packages}
           modules    == UNION {Modules(p) : p \in Packages}
           once       == UNION {UNION {MountedOnce(r, BuiltMods(p)) : r \in Roots(p)} : p \in Packages}
           known      == compiled \cup (UNION {LeftOut(p) : p \in Packages})
           Dead(f)    == \A g \in known : workspace.real[g] # workspace.real[f]
           Unnamed(f) == \A g \in compiled : <<g, f>> \notin workspace.uses
           Impossible(f) == \A p \in Packages : f \in Modules(p) => <<f, p>> \notin workspace.holds
<1>1. /\ WalkInv /\ Stages /\ ~ Walking /\ Len(warnings) = 0 /\ judged = Len(complete)
      /\ findings = Configured(all) /\ complete \in Seq(Packages)
      /\ \A i \in 1..Len(complete) : ReadForNames(complete[i]) \cap workspace.broken = {}
  <2>1. Len(warnings) = 0
    OBVIOUS
  <2> QED BY <2>1 DEF RunInv, Done, Stages, WalkInv, WalkTypes
<1>2. /\ ToSet(complete) = Packages /\ Table = once /\ Readers = compiled
      /\ reachable \cup excluded \cup spliced = known
      /\ \A p \in Packages : Clear(seen[p])
  BY <1>1, SilentWalksAreExact
<1>3. \A p \in Packages : ReadForNames(p) = Sources(p)
  <2> SUFFICES ASSUME NEW p \in Packages PROVE ReadForNames(p) = Sources(p)
    OBVIOUS
  <2>1. PICK i \in 1..Len(complete) : p = complete[i]
    BY <1>1, <1>2 DEF ToSet
  <2> QED BY <1>1, <1>2, <2>1, ReadingIsExact
<1>4. \A p \in Packages : SoFar(p) = seen[p] /\ seen[p].files = Modules(p) /\ Modules(p) \cap workspace.broken = {}
  <2> SUFFICES ASSUME NEW p \in Packages
               PROVE  SoFar(p) = seen[p] /\ seen[p].files = Modules(p) /\ Modules(p) \cap workspace.broken = {}
    OBVIOUS
  <2>1. seen[p].files = Modules(p) /\ Clear(seen[p]) /\ SoFar(p) = seen[p]
    BY <1>1, <1>2, ClearWalksAreExact, WalkIsOver
  <2> QED BY <2>1 DEF Clear, All
<1>5. /\ OfKind(all, "dead_file") = DeadFiles
      /\ OfKind(all, "unused_pub_item") = UnusedItems
      /\ OfKind(all, "unused_dependency") = UNION {UnusedDependencies(p) : p \in Packages}
      /\ OfKind(all, "unsatisfiable_cfg") = GateFindings
  BY <1>1, <1>2, ReportsByKind
<1> HIDE DEF all, known, compiled, modules, once
<1>6. {f.file : f \in DeadFiles} = {f \in UNION {workspace.swept[p] : p \in Packages} : Dead(f)}
  <2>1. \A f : Excused(f) <=> ~ Dead(f)
    BY <1>2 DEF Excused
  <2>2. ASSUME NEW f \in DeadFiles
        PROVE  f.file \in UNION {workspace.swept[p] : p \in Packages} /\ Dead(f.file)
    <3>1. PICK p \in Packages : \E d \in workspace.swept[p] : f = Say("dead_file", d, p) /\ ~ Excused(d)
      BY <1>2 DEF DeadFiles
    <3> QED BY <2>1, <3>1, SayFields
  <2>3. ASSUME NEW d \in UNION {workspace.swept[p] : p \in Packages}, Dead(d)
        PROVE  \E f \in DeadFiles : f.file = d
    <3>1. PICK p \in Packages : d \in workspace.swept[p]
      BY <2>3
    <3>2. Say("dead_file", d, p) \in DeadFiles
      BY <1>2, <2>1, <2>3, <3>1 DEF DeadFiles
    <3> QED BY <3>2, SayFields
  <2> HIDE DEF Dead
  <2> QED BY <2>2, <2>3
<1>7. {f.file : f \in UnusedItems} = {f \in once : Unnamed(f)}
  <2>1. ASSUME NEW f \in UnusedItems PROVE f.file \in once /\ Unnamed(f.file)
    BY <1>2, SayFields DEF UnusedItems
  <2>2. ASSUME NEW d \in once, Unnamed(d) PROVE \E f \in UnusedItems : f.file = d
    <3>1. Say("unused_pub_item", d, d) \in UnusedItems
      BY <1>2, <2>2 DEF UnusedItems
    <3> QED BY <3>1, SayFields
  <2> HIDE DEF Unnamed
  <2> QED BY <2>1, <2>2
<1>8. {f.file : f \in GateFindings} = {f \in modules \cap workspace.gated : Impossible(f)}
  <2>1. /\ \A s \in impossible : \E p \in Packages : \E f \in Sites(p) : s = <<f, p>> /\ s \notin workspace.holds
        /\ \A p \in Packages : \A f \in Sites(p) :
             <<f, p>> \notin workspace.holds => \E q \in Packages : <<f, q>> \in impossible
        /\ \A f \in satisfiable : \E p \in Packages : f \in Sites(p) /\ <<f, p>> \in workspace.holds
    BY <1>1 DEF WalkInv, GatesAreTold
  <2>2. \A p \in Packages : Sites(p) = Modules(p) \cap workspace.gated
    BY <1>4 DEF Sites
  <2>3. ASSUME NEW f \in GateFindings
        PROVE  f.file \in modules \cap workspace.gated /\ Impossible(f.file)
    <3>1. PICK s \in impossible : s[1] \notin satisfiable /\ f = Say("unsatisfiable_cfg", s[1], s[2])
      BY DEF GateFindings
    <3>2. PICK p \in Packages : \E g \in Sites(p) : s = <<g, p>> /\ s \notin workspace.holds
      BY <2>1
    <3>3. f.file = s[1] /\ f.file \in Sites(p)
      BY <3>1, <3>2, SayFields
    <3>4. f.file \in modules \cap workspace.gated
      BY <2>2, <3>3 DEF modules
    <3>5. HoldsTrue(f) /\ f.kind = "unsatisfiable_cfg"
      BY <1>1, GateFindingsHoldTrue
    <3>6. Impossible(f.file)
      BY <1>4, <3>5 DEF HoldsTrue
    <3> QED BY <3>4, <3>6
  <2>4. ASSUME NEW d \in modules \cap workspace.gated, Impossible(d)
        PROVE  \E f \in GateFindings : f.file = d
    <3>1. PICK p \in Packages : d \in Sites(p) /\ <<d, p>> \notin workspace.holds
      BY <2>2, <2>4 DEF modules
    <3>2. PICK q \in Packages : <<d, q>> \in impossible
      BY <2>1, <3>1
    <3>3. d \notin satisfiable
      BY <2>1, <2>2, <2>4
    <3>4. Say("unsatisfiable_cfg", d, q) \in GateFindings
      <4>1. <<d, q>>[1] = d /\ <<d, q>>[2] = q
        OBVIOUS
      <4> QED BY <3>2, <3>3, <4>1 DEF GateFindings
    <3> QED BY <3>4, SayFields
  <2> HIDE DEF Impossible
  <2> QED BY <2>3, <2>4
<1>9. {<<f.file, f.about>> : f \in Found("unused_dependency")} =
        IF "unused_dependency" \in Off THEN {}
        ELSE UNION {{<<p, d>> : d \in {c \in workspace.deps[p] : \A f \in Sources(p) : c \notin workspace.names[f]}} :
                    p \in Packages \ workspace.ignored}
  <2>1. \A f : f \in Found("unused_dependency") <=>
          /\ \E p \in Packages : f \in UnusedDependencies(p)
          /\ f.file \notin workspace.ignored /\ "unused_dependency" \notin Off
    <3>1. \A f : f \in Found("unused_dependency") <=>
            /\ f \in OfKind(all, "unused_dependency")
            /\ f.file \notin workspace.ignored /\ "unused_dependency" \notin Off
      BY <1>1 DEF Found, OfKind, Configured
    <3> QED BY <1>5, <3>1
  <2>2. CASE "unused_dependency" \in Off
    BY <2>1, <2>2
  <2>3. CASE "unused_dependency" \notin Off
    <3> DEFINE Wanted(p) == {c \in workspace.deps[p] : \A f \in Sources(p) : c \notin workspace.names[f]}
    <3>1. ASSUME NEW f \in Found("unused_dependency")
          PROVE  \E p \in Packages \ workspace.ignored : \E d \in Wanted(p) : <<f.file, f.about>> = <<p, d>>
      <4>1. PICK p \in Packages : f \in UnusedDependencies(p)
        BY <2>1
      <4>2. PICK d \in Wanted(p) : f = Say("unused_dependency", p, d)
        BY <1>3, <4>1 DEF UnusedDependencies
      <4>3. f.file = p /\ f.about = d
        BY <4>2, SayFields
      <4> QED BY <2>1, <4>2, <4>3
    <3>2. ASSUME NEW p \in Packages \ workspace.ignored, NEW d \in Wanted(p)
          PROVE  \E f \in Found("unused_dependency") : <<f.file, f.about>> = <<p, d>>
      <4> DEFINE f == Say("unused_dependency", p, d)
      <4>1. f \in UnusedDependencies(p)
        BY <1>3 DEF UnusedDependencies
      <4>2. f.file = p /\ f.about = d
        BY SayFields
      <4> HIDE DEF f
      <4>3. f \in Found("unused_dependency")
        BY <2>1, <2>3, <4>1, <4>2
      <4> QED BY <4>2, <4>3
    <3> HIDE DEF Wanted
    <3>3. {<<f.file, f.about>> : f \in Found("unused_dependency")}
            = UNION {{<<p, d>> : d \in Wanted(p)} : p \in Packages \ workspace.ignored}
      BY <3>1, <3>2
    <3> QED BY <2>3, <3>3 DEF Wanted
  <2> QED BY <2>2, <2>3
<1>10. /\ {f.file : f \in Found("dead_file")} =
             IF "dead_file" \in Off THEN {}
             ELSE {f \in UNION {workspace.swept[p] : p \in Packages} : Dead(f)} \ workspace.ignored
       /\ {f.file : f \in Found("unused_pub_item")} =
             IF "unused_pub_item" \in Off THEN {} ELSE {f \in once : Unnamed(f)} \ workspace.ignored
       /\ {f.file : f \in Found("unsatisfiable_cfg")} =
             IF "unsatisfiable_cfg" \in Off THEN {}
             ELSE {f \in modules \cap workspace.gated : Impossible(f)} \ workspace.ignored
  <2> DEFINE dead == {f \in UNION {workspace.swept[p] : p \in Packages} : Dead(f)}
             items == {f \in once : Unnamed(f)}
             gates == {f \in modules \cap workspace.gated : Impossible(f)}
  <2>1. /\ {f.file : f \in OfKind(all, "dead_file")} = dead
        /\ {f.file : f \in OfKind(all, "unused_pub_item")} = items
        /\ {f.file : f \in OfKind(all, "unsatisfiable_cfg")} = gates
    BY <1>5, <1>6, <1>7, <1>8
  <2>2. findings = Configured(all)
    BY <1>1
  <2> HIDE DEF dead, items, gates
  <2>3. {f.file : f \in Found("dead_file")} = IF "dead_file" \in Off THEN {} ELSE dead \ workspace.ignored
    BY <2>1, <2>2, KeptFiles
  <2>4. {f.file : f \in Found("unused_pub_item")}
          = IF "unused_pub_item" \in Off THEN {} ELSE items \ workspace.ignored
    BY <2>1, <2>2, KeptFiles
  <2>5. {f.file : f \in Found("unsatisfiable_cfg")}
          = IF "unsatisfiable_cfg" \in Off THEN {} ELSE gates \ workspace.ignored
    BY <2>1, <2>2, KeptFiles
  <2> QED BY <2>3, <2>4, <2>5 DEF dead, items, gates
<1> QED BY <1>9, <1>10 DEF CleanRunIsExact, known, compiled, modules, once

(* A run without warnings reports everything there is to report and nothing  *)
(* else, whatever the order of the packages and of their targets             *)
(* (src/lib.rs:748-758).                                                     *)
THEOREM CleanRunIsExactAlways == Spec => []CleanRunIsExact
BY CleanRuns, RunIsAccounted, PTL
===============================================================================
