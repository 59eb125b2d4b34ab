------------------------- MODULE LexicalScopesProofs -------------------------
(*****************************************************************************)
(* The reference walk takes for locals what RustScopes does, in every file.  *)
(*****************************************************************************)
EXTENDS LexicalScopes, SequenceTheorems, WellFoundedInduction, TLAPS

-------------------------------------------------------------------------------
(* Addresses *)

Address == Seq(Nat \ {0})

(* The nodes around a part are those around its whole, and the whole.        *)
LEMMA PartAddress ==
  ASSUME NEW a \in Address, NEW k \in Nat \ {0}
  PROVE  /\ Append(a, k) \in Address /\ Append(a, k) # <<>>
         /\ Len(Append(a, k)) = Len(a) + 1
         /\ Append(a, k)[Len(a) + 1] = k
         /\ \A i \in 1 .. Len(a) : Append(a, k)[i] = a[i]
         /\ \A i \in 0 .. Len(a) : SubSeq(Append(a, k), 1, i) = SubSeq(a, 1, i)
         /\ SubSeq(a, 1, Len(a)) = a
         /\ Outward(Append(a, k)) = Outward(a) \cup {Len(a)}
<1> USE DEF Address, Outward
<1>1. /\ Append(a, k) \in Address /\ Append(a, k) # <<>>
      /\ Len(Append(a, k)) = Len(a) + 1
      /\ Append(a, k)[Len(a) + 1] = k
      /\ \A i \in 1 .. Len(a) : Append(a, k)[i] = a[i]
  OBVIOUS
<1>2. ASSUME NEW i \in 0 .. Len(a) PROVE SubSeq(Append(a, k), 1, i) = SubSeq(a, 1, i)
  <2>1. /\ SubSeq(Append(a, k), 1, i) \in Address /\ SubSeq(a, 1, i) \in Address
        /\ Len(SubSeq(Append(a, k), 1, i)) = i /\ Len(SubSeq(a, 1, i)) = i
    BY <1>1
  <2>2. \A j \in 1 .. i : SubSeq(Append(a, k), 1, i)[j] = SubSeq(a, 1, i)[j]
    BY <1>1
  <2> QED BY <2>1, <2>2, SeqEqual
<1>3. SubSeq(a, 1, Len(a)) = a
  OBVIOUS
<1>4. Outward(Append(a, k)) = Outward(a) \cup {Len(a)}
  BY <1>1
<1> QED BY <1>1, <1>2, <1>3, <1>4

(* The beginning of an address, and of that.                                 *)
LEMMA BeginningOf ==
  ASSUME NEW a \in Address, NEW i \in 0 .. Len(a)
  PROVE  /\ SubSeq(a, 1, i) \in Address
         /\ Len(SubSeq(a, 1, i)) = i
         /\ Outward(SubSeq(a, 1, i)) = 0 .. i - 1
         /\ \A j \in 1 .. i : SubSeq(a, 1, i)[j] = a[j]
         /\ \A j \in 0 .. i : SubSeq(SubSeq(a, 1, i), 1, j) = SubSeq(a, 1, j)
<1> USE DEF Address, Outward
<1>1. /\ SubSeq(a, 1, i) \in Address
      /\ Len(SubSeq(a, 1, i)) = i
      /\ Outward(SubSeq(a, 1, i)) = 0 .. i - 1
      /\ \A j \in 1 .. i : SubSeq(a, 1, i)[j] = a[j]
  OBVIOUS
<1>2. ASSUME NEW j \in 0 .. i PROVE SubSeq(SubSeq(a, 1, i), 1, j) = SubSeq(a, 1, j)
  <2>1. /\ SubSeq(SubSeq(a, 1, i), 1, j) \in Address /\ SubSeq(a, 1, j) \in Address
        /\ Len(SubSeq(SubSeq(a, 1, i), 1, j)) = j /\ Len(SubSeq(a, 1, j)) = j
    BY <1>1
  <2>2. \A m \in 1 .. j : SubSeq(SubSeq(a, 1, i), 1, j)[m] = SubSeq(a, 1, j)[m]
    BY <1>1
  <2> QED BY <2>1, <2>2, SeqEqual
<1> QED BY <1>1, <1>2

(* A CHOOSE of the innermost place finds it.                                 *)
LEMMA InnermostIs ==
  ASSUME NEW S \in SUBSET Nat, NEW i \in S, \A j \in S : j <= i
  PROVE  Innermost(S) = i
<1>1. \E m \in S : \A j \in S : j <= m
  OBVIOUS
<1>2. Innermost(S) \in S /\ \A j \in S : j <= Innermost(S)
  BY <1>1 DEF Innermost
<1>3. Innermost(S) <= i /\ i <= Innermost(S) /\ Innermost(S) \in Nat /\ i \in Nat
  BY <1>2
<1> QED BY <1>3

(* What the grammar says of a node and of its parts.                         *)
LEMMA FileFacts ==
  ASSUME NEW t, IsFile(t), NEW a \in DOMAIN t
  PROVE  /\ a \in Address /\ t[a] \in Nodes /\ HasItsParts(t[a]) /\ AsRead(t, a)
         /\ t[a].kids \in Nat
         /\ \A k \in 1 .. t[a].kids : Append(a, k) \in DOMAIN t /\ Stands(t[Append(a, k)], t[a], k)
         /\ \A i \in Outward(a) : SubSeq(a, 1, i) \in DOMAIN t /\ a[i + 1] \in 1 .. Above(t, a, i).kids
<1>1. /\ a \in Address /\ t[a] \in Nodes /\ HasItsParts(t[a]) /\ AsRead(t, a)
      /\ \A k \in 1 .. t[a].kids : Append(a, k) \in DOMAIN t /\ Stands(t[Append(a, k)], t[a], k)
      /\ \A i \in Outward(a) : SubSeq(a, 1, i) \in DOMAIN t /\ a[i + 1] \in 1 .. Above(t, a, i).kids
  BY DEF IsFile, Address
<1>2. t[a].kids \in Nat
  BY <1>1 DEF Nodes
<1> QED BY <1>1, <1>2

(* A path has a first segment, and that is a name.                           *)
LEMMA PathHead ==
  ASSUME NEW segments \in Path
  PROVE  segments[1] \in Identifier /\ segments[1] # ""
<1>1. segments \in Seq(Identifier) /\ 1 \in 1 .. Len(segments)
  BY DEF Path
<1>2. segments[1] \in Identifier
  BY <1>1, ElementOfSeq
<1> QED BY <1>2 DEF Identifier

(* The empty list has no members.                                            *)
LEMMA NothingInEmpty == ToSet(<<>>) = {}
<1>1. <<>> \in Seq(Nat) /\ Len(<<>>) = 0
  OBVIOUS
<1>2. DOMAIN <<>> = 1 .. 0
  BY <1>1, LenProperties
<1> QED BY <1>2 DEF ToSet

(* What the nodes of a kind have.                                            *)
LEMMA NodeFacts ==
  ASSUME NEW n \in Nodes
  PROVE  /\ n.node \in {"item", "mod", "impl", "member"} => n.generics \in Generics
         /\ n.node \in {"item", "mod", "use", "ident"} => n.name \in Identifier
         /\ n.node = "impl" => n.segments \in Path /\ n.segments \in DOMAIN Owners /\ n.trait \in DOMAIN Owners
                               /\ n.heads \in Nat
         /\ n.node \in {"path", "macro", "unpack"} => n.segments \in Path
         /\ n.node = "path" => n.space \in {"Value", "Type", "Bare"}
         /\ n.node \in {"macro", "attribute", "use"} => n.kids = 0
         /\ n.node = "ident" => n.forced \in BOOLEAN
         /\ n.node \in {"file"} \cup Boundaries \cup {"member"} \cup Constructs \cup {"path", "macro", "attribute", "use"} \cup Patterns
<1>0. <<>> \in Generics
  BY DEF Generics
<1>1. /\ n.node \in {"item", "mod", "impl", "member"} => n.generics \in Generics
      /\ n.node \in {"item", "mod", "use", "ident"} => n.name \in Identifier
  BY <1>0 DEF Nodes, Constructs
<1>2. n.node = "impl" => n.segments \in Path /\ n.segments \in DOMAIN Owners /\ n.trait \in DOMAIN Owners
                         /\ n.heads \in Nat
  BY DEF Nodes, Constructs
<1>3. /\ n.node \in {"path", "macro", "unpack"} => n.segments \in Path
      /\ n.node = "path" => n.space \in {"Value", "Type", "Bare"}
      /\ n.node \in {"macro", "attribute", "use"} => n.kids = 0
      /\ n.node = "ident" => n.forced \in BOOLEAN
  BY DEF Nodes, Constructs
<1>4. n.node \in {"file"} \cup Boundaries \cup {"member"} \cup Constructs
                  \cup {"path", "macro", "attribute", "use"} \cup Patterns
  BY DEF Nodes, Boundaries, Patterns, Plain
<1> QED BY <1>1, <1>2, <1>3, <1>4

(* There is an innermost place.                                              *)
LEMMA InnermostExists ==
  ASSUME NEW n \in Nat, NEW S \in SUBSET (0 .. n - 1), S # {}
  PROVE  Innermost(S) \in S /\ \A j \in S : j <= Innermost(S)
<1> DEFINE Depths == {n - j : j \in S}
<1>1. Depths \subseteq Nat /\ Depths # {}
  <2>1. \A j \in S : n - j \in Nat
    OBVIOUS
  <2>2. PICK j \in S : TRUE
    OBVIOUS
  <2>3. n - j \in Depths
    BY <2>2
  <2> QED BY <2>1, <2>3
<1>2. PICK d \in Depths : \A e \in Depths : ~ (<<e, d>> \in OpToRel(<, Nat))
  BY <1>1, WFMin, NatLessThanWellFounded
<1>3. \A e \in Depths : d <= e
  <2>1. \A e \in Depths : ~ (e < d)
    BY <1>1, <1>2 DEF OpToRel
  <2> QED BY <1>1, <2>1
<1>4. PICK m \in S : d = n - m
  OBVIOUS
<1>5. \A j \in S : j <= m
  BY <1>3, <1>4
<1>6. S \in SUBSET Nat
  OBVIOUS
<1>7. Innermost(S) = m
  BY <1>5, <1>6, InnermostIs
<1> QED BY <1>5, <1>7

-------------------------------------------------------------------------------
(* What surrounds a part, told from what surrounds the whole *)

(* The nodes around a part.                                                  *)
LEMMA AboveAPart ==
  ASSUME NEW t, IsFile(t), NEW a \in DOMAIN t, NEW k \in 1 .. t[a].kids
  PROVE  /\ Append(a, k) \in DOMAIN t
         /\ Append(a, k) \in Address
         /\ Len(a) \in Nat /\ Len(Append(a, k)) = Len(a) + 1
         /\ Outward(Append(a, k)) = Outward(a) \cup {Len(a)}
         /\ Outward(a) = 0 .. Len(a) - 1
         /\ Above(t, Append(a, k), Len(a)) = t[a]
         /\ Append(a, k)[Len(a) + 1] = k
         /\ \A i \in Outward(a) : Append(a, k)[i + 1] = a[i + 1]
         /\ \A i \in Outward(a) : Above(t, Append(a, k), i) = Above(t, a, i)
         /\ \A i \in Outward(a) : SubSeq(Append(a, k), 1, i) = SubSeq(a, 1, i)
         /\ SubSeq(Append(a, k), 1, Len(a)) = a
<1>1. a \in Address /\ t[a].kids \in Nat /\ Append(a, k) \in DOMAIN t
  BY FileFacts
<1>2. k \in Nat \ {0}
  BY <1>1
<1>3. Len(a) \in Nat
  BY <1>1 DEF Address
<1>4. Outward(a) = 0 .. Len(a) - 1
  BY DEF Outward
<1>5. /\ \A i \in Outward(a) : i \in 0 .. Len(a) /\ i + 1 \in 1 .. Len(a)
      /\ Len(a) \in 0 .. Len(a)
  BY <1>3, <1>4
<1> QED BY <1>1, <1>2, <1>3, <1>4, <1>5, PartAddress DEF Above

(* What the table has, it has up to the first node that is no module.        *)
LEMMA PartInTable ==
  ASSUME NEW t, IsFile(t), NEW a \in DOMAIN t, NEW k \in 1 .. t[a].kids
  PROVE  InTable(t, Append(a, k)) <=> InTable(t, a) /\ (a = <<>> \/ t[a].node = "mod")
<1>1. a = <<>> <=> Len(a) = 0
  BY FileFacts DEF Address
<1> QED BY <1>1, AboveAPart DEF InTable

(* Only a module the table has changes where names are looked up.            *)
LEMMA PartModule ==
  ASSUME NEW t, IsFile(t), NEW a \in DOMAIN t, NEW k \in 1 .. t[a].kids
  PROVE  ModuleOf(t, Append(a, k)) =
           IF t[a].node = "mod" /\ InTable(t, a) THEN t[a].name ELSE ModuleOf(t, a)
<1> DEFINE ModsOf(b) == {i \in Outward(b) \ {0} : Above(t, b, i).node = "mod" /\ InTable(t, SubSeq(b, 1, i))}
           c == Append(a, k)
<1>0. /\ \A b : ModuleOf(t, b) = IF ModsOf(b) = {} THEN "top" ELSE Above(t, b, Innermost(ModsOf(b))).name
      /\ t[<<>>].node = "file" /\ a \in Address
  BY FileFacts DEF ModuleOf, IsFile
<1>1. a = <<>> <=> Len(a) = 0
  BY <1>0 DEF Address
<1>2. ASSUME NEW i \in Outward(a) PROVE i \in ModsOf(c) <=> i \in ModsOf(a)
  <2>1. i \in Outward(c) /\ Above(t, c, i) = Above(t, a, i) /\ SubSeq(c, 1, i) = SubSeq(a, 1, i)
    BY AboveAPart
  <2> QED BY <2>1
<1>3. Len(a) \in ModsOf(c) <=> t[a].node = "mod" /\ InTable(t, a)
  <2>1. Len(a) \in Outward(c) /\ Above(t, c, Len(a)) = t[a] /\ SubSeq(c, 1, Len(a)) = a
    BY AboveAPart
  <2>2. Len(a) = 0 => t[a].node # "mod"
    BY <1>0, <1>1
  <2> QED BY <2>1, <2>2
<1>4. ModsOf(a) \subseteq Outward(a) /\ ModsOf(c) \subseteq Outward(a) \cup {Len(a)}
  BY AboveAPart
<1>5. Len(a) \in Nat /\ Outward(a) = 0 .. Len(a) - 1 /\ Outward(c) = Outward(a) \cup {Len(a)}
      /\ Above(t, c, Len(a)) = t[a] /\ \A i \in Outward(a) : Above(t, c, i) = Above(t, a, i)
  BY AboveAPart
<1> HIDE DEF ModsOf
<1>6. CASE t[a].node = "mod" /\ InTable(t, a)
  <2>1. ModsOf(c) \in SUBSET Nat /\ Len(a) \in ModsOf(c) /\ \A i \in ModsOf(c) : i <= Len(a)
    BY <1>3, <1>4, <1>5, <1>6
  <2>2. Innermost(ModsOf(c)) = Len(a)
    BY <2>1, InnermostIs
  <2> QED BY <1>0, <1>5, <1>6, <2>1, <2>2
<1>7. CASE ~ (t[a].node = "mod" /\ InTable(t, a))
  <2>1. ModsOf(c) = ModsOf(a)
    BY <1>2, <1>3, <1>4, <1>5, <1>7
  <2>2. ASSUME ModsOf(a) # {} PROVE Innermost(ModsOf(a)) \in Outward(a)
    <3>1. ModsOf(a) \in SUBSET (0 .. Len(a) - 1)
      BY <1>4, <1>5
    <3>2. Innermost(ModsOf(a)) \in ModsOf(a)
      BY <1>5, <2>2, <3>1, InnermostExists
    <3> QED BY <1>4, <3>2
  <2> QED BY <1>0, <1>5, <1>7, <2>1, <2>2
<1> QED BY <1>6, <1>7

(* What is local to a part is local to the whole, or the whole has it.       *)
LEMMA PartHasLocal ==
  ASSUME NEW t, IsFile(t), NEW a \in DOMAIN t, NEW k \in 1 .. t[a].kids, NEW space, NEW x
  PROVE  HasLocal(t, Append(a, k), space, x) <=>
           \/ /\ space = "Value" /\ <<ModuleOf(t, Append(a, k)), x>> \notin Constants
              /\ \E b \in Sees(t, a, k) : t[b].name = x
           \/ t[a].node \in {"item", "impl", "member"} /\ x \in Params(t[a], space)
           \/ t[a].node \notin Boundaries /\ HasLocal(t, a, space, x)
<1> DEFINE c == Append(a, k)
           Clear(b, i) == \A j \in Outward(b) : j > i => Above(t, b, j).node \notin Boundaries
           Has(b, i) == \/ /\ space = "Value" /\ <<ModuleOf(t, b), x>> \notin Constants
                           /\ \E p \in Sees(t, SubSeq(b, 1, i), b[i + 1]) : t[p].name = x
                        \/ Above(t, b, i).node \in {"item", "impl", "member"} /\ x \in Params(Above(t, b, i), space)
<1>1. \A b : HasLocal(t, b, space, x) <=> \E i \in Outward(b) : Clear(b, i) /\ Has(b, i)
  BY DEF HasLocal
<1>2. Outward(c) = Outward(a) \cup {Len(a)} /\ Outward(a) = 0 .. Len(a) - 1 /\ Len(a) \in Nat
  BY AboveAPart
<1>3. Above(t, c, Len(a)) = t[a] /\ \A i \in Outward(a) : Above(t, c, i) = Above(t, a, i)
  BY AboveAPart
<1>4. Clear(c, Len(a))
  BY <1>2
<1>5. Has(c, Len(a)) <=>
        \/ /\ space = "Value" /\ <<ModuleOf(t, c), x>> \notin Constants
           /\ \E p \in Sees(t, a, k) : t[p].name = x
        \/ t[a].node \in {"item", "impl", "member"} /\ x \in Params(t[a], space)
  <2>1. SubSeq(c, 1, Len(a)) = a /\ c[Len(a) + 1] = k
    BY AboveAPart
  <2> QED BY <1>3, <2>1
<1>6. ASSUME NEW i \in Outward(a) PROVE Clear(c, i) <=> Clear(a, i) /\ t[a].node \notin Boundaries
  BY <1>2, <1>3
<1>7. ASSUME NEW i \in Outward(a), t[a].node \notin Boundaries PROVE Has(c, i) <=> Has(a, i)
  <2>1. ModuleOf(t, c) = ModuleOf(t, a)
    BY <1>7, PartModule DEF Boundaries
  <2>2. SubSeq(c, 1, i) = SubSeq(a, 1, i) /\ c[i + 1] = a[i + 1]
    BY AboveAPart
  <2> QED BY <1>3, <2>1, <2>2
<1> HIDE DEF Clear, Has
<1> QED BY <1>1, <1>2, <1>4, <1>5, <1>6, <1>7

(* What an impl's parts see of it, as its type names them.                   *)
LEMMA ImplParameter ==
  ASSUME NEW t, IsFile(t), NEW a \in DOMAIN t, t[a].node = "impl", 1 \in 1 .. t[a].kids
  PROVE  IsLocal(t, Append(a, 1), "Type", t[a].segments) <=>
           Len(t[a].segments) = 1 /\ t[a].segments[1] \in Params(t[a], "Type")
<1>1. \A x : HasLocal(t, Append(a, 1), "Type", x) <=> x \in Params(t[a], "Type")
  BY PartHasLocal DEF Boundaries
<1> QED BY <1>1 DEF IsLocal

(* Only an item changes on whose behalf a name is.                           *)
LEMMA PartContainer ==
  ASSUME NEW t, IsFile(t), NEW a \in DOMAIN t, NEW k \in 1 .. t[a].kids
  PROVE  Container(t, Append(a, k)) =
           IF t[a].node = "impl" THEN OwnersOf(t[a])
           ELSE IF t[a].node \in {"item", "mod"}
                THEN IF t[a].node = "item" /\ InTable(t, a) THEN {<<ModuleOf(t, a), t[a].name>>} \cap Collected ELSE {}
           ELSE Container(t, a)
<1> DEFINE ItemsOf(b) == {i \in Outward(b) : Above(t, b, i).node \in Boundaries}
           By(n, here) == IF n.node = "impl"
                          THEN IF IsLocal(t, Append(here, 1), "Type", n.segments) \/ Owners[n.segments] = {} THEN {}
                               ELSE Owners[n.segments] \cup Owners[n.trait]
                          ELSE IF n.node = "item" /\ InTable(t, here)
                               THEN {<<ModuleOf(t, here), n.name>>} \cap Collected
                          ELSE {}
           c == Append(a, k)
<1>1. \A b : Container(t, b) = IF ItemsOf(b) = {} THEN {}
                               ELSE By(Above(t, b, Innermost(ItemsOf(b))), SubSeq(b, 1, Innermost(ItemsOf(b))))
  BY DEF Container
<1>2. Outward(c) = Outward(a) \cup {Len(a)} /\ Outward(a) = 0 .. Len(a) - 1 /\ Len(a) \in Nat
  BY AboveAPart
<1>3. /\ Above(t, c, Len(a)) = t[a] /\ SubSeq(c, 1, Len(a)) = a
      /\ \A i \in Outward(a) : Above(t, c, i) = Above(t, a, i) /\ SubSeq(c, 1, i) = SubSeq(a, 1, i)
  BY AboveAPart
<1>4. \A i \in Outward(a) : i \in ItemsOf(c) <=> i \in ItemsOf(a)
  BY <1>2, <1>3
<1>5. Len(a) \in ItemsOf(c) <=> t[a].node \in Boundaries
  BY <1>2, <1>3
<1>6. ItemsOf(a) \subseteq Outward(a) /\ ItemsOf(c) \subseteq Outward(a) \cup {Len(a)}
  BY <1>2
<1>7. t[a].node = "impl" => By(t[a], a) = OwnersOf(t[a])
  <2>1. t[a].kids \in Nat
    BY FileFacts
  <2>2. 1 \in 1 .. t[a].kids
    BY <2>1
  <2> QED BY <2>2, ImplParameter DEF OwnersOf
<1>8. t[a].node \in {"item", "mod"} =>
        By(t[a], a) = IF t[a].node = "item" /\ InTable(t, a) THEN {<<ModuleOf(t, a), t[a].name>>} \cap Collected ELSE {}
  OBVIOUS
<1> HIDE DEF ItemsOf, By
<1>9. CASE t[a].node \in Boundaries
  <2>1. ItemsOf(c) \in SUBSET Nat /\ Len(a) \in ItemsOf(c) /\ \A i \in ItemsOf(c) : i <= Len(a)
    BY <1>2, <1>5, <1>6, <1>9
  <2>2. Innermost(ItemsOf(c)) = Len(a)
    BY <2>1, InnermostIs
  <2>3. Container(t, c) = By(t[a], a)
    BY <1>1, <1>3, <2>1, <2>2
  <2> QED BY <1>7, <1>8, <1>9, <2>3 DEF Boundaries
<1>10. CASE t[a].node \notin Boundaries
  <2>1. ItemsOf(c) = ItemsOf(a)
    BY <1>4, <1>5, <1>6, <1>10
  <2>2. ASSUME ItemsOf(a) # {} PROVE Innermost(ItemsOf(a)) \in Outward(a)
    <3>1. ItemsOf(a) \in SUBSET (0 .. Len(a) - 1)
      BY <1>2, <1>6
    <3>2. Innermost(ItemsOf(a)) \in ItemsOf(a)
      BY <1>2, <2>2, <3>1, InnermostExists
    <3> QED BY <1>6, <3>2
  <2>3. Container(t, c) = Container(t, a)
    BY <1>1, <1>3, <2>1, <2>2
  <2> QED BY <1>10, <2>3 DEF Boundaries
<1> QED BY <1>9, <1>10

(* Only the members of an impl are in it, as far as its type's name goes.    *)
LEMMA PartIsSelf ==
  ASSUME NEW t, IsFile(t), NEW a \in DOMAIN t, NEW k \in 1 .. t[a].kids, NEW segments
  PROVE  IsSelf(t, Append(a, k), segments) <=>
           IF t[a].node = "impl" /\ k > t[a].heads
           THEN /\ segments[1] = Last(t[a].segments)
                /\ \/ Len(t[a].segments) = 1
                   \/ <<ModuleOf(t, a), t[a].segments, segments[1]>> \in BareMeans
           ELSE IsSelf(t, a, segments)
<1> DEFINE ImplsOf(b) == {i \in Outward(b) : Above(t, b, i).node = "impl" /\ b[i + 1] > Above(t, b, i).heads}
           By(type, m) == /\ segments[1] = Last(type)
                          /\ Len(type) = 1 \/ <<m, type, segments[1]>> \in BareMeans
           c == Append(a, k)
<1>1. \A b : IsSelf(t, b, segments) <=>
               ImplsOf(b) # {} /\ By(Above(t, b, Innermost(ImplsOf(b))).segments, ModuleOf(t, b))
  BY DEF IsSelf
<1>2. Outward(c) = Outward(a) \cup {Len(a)} /\ Outward(a) = 0 .. Len(a) - 1 /\ Len(a) \in Nat
  BY AboveAPart
<1>3. /\ Above(t, c, Len(a)) = t[a] /\ c[Len(a) + 1] = k
      /\ \A i \in Outward(a) : Above(t, c, i) = Above(t, a, i) /\ c[i + 1] = a[i + 1]
  BY AboveAPart
<1>4. \A i \in Outward(a) : i \in ImplsOf(c) <=> i \in ImplsOf(a)
  BY <1>2, <1>3
<1>5. Len(a) \in ImplsOf(c) <=> t[a].node = "impl" /\ k > t[a].heads
  BY <1>2, <1>3
<1>6. ImplsOf(a) \subseteq Outward(a) /\ ImplsOf(c) \subseteq Outward(a) \cup {Len(a)}
  BY <1>2
<1>7. t[a].node = "mod" /\ InTable(t, a) => ImplsOf(a) = {}
  <2>1. SUFFICES ASSUME t[a].node = "mod", InTable(t, a), NEW i \in Outward(a)
                 PROVE  Above(t, a, i).node # "impl"
    OBVIOUS
  <2>2. CASE i = 0
    <3>1. a \in Address /\ t[<<>>].node = "file"
      BY FileFacts DEF IsFile
    <3>2. SubSeq(a, 1, 0) = <<>>
      BY <3>1 DEF Address
    <3> QED BY <2>2, <3>1, <3>2 DEF Above
  <2>3. CASE i # 0
    BY <2>1, <2>3 DEF InTable
  <2> QED BY <2>2, <2>3
<1> HIDE DEF ImplsOf, By
<1>8. CASE t[a].node = "impl" /\ k > t[a].heads
  <2>1. ImplsOf(c) \in SUBSET Nat /\ Len(a) \in ImplsOf(c) /\ \A i \in ImplsOf(c) : i <= Len(a)
    BY <1>2, <1>5, <1>6, <1>8
  <2>2. Innermost(ImplsOf(c)) = Len(a)
    BY <2>1, InnermostIs
  <2>3. ModuleOf(t, c) = ModuleOf(t, a)
    BY <1>8, PartModule
  <2>4. IsSelf(t, c, segments) <=> By(t[a].segments, ModuleOf(t, a))
    BY <1>1, <1>3, <2>1, <2>2, <2>3
  <2> QED BY <1>8, <2>4 DEF By
<1>9. CASE ~ (t[a].node = "impl" /\ k > t[a].heads)
  <2>1. ImplsOf(c) = ImplsOf(a)
    BY <1>4, <1>5, <1>6, <1>9
  <2>2. CASE ImplsOf(a) = {}
    BY <1>1, <1>9, <2>1, <2>2
  <2>3. CASE ImplsOf(a) # {}
    <3>1. ImplsOf(a) \in SUBSET (0 .. Len(a) - 1)
      BY <1>2, <1>6
    <3>2. Innermost(ImplsOf(a)) \in ImplsOf(a)
      BY <1>2, <2>3, <3>1, InnermostExists
    <3>3. Above(t, c, Innermost(ImplsOf(a))) = Above(t, a, Innermost(ImplsOf(a)))
      BY <1>3, <1>6, <3>2
    <3>4. ModuleOf(t, c) = ModuleOf(t, a)
      BY <1>7, <2>3, PartModule
    <3> QED BY <1>1, <1>9, <2>1, <2>3, <3>3, <3>4
  <2> QED BY <2>2, <2>3
<1> QED BY <1>8, <1>9

(* Among the arguments of a path: to the next item or pattern.               *)
LEMMA PartInArguments ==
  ASSUME NEW t, IsFile(t), NEW a \in DOMAIN t, NEW k \in 1 .. t[a].kids
  PROVE  InArguments(t, Append(a, k)) <=>
           \/ t[a].node = "path" /\ t[a].space # "Bare"
           \/ t[a].node \notin Boundaries \cup Patterns /\ InArguments(t, a)
<1> DEFINE c == Append(a, k)
           Clear(b, i) == \A j \in Outward(b) : j > i => Above(t, b, j).node \notin Boundaries \cup Patterns
           Has(b, i) == Above(t, b, i).node = "path" /\ Above(t, b, i).space # "Bare"
<1>1. \A b : InArguments(t, b) <=> \E i \in Outward(b) : Has(b, i) /\ Clear(b, i)
  BY DEF InArguments
<1>2. Outward(c) = Outward(a) \cup {Len(a)} /\ Outward(a) = 0 .. Len(a) - 1 /\ Len(a) \in Nat
  BY AboveAPart
<1>3. Above(t, c, Len(a)) = t[a] /\ \A i \in Outward(a) : Above(t, c, i) = Above(t, a, i)
  BY AboveAPart
<1>4. Clear(c, Len(a)) /\ (Has(c, Len(a)) <=> t[a].node = "path" /\ t[a].space # "Bare")
  BY <1>2, <1>3
<1>5. ASSUME NEW i \in Outward(a)
      PROVE  (Has(c, i) <=> Has(a, i)) /\ (Clear(c, i) <=> Clear(a, i) /\ t[a].node \notin Boundaries \cup Patterns)
  BY <1>2, <1>3
<1> HIDE DEF Clear, Has
<1> QED BY <1>1, <1>2, <1>4, <1>5

-------------------------------------------------------------------------------
(* What a pattern or a condition introduces *)

(* To begin with an address, by its length.                                  *)
LEMMA PrefixIs ==
  ASSUME NEW a \in Address, NEW b \in Address
  PROVE  IsPrefix(a, b) <=> Len(a) <= Len(b) /\ SubSeq(b, 1, Len(a)) = a
<1>1. SubSeq(a, 1, Len(a)) = a
  BY DEF Address
<1> QED BY <1>1 DEF IsPrefix

(* An address begins with another: it is that, or begins with one a step     *)
(* longer.                                                                   *)
LEMMA PrefixSteps ==
  ASSUME NEW a \in Address, NEW b \in Address
  PROVE  /\ IsPrefix(a, b) => Len(a) <= Len(b) /\ SubSeq(b, 1, Len(a)) = a
         /\ IsPrefix(a, a)
         /\ IsPrefix(a, b) /\ b # a => Len(a) < Len(b) /\ IsPrefix(Append(a, b[Len(a) + 1]), b)
         /\ \A k \in Nat \ {0} : IsPrefix(Append(a, k), b) => IsPrefix(a, b) /\ b # a /\ b[Len(a) + 1] = k
<1>0. Len(a) \in Nat /\ Len(b) \in Nat /\ SubSeq(a, 1, Len(a)) = a /\ SubSeq(b, 1, Len(b)) = b
  BY DEF Address
<1>1. IsPrefix(a, b) => Len(a) <= Len(b) /\ SubSeq(b, 1, Len(a)) = a
  BY PrefixIs
<1>2. IsPrefix(a, a)
  BY <1>0, PrefixIs
<1>3. ASSUME IsPrefix(a, b), b # a PROVE Len(a) < Len(b) /\ IsPrefix(Append(a, b[Len(a) + 1]), b)
  <2>1. Len(a) < Len(b)
    BY <1>0, <1>1, <1>3
  <2>2. b[Len(a) + 1] \in Nat \ {0}
    BY <1>0, <2>1 DEF Address
  <2>3. Append(a, b[Len(a) + 1]) \in Address /\ Len(Append(a, b[Len(a) + 1])) = Len(a) + 1
    BY <2>2, PartAddress
  <2>4. SubSeq(b, 1, Len(a) + 1) \in Address /\ Len(SubSeq(b, 1, Len(a) + 1)) = Len(a) + 1
    BY <1>0, <2>1, BeginningOf
  <2>5. ASSUME NEW i \in 1 .. Len(a) + 1 PROVE SubSeq(b, 1, Len(a) + 1)[i] = Append(a, b[Len(a) + 1])[i]
    <3>1. SubSeq(b, 1, Len(a) + 1)[i] = b[i]
      BY <1>0, <2>1, BeginningOf
    <3>2. CASE i = Len(a) + 1
      BY <2>2, <3>1, <3>2, PartAddress
    <3>3. CASE i # Len(a) + 1
      <4>1. i \in 1 .. Len(a)
        BY <1>0, <3>3
      <4>2. a[i] = b[i]
        BY <1>0, <1>1, <1>3, <2>1, <4>1, BeginningOf
      <4> QED BY <2>2, <3>1, <4>1, <4>2, PartAddress
    <3> QED BY <3>2, <3>3
  <2>6. SubSeq(b, 1, Len(a) + 1) = Append(a, b[Len(a) + 1])
    BY <2>3, <2>4, <2>5, SeqEqual DEF Address
  <2>7. /\ Len(Append(a, b[Len(a) + 1])) <= Len(b)
        /\ SubSeq(b, 1, Len(Append(a, b[Len(a) + 1]))) = Append(a, b[Len(a) + 1])
    BY <1>0, <2>1, <2>3, <2>6
  <2> QED BY <2>1, <2>3, <2>7, PrefixIs
<1>4. ASSUME NEW k \in Nat \ {0}, IsPrefix(Append(a, k), b) PROVE IsPrefix(a, b) /\ b # a /\ b[Len(a) + 1] = k
  <2>1. Append(a, k) \in Address /\ Len(Append(a, k)) = Len(a) + 1 /\ SubSeq(Append(a, k), 1, Len(a)) = a
    <3>1. Len(a) \in 0 .. Len(a)
      BY <1>0
    <3> QED BY <1>0, <3>1, PartAddress
  <2>2. Len(a) + 1 <= Len(b) /\ SubSeq(b, 1, Len(a) + 1) = Append(a, k)
    BY <1>4, <2>1, PrefixIs
  <2>3. SubSeq(b, 1, Len(a)) = a /\ b[Len(a) + 1] = Append(a, k)[Len(a) + 1]
    <3>1. /\ Len(a) + 1 \in 0 .. Len(b) /\ Len(a) + 1 \in 1 .. Len(a) + 1
          /\ Len(a) \in 0 .. Len(a) + 1
      BY <1>0, <2>2
    <3>2. SubSeq(SubSeq(b, 1, Len(a) + 1), 1, Len(a)) = SubSeq(b, 1, Len(a))
      BY <3>1, BeginningOf
    <3>3. SubSeq(b, 1, Len(a) + 1)[Len(a) + 1] = b[Len(a) + 1]
      BY <3>1, BeginningOf
    <3> QED BY <2>1, <2>2, <3>2, <3>3
  <2>4. IsPrefix(a, b) /\ b # a
    BY <1>0, <2>2, <2>3, PrefixIs
  <2>5. Append(a, k)[Len(a) + 1] = k
    BY PartAddress
  <2> QED BY <2>3, <2>4, <2>5
<1> QED BY <1>1, <1>2, <1>3, <1>4

(* A node introduces what its parts do, if it hands it on, and itself.       *)
LEMMA IntroducedIs ==
  ASSUME NEW t, IsFile(t), NEW a \in DOMAIN t
  PROVE  /\ t[a].node \notin Introducers => Introduced(t, a) = {}
         /\ t[a].node \in Introducers =>
              Introduced(t, a) = (IF t[a].node = "ident" THEN {a} ELSE {})
                                   \cup UNION {Introduced(t, Append(a, j)) : j \in 1 .. t[a].kids}
         /\ \A b \in Introduced(t, a) :
              b \in DOMAIN t /\ t[b].node = "ident" /\ ModuleOf(t, b) = ModuleOf(t, a)
<1>0. a \in Address /\ t[a].kids \in Nat /\ Len(a) \in Nat /\ \A b \in DOMAIN t : b \in Address /\ Len(b) \in Nat
  BY FileFacts DEF Address
<1>1. ASSUME NEW b \in DOMAIN t, IsPrefix(a, b), b # a
      PROVE  /\ Len(a) < Len(b) /\ Above(t, b, Len(a)) = t[a]
             /\ b[Len(a) + 1] \in 1 .. t[a].kids
             /\ IsPrefix(Append(a, b[Len(a) + 1]), b)
  <2>1. Len(a) < Len(b) /\ SubSeq(b, 1, Len(a)) = a /\ IsPrefix(Append(a, b[Len(a) + 1]), b)
    BY <1>0, <1>1, PrefixSteps
  <2>2. Len(a) \in Outward(b)
    BY <1>0, <2>1 DEF Outward
  <2> QED BY <2>1, <2>2, FileFacts DEF Above
<1>2. \A b \in Introduced(t, a) : /\ b \in DOMAIN t /\ t[b].node = "ident" /\ IsPrefix(a, b)
                                  /\ \A i \in Len(a) .. Len(b) - 1 : Above(t, b, i).node \in Introducers
  BY DEF Introduced
<1>3. ASSUME NEW b \in Introduced(t, a) PROVE t[a].node \in Introducers
  <2>1. CASE b = a
    BY <1>2, <2>1 DEF Introducers, Patterns, Plain
  <2>2. CASE b # a
    <3>1. Len(a) < Len(b) /\ Above(t, b, Len(a)) = t[a]
      BY <1>1, <1>2, <2>2
    <3>2. Len(a) \in Len(a) .. Len(b) - 1
      BY <1>0, <1>2, <3>1
    <3> QED BY <1>2, <3>1, <3>2
  <2> QED BY <2>1, <2>2
<1>4. ASSUME NEW b \in Introduced(t, a)
      PROVE  b \in (IF t[a].node = "ident" THEN {a} ELSE {}) \cup UNION {Introduced(t, Append(a, j)) : j \in 1 .. t[a].kids}
  <2>1. CASE b = a
    BY <1>2, <2>1
  <2>2. CASE b # a
    <3> DEFINE j == b[Len(a) + 1]
    <3>1. j \in 1 .. t[a].kids /\ IsPrefix(Append(a, j), b) /\ Len(a) < Len(b)
      BY <1>1, <1>2, <2>2
    <3>2. Len(Append(a, j)) = Len(a) + 1
      BY <3>1, AboveAPart
    <3>3. \A i \in Len(a) + 1 .. Len(b) - 1 : i \in Len(a) .. Len(b) - 1
      BY <1>0, <1>2
    <3>4. b \in Introduced(t, Append(a, j))
      BY <1>2, <3>1, <3>2, <3>3 DEF Introduced
    <3> QED BY <3>1, <3>4
  <2> QED BY <2>1, <2>2
<1>5. ASSUME t[a].node \in Introducers, NEW j \in 1 .. t[a].kids, NEW b \in Introduced(t, Append(a, j))
      PROVE  b \in Introduced(t, a)
  <2>1. Append(a, j) \in DOMAIN t /\ Len(Append(a, j)) = Len(a) + 1
    BY AboveAPart
  <2>2. /\ b \in DOMAIN t /\ t[b].node = "ident" /\ IsPrefix(Append(a, j), b)
        /\ \A i \in Len(a) + 1 .. Len(b) - 1 : Above(t, b, i).node \in Introducers
    BY <2>1 DEF Introduced
  <2>3. IsPrefix(a, b) /\ b # a
    <3>1. j \in Nat \ {0}
      BY <1>0
    <3> QED BY <1>0, <2>2, <3>1, PrefixSteps
  <2>4. Above(t, b, Len(a)) = t[a]
    BY <1>1, <2>2, <2>3
  <2>5. \A i \in Len(a) .. Len(b) - 1 : i = Len(a) \/ i \in Len(a) + 1 .. Len(b) - 1
    BY <1>0, <2>2
  <2>6. \A i \in Len(a) .. Len(b) - 1 : Above(t, b, i).node \in Introducers
    BY <1>5, <2>2, <2>4, <2>5
  <2> QED BY <2>2, <2>3, <2>6 DEF Introduced
<1>6. ASSUME t[a].node = "ident" PROVE a \in Introduced(t, a)
  <2>1. IsPrefix(a, a)
    BY <1>0, PrefixSteps
  <2>2. Len(a) .. Len(a) - 1 = {}
    BY <1>0
  <2> QED BY <1>6, <2>1, <2>2 DEF Introduced
<1>7. ASSUME t[a].node \in Introducers
      PROVE  Introduced(t, a) = (IF t[a].node = "ident" THEN {a} ELSE {})
                                  \cup UNION {Introduced(t, Append(a, j)) : j \in 1 .. t[a].kids}
  <2>1. ASSUME NEW b \in UNION {Introduced(t, Append(a, j)) : j \in 1 .. t[a].kids} PROVE b \in Introduced(t, a)
    <3>1. PICK j \in 1 .. t[a].kids : b \in Introduced(t, Append(a, j))
      OBVIOUS
    <3> QED BY <1>5, <1>7, <3>1
  <2> QED BY <1>4, <1>6, <2>1
<1>8. ASSUME NEW b \in Introduced(t, a) PROVE ModuleOf(t, b) = ModuleOf(t, a)
  <2> DEFINE ModsOf(p) == {i \in Outward(p) \ {0} : Above(t, p, i).node = "mod" /\ InTable(t, SubSeq(p, 1, i))}
  <2>1. \A p : ModuleOf(t, p) = IF ModsOf(p) = {} THEN "top" ELSE Above(t, p, Innermost(ModsOf(p))).name
    BY DEF ModuleOf
  <2>2. b \in Address /\ Len(a) <= Len(b) /\ SubSeq(b, 1, Len(a)) = a
    BY <1>0, <1>2, PrefixSteps
  <2>3. Outward(a) = 0 .. Len(a) - 1 /\ Outward(b) = 0 .. Len(b) - 1
    BY DEF Outward
  <2>4. \A i \in Outward(a) : SubSeq(a, 1, i) = SubSeq(b, 1, i) /\ i \in Outward(b)
    <3>1. Len(a) \in 0 .. Len(b) /\ \A i \in Outward(a) : i \in 0 .. Len(a)
      BY <1>0, <2>2, <2>3
    <3> QED BY <1>0, <1>2, <2>2, <2>3, <3>1, BeginningOf
  <2>5. \A i \in Outward(a) : Above(t, a, i) = Above(t, b, i)
    BY <2>4 DEF Above
  <2>6. \A i \in Outward(b) \ Outward(a) : Above(t, b, i).node # "mod"
    <3>1. \A i \in Outward(b) \ Outward(a) : i \in Len(a) .. Len(b) - 1
      BY <1>0, <1>2, <2>3
    <3> QED BY <1>2, <3>1 DEF Introducers, Patterns, Plain
  <2>7. \A i \in Outward(a) : i \in ModsOf(a) <=> i \in ModsOf(b)
    BY <2>4, <2>5
  <2>8. ModsOf(a) \subseteq Outward(a) /\ ModsOf(b) \subseteq Outward(a)
    BY <2>6
  <2> HIDE DEF ModsOf
  <2>9. ModsOf(a) = ModsOf(b)
    BY <2>7, <2>8
  <2>10. ASSUME ModsOf(a) # {} PROVE Innermost(ModsOf(a)) \in Outward(a)
    <3>1. ModsOf(a) \in SUBSET (0 .. Len(a) - 1)
      BY <2>3, <2>8
    <3>2. Innermost(ModsOf(a)) \in ModsOf(a)
      BY <1>0, <2>10, <3>1, InnermostExists
    <3> QED BY <2>8, <3>2
  <2> QED BY <2>1, <2>5, <2>9, <2>10
<1> QED BY <1>2, <1>3, <1>7, <1>8

(* Beside a part that is no pattern, nothing stands that introduces names,   *)
(* but where it is meant to see them.                                        *)
LEMMA NoneBefore ==
  ASSUME NEW t, IsFile(t), NEW a \in DOMAIN t, NEW k \in 1 .. t[a].kids, NEW j \in 1 .. k - 1,
         ~ SeesBefore(t[a], k), t[a].node # "if", t[Append(a, k)].node \notin Plain
  PROVE  Introduced(t, Append(a, j)) = {}
<1>1. t[a].kids \in Nat /\ HasItsParts(t[a])
  BY FileFacts
<1>2. j \in 1 .. t[a].kids /\ j # t[a].kids
  BY <1>1
<1>3. /\ Stands(t[Append(a, j)], t[a], j) /\ Stands(t[Append(a, k)], t[a], k)
      /\ Append(a, j) \in DOMAIN t
  BY <1>2, FileFacts
<1>4. t[a].node \notin Plain
  BY <1>3 DEF Stands
<1>5. t[Append(a, j)].node \notin Introducers
  <2>1. t[Append(a, j)].node \notin {"let", "case", "chain"}
    BY <1>3 DEF Stands, SeesBefore
  <2>2. t[Append(a, j)].node \notin Patterns
    <3>1. t[a].node = "typed" => j # 2
      BY <1>1, <1>2 DEF HasItsParts
    <3> QED BY <1>2, <1>3, <1>4, <3>1 DEF Stands, SeesBefore
  <2> QED BY <2>1, <2>2 DEF Introducers
<1> QED BY <1>3, <1>5, IntroducedIs

(* Items, paths and most expressions introduce nothing anywhere.             *)
LEMMA NoneIn ==
  ASSUME NEW t, IsFile(t), NEW a \in DOMAIN t, NEW j \in 1 .. t[a].kids,
         \/ t[a].node \in {"file", "impl", "mod", "path", "exprs"}
         \/ t[a].node = "for" /\ j = 1
         \/ t[a].node = "if" /\ j >= 2
  PROVE  Introduced(t, Append(a, j)) = {}
<1>1. Stands(t[Append(a, j)], t[a], j) /\ Append(a, j) \in DOMAIN t /\ t[a].kids \in Nat
  BY FileFacts
<1>2. j # 1 \/ t[a].node # "if"
  BY <1>1
<1>3. t[Append(a, j)].node \notin Introducers
  BY <1>1, <1>2 DEF Stands, Introducers, Patterns, Plain
<1> QED BY <1>1, <1>3, IntroducedIs

-------------------------------------------------------------------------------
(* Scopes *)

Frames == Seq(SUBSET STRING)

(* bind_value for several names: into the innermost frame, if there is one.  *)
Grow(frames, names) == IF frames = <<>> THEN <<>> ELSE [frames EXCEPT ![Len(frames)] = @ \cup names]

(* What has a value at each of 1 to n is a sequence of length n.             *)
LEMMA SequenceOver ==
  ASSUME NEW S, NEW n \in Nat, NEW g \in [1 .. n -> S]
  PROVE  g \in Seq(S) /\ Len(g) = n
OBVIOUS

(* The same for stacks of frames.                                            *)
LEMMA FramesOf ==
  ASSUME NEW n \in Nat, NEW g \in [1 .. n -> SUBSET STRING]
  PROVE  g \in Frames /\ Len(g) = n /\ DOMAIN g = 1 .. n
BY DEF Frames

(* bind_value touches the innermost frame and no other.                      *)
LEMMA GrowIs ==
  ASSUME NEW f \in Frames, f # <<>>, NEW R \in SUBSET STRING
  PROVE  /\ Len(f) \in Nat /\ Len(f) \in DOMAIN f /\ DOMAIN f = 1 .. Len(f)
         /\ Grow(f, R) \in Frames /\ Len(Grow(f, R)) = Len(f) /\ DOMAIN Grow(f, R) = DOMAIN f
         /\ Grow(f, R) # <<>>
         /\ \A i \in DOMAIN f : Grow(f, R)[i] = IF i = Len(f) THEN f[i] \cup R ELSE f[i]
<1>1. Len(f) \in Nat /\ Len(f) \in DOMAIN f /\ DOMAIN f = 1 .. Len(f) /\ f \in [1 .. Len(f) -> SUBSET STRING]
  BY DEF Frames
<1>2. Grow(f, R) = [f EXCEPT ![Len(f)] = f[Len(f)] \cup R]
  BY DEF Grow
<1>3. \A i \in DOMAIN f : Grow(f, R)[i] = IF i = Len(f) THEN f[i] \cup R ELSE f[i]
  BY <1>1, <1>2
<1>4. Grow(f, R) \in [1 .. Len(f) -> SUBSET STRING]
  BY <1>1, <1>2
<1>5. Grow(f, R) \in Frames /\ Len(Grow(f, R)) = Len(f) /\ DOMAIN Grow(f, R) = DOMAIN f
  BY <1>1, <1>4, FramesOf
<1>6. Grow(f, R) # <<>>
  BY <1>1, <1>5
<1> QED BY <1>1, <1>3, <1>5, <1>6

(* Binding none, some and then more, and what is bound after it.             *)
LEMMA GrowLaws ==
  ASSUME NEW f \in Frames, NEW S \in SUBSET STRING, NEW T \in SUBSET STRING
  PROVE  /\ Grow(f, S) \in Frames /\ Len(Grow(f, S)) = Len(f)
         /\ Grow(f, {}) = f
         /\ Grow(Grow(f, S), T) = Grow(f, S \cup T)
         /\ Grow(f, S) = <<>> <=> f = <<>>
         /\ f # <<>> => \A x : BoundIn(Grow(f, S), x) <=> BoundIn(f, x) \/ x \in S
<1>1. CASE f = <<>>
  BY <1>1 DEF Grow, Frames
<1>2. CASE f # <<>>
  <2>1. Len(f) \in Nat /\ Len(f) \in DOMAIN f /\ DOMAIN f = 1 .. Len(f)
    BY <1>2, GrowIs
  <2>2. /\ Grow(f, S) \in Frames /\ Len(Grow(f, S)) = Len(f) /\ DOMAIN Grow(f, S) = DOMAIN f
        /\ Grow(f, S) # <<>>
        /\ \A i \in DOMAIN f : Grow(f, S)[i] = IF i = Len(f) THEN f[i] \cup S ELSE f[i]
    BY <1>2, GrowIs
  <2>3. Grow(f, {}) = f
    <3>1. {} \in SUBSET STRING
      OBVIOUS
    <3>2. Grow(f, {}) \in Frames /\ Len(Grow(f, {})) = Len(f)
      BY <1>2, <3>1, GrowIs
    <3>3. \A i \in 1 .. Len(f) : Grow(f, {})[i] = f[i]
      <4>1. \A i \in 1 .. Len(f) : Grow(f, {})[i] = IF i = Len(f) THEN f[i] \cup {} ELSE f[i]
        BY <1>2, <2>1, <3>1, GrowIs
      <4>2. \A i : f[i] \cup {} = f[i]
        OBVIOUS
      <4> QED BY <4>1, <4>2
    <3> QED BY <3>2, <3>3, SeqEqual DEF Frames
  <2>4. Grow(Grow(f, S), T) = Grow(f, S \cup T)
    <3>1. S \cup T \in SUBSET STRING
      OBVIOUS
    <3>2. Grow(Grow(f, S), T) \in Frames /\ Len(Grow(Grow(f, S), T)) = Len(f)
      BY <2>2, GrowIs
    <3>3. Grow(f, S \cup T) \in Frames /\ Len(Grow(f, S \cup T)) = Len(f)
      BY <1>2, <3>1, GrowIs
    <3>4. ASSUME NEW i \in 1 .. Len(f) PROVE Grow(Grow(f, S), T)[i] = Grow(f, S \cup T)[i]
      <4>1. Grow(Grow(f, S), T)[i] = IF i = Len(f) THEN Grow(f, S)[i] \cup T ELSE Grow(f, S)[i]
        <5>1. i \in DOMAIN Grow(f, S)
          BY <2>1, <2>2
        <5>2. Grow(f, S) \in Frames /\ Grow(f, S) # <<>> /\ Len(Grow(f, S)) = Len(f)
          BY <2>2
        <5>3. ASSUME NEW h \in Frames, h # <<>>, NEW j \in DOMAIN h
              PROVE  Grow(h, T)[j] = IF j = Len(h) THEN h[j] \cup T ELSE h[j]
          BY <5>3, GrowIs
        <5> HIDE DEF Grow
        <5> QED BY <5>1, <5>2, <5>3
      <4>2. Grow(f, S \cup T)[i] = IF i = Len(f) THEN f[i] \cup (S \cup T) ELSE f[i]
        BY <1>2, <2>1, <3>1, GrowIs
      <4> QED BY <2>1, <2>2, <4>1, <4>2
    <3> QED BY <3>2, <3>3, <3>4, SeqEqual DEF Frames
  <2>5. ASSUME NEW x PROVE BoundIn(Grow(f, S), x) <=> BoundIn(f, x) \/ x \in S
    BY <2>1, <2>2 DEF BoundIn
  <2> QED BY <1>2, <2>2, <2>3, <2>4, <2>5
<1> QED BY <1>1, <1>2

(* in_scope leaves the frames as they were, whatever is bound meanwhile.     *)
LEMMA ScopeLaws ==
  ASSUME NEW f \in Frames, NEW S \in SUBSET STRING, NEW T \in SUBSET STRING
  PROVE  /\ Append(f, S) \in Frames /\ Append(f, S) # <<>> /\ Len(Append(f, S)) = Len(f) + 1
         /\ \A x : BoundIn(Append(f, S), x) <=> BoundIn(f, x) \/ x \in S
         /\ Front(Append(f, S)) = f
         /\ Front(Grow(Append(f, S), T)) = f
<1>1. /\ Append(f, S) \in Frames /\ Append(f, S) # <<>> /\ Len(Append(f, S)) = Len(f) + 1
      /\ DOMAIN f = 1 .. Len(f) /\ DOMAIN Append(f, S) = 1 .. Len(f) + 1 /\ Len(f) \in Nat
      /\ Append(f, S)[Len(f) + 1] = S
      /\ \A i \in DOMAIN f : Append(f, S)[i] = f[i]
  <2>1. Append(f, S) \in Frames /\ Append(f, S) # <<>> /\ Len(Append(f, S)) = Len(f) + 1
    BY AppendProperties DEF Frames
  <2>2. DOMAIN f = 1 .. Len(f) /\ Len(f) \in Nat
    BY DEF Frames
  <2>3. DOMAIN Append(f, S) = 1 .. Len(f) + 1
    BY <2>1 DEF Frames
  <2>4. Append(f, S)[Len(f) + 1] = S /\ \A i \in 1 .. Len(f) : Append(f, S)[i] = f[i]
    BY DEF Frames
  <2> QED BY <2>1, <2>2, <2>3, <2>4
<1>2. ASSUME NEW x PROVE BoundIn(Append(f, S), x) <=> BoundIn(f, x) \/ x \in S
  BY <1>1 DEF BoundIn
<1>3. ASSUME NEW g \in Frames, Len(g) = Len(f) + 1, \A i \in DOMAIN f : g[i] = f[i]
      PROVE  Front(g) = f
  <2>1. Front(g) \in Frames /\ Len(Front(g)) = Len(f) /\ \A i \in 1 .. Len(f) : Front(g)[i] = f[i]
    BY <1>1, <1>3 DEF Front, Frames
  <2> QED BY <2>1, SeqEqual DEF Frames
<1>4. Front(Append(f, S)) = f
  BY <1>1, <1>3
<1>5. /\ Grow(Append(f, S), T) \in Frames /\ Len(Grow(Append(f, S), T)) = Len(f) + 1
      /\ \A i \in DOMAIN f : Grow(Append(f, S), T)[i] = f[i]
  <2>1. \A i \in DOMAIN f : i \in DOMAIN Append(f, S) /\ i # Len(f) + 1
    BY <1>1
  <2> QED BY <1>1, <2>1, GrowIs
<1> QED BY <1>1, <1>2, <1>3, <1>4, <1>5

-------------------------------------------------------------------------------
(* What the rest of the walk leads to *)

Spaces  == {"Value", "Type", "Other"}
Selves  == STRING \cup {""}
Modules == STRING \cup {"top"}

(* What the walk carries along.                                              *)
Env == {e \in [values : Frames, types : Frames, pos : Spaces, self : Selves,
               enclosing : SUBSET Collected, module : Modules] : Len(e.values) = Len(e.types)}

(* What may be left to do of a file.                                         *)
Tasks(t) ==
       [do : {"visit", "bind"}, at : DOMAIN t]
  \cup [do : {"open"}, values : SUBSET STRING, types : SUBSET STRING]
  \cup [do : {"close"}]
  \cup [do : {"position"}, pos : Spaces]
  \cup [do : {"members"}, name : Selves]
  \cup [do : {"restore"}, values : Frames, types : Frames, pos : Spaces,
        enclosing : SUBSET Collected, self : Selves, module : Modules]

(* The names the walk takes for bindings: of all a pattern introduces, those *)
(* it is certain of.                                                         *)
Binds(t, b) == t[b].forced \/ <<ModuleOf(t, b), t[b].name>> \notin MayName
BoundNames(t, S) == {t[b].name : b \in {c \in S : Binds(t, c)}}
Before(t, a, from, k) == UNION {Introduced(t, Append(a, j)) : j \in from .. k - 1}

(* What a pattern leaves behind.                                             *)
Extend(e, names) == [e EXCEPT !.values = Grow(@, names)]

(* What the walk carries to a node tells of each name in it what RustScopes  *)
(* does, unless a pattern was in doubt.  Inside a pattern no name is asked   *)
(* for as a value.                                                           *)
Fits(t, e, a) ==
  /\ e.module = ModuleOf(t, a) /\ e.enclosing = Container(t, a)
  /\ \A segments \in Path : segments[1] = e.self <=> IsSelf(t, a, segments)
  /\ e.pos # "Other" => InArguments(t, a)
  /\ Len(a) > 1 => e.values # <<>>
  /\ \A x : BoundIn(e.types, x) <=> HasLocal(t, a, "Type", x)
  /\ t[a].node \notin Plain =>
       \A x : /\ BoundIn(e.values, x) => HasLocal(t, a, "Value", x)
              /\ HasLocal(t, a, "Value", x) /\ <<ModuleOf(t, a), x>> \notin MayName \ Constants => BoundIn(e.values, x)

(* A task, begun with e, is done with f.  A node is met as it should be, and *)
(* leaves what it introduces and nothing else.                               *)
Leaves(t, e, k, f) ==
  \/ /\ k.do \in {"visit", "bind"} /\ k = Task(t, k.at) /\ k.at # <<>>
     /\ Fits(t, e, k.at)
     /\ f = Extend(e, BoundNames(t, Introduced(t, k.at)))
  \/ /\ k.do = "open"
     /\ f = [e EXCEPT !.values = Append(@, k.values), !.types = Append(@, k.types)]
  \/ /\ k.do = "close" /\ e.values # <<>>
     /\ f = [e EXCEPT !.values = Front(@), !.types = Front(@)]
  \/ k.do = "position" /\ f = [e EXCEPT !.pos = k.pos]
  \/ k.do = "members" /\ f = [e EXCEPT !.self = k.name]
  \/ /\ k.do = "restore"
     /\ f = [values |-> k.values, types |-> k.types, pos |-> k.pos, self |-> k.self,
             enclosing |-> k.enclosing, module |-> k.module]

(* A list of tasks, begun with e, is done with f.                            *)
Leads(t, e, tasks, f) ==
  /\ tasks \in Seq(Tasks(t))
  /\ \E mid \in [1 .. Len(tasks) + 1 -> Env] :
       /\ mid[1] = e /\ mid[Len(tasks) + 1] = f
       /\ \A i \in 1 .. Len(tasks) : Leaves(t, mid[i], tasks[i], mid[i + 1])

(* Nothing to do changes nothing.                                            *)
LEMMA LeadsNowhere ==
  ASSUME NEW t, NEW e \in Env
  PROVE  Leads(t, e, <<>>, e)
<1> DEFINE mid == [i \in 1 .. 1 |-> e]
<1>1. <<>> \in Seq(Tasks(t)) /\ Len(<<>>) = 0
  OBVIOUS
<1>2. mid \in [1 .. 1 -> Env] /\ mid[1] = e
  OBVIOUS
<1> HIDE DEF mid
<1>3. \A i \in 1 .. 0 : Leaves(t, mid[i], <<>>[i], mid[i + 1])
  OBVIOUS
<1> QED BY <1>1, <1>2, <1>3 DEF Leads

(* A single task.                                                            *)
LEMMA LeadsBy ==
  ASSUME NEW t, NEW e \in Env, NEW f \in Env, NEW k \in Tasks(t), Leaves(t, e, k, f)
  PROVE  Leads(t, e, <<k>>, f)
<1> DEFINE mid == [i \in 1 .. 2 |-> IF i = 1 THEN e ELSE f]
<1>1. <<k>> \in Seq(Tasks(t)) /\ Len(<<k>>) = 1 /\ <<k>>[1] = k
  OBVIOUS
<1>2. mid \in [1 .. Len(<<k>>) + 1 -> Env] /\ mid[1] = e /\ mid[2] = f
  BY <1>1
<1> HIDE DEF mid
<1>3. \A i \in 1 .. Len(<<k>>) : Leaves(t, mid[i], <<k>>[i], mid[i + 1])
  BY <1>1, <1>2
<1> QED BY <1>1, <1>2, <1>3 DEF Leads

(* One list of tasks after another.                                          *)
LEMMA LeadsThrough ==
  ASSUME NEW t, NEW e, NEW f, NEW g, NEW u, NEW v, Leads(t, e, u, f), Leads(t, f, v, g)
  PROVE  Leads(t, e, u \o v, g)
<1>1. PICK m1 \in [1 .. Len(u) + 1 -> Env] :
        /\ m1[1] = e /\ m1[Len(u) + 1] = f
        /\ \A i \in 1 .. Len(u) : Leaves(t, m1[i], u[i], m1[i + 1])
  BY DEF Leads
<1>2. PICK m2 \in [1 .. Len(v) + 1 -> Env] :
        /\ m2[1] = f /\ m2[Len(v) + 1] = g
        /\ \A i \in 1 .. Len(v) : Leaves(t, m2[i], v[i], m2[i + 1])
  BY DEF Leads
<1>3. u \in Seq(Tasks(t)) /\ v \in Seq(Tasks(t)) /\ Len(u) \in Nat /\ Len(v) \in Nat
  BY DEF Leads
<1>4. /\ u \o v \in Seq(Tasks(t)) /\ Len(u \o v) = Len(u) + Len(v)
      /\ \A i \in 1 .. Len(u) + Len(v) : (u \o v)[i] = IF i <= Len(u) THEN u[i] ELSE v[i - Len(u)]
  BY <1>3, ConcatProperties
<1> DEFINE mid == [i \in 1 .. Len(u) + Len(v) + 1 |-> IF i <= Len(u) THEN m1[i] ELSE m2[i - Len(u)]]
<1>5. mid \in [1 .. Len(u \o v) + 1 -> Env]
  <2>1. ASSUME NEW i \in 1 .. Len(u) + Len(v) + 1
        PROVE  (IF i <= Len(u) THEN m1[i] ELSE m2[i - Len(u)]) \in Env
    <3>1. CASE i <= Len(u)
      <4>1. i \in 1 .. Len(u) + 1
        BY <1>3, <3>1
      <4> QED BY <3>1, <4>1
    <3>2. CASE ~ (i <= Len(u))
      <4>1. i - Len(u) \in 1 .. Len(v) + 1
        BY <1>3, <3>2
      <4> QED BY <3>2, <4>1
    <3> QED BY <3>1, <3>2
  <2> QED BY <1>4, <2>1
<1>6. mid[1] = e /\ mid[Len(u \o v) + 1] = g
  BY <1>1, <1>2, <1>3, <1>4
<1>7. ASSUME NEW i \in 1 .. Len(u \o v) PROVE Leaves(t, mid[i], (u \o v)[i], mid[i + 1])
  <2>1. CASE i < Len(u)
    <3>1. i \in 1 .. Len(u) /\ mid[i] = m1[i] /\ mid[i + 1] = m1[i + 1] /\ (u \o v)[i] = u[i]
      BY <1>3, <1>4, <2>1
    <3> QED BY <1>1, <3>1
  <2>2. CASE i = Len(u)
    <3>1. i \in 1 .. Len(u) /\ mid[i] = m1[i] /\ mid[i + 1] = m2[1] /\ (u \o v)[i] = u[i]
      BY <1>3, <1>4, <2>2
    <3> QED BY <1>1, <1>2, <2>2, <3>1
  <2>3. CASE i > Len(u)
    <3>1. /\ i - Len(u) \in 1 .. Len(v) /\ mid[i] = m2[i - Len(u)] /\ mid[i + 1] = m2[(i - Len(u)) + 1]
          /\ (u \o v)[i] = v[i - Len(u)]
      BY <1>3, <1>4, <2>3
    <3> QED BY <1>2, <3>1
  <2> QED BY <1>3, <1>4, <2>1, <2>2, <2>3
<1> QED BY <1>4, <1>5, <1>6, <1>7 DEF Leads

(* The first task, and the rest.                                             *)
LEMMA LeadsOn ==
  ASSUME NEW t, NEW e, NEW f, NEW tasks, Leads(t, e, tasks, f)
  PROVE  /\ tasks \in Seq(Tasks(t)) /\ e \in Env /\ f \in Env
         /\ tasks = <<>> => e = f
         /\ tasks # <<>> =>
              /\ Head(tasks) \in Tasks(t)
              /\ \E g \in Env : Leaves(t, e, Head(tasks), g) /\ Leads(t, g, Tail(tasks), f)
<1>1. PICK m \in [1 .. Len(tasks) + 1 -> Env] :
        /\ m[1] = e /\ m[Len(tasks) + 1] = f
        /\ \A i \in 1 .. Len(tasks) : Leaves(t, m[i], tasks[i], m[i + 1])
  BY DEF Leads
<1>2. tasks \in Seq(Tasks(t)) /\ Len(tasks) \in Nat
  BY DEF Leads
<1>3. e \in Env /\ f \in Env
  BY <1>1, <1>2
<1>4. tasks = <<>> => e = f
  BY <1>1, <1>2
<1>5. ASSUME tasks # <<>>
      PROVE  /\ Head(tasks) \in Tasks(t)
             /\ \E g \in Env : Leaves(t, e, Head(tasks), g) /\ Leads(t, g, Tail(tasks), f)
  <2>1. /\ Head(tasks) \in Tasks(t) /\ Head(tasks) = tasks[1] /\ 1 \in 1 .. Len(tasks)
        /\ Tail(tasks) \in Seq(Tasks(t)) /\ Len(Tail(tasks)) = Len(tasks) - 1
        /\ \A i \in 1 .. Len(tasks) - 1 : Tail(tasks)[i] = tasks[i + 1]
    BY <1>2, <1>5
  <2> DEFINE mid == [i \in 1 .. Len(tasks) |-> m[i + 1]]
  <2>2. mid \in [1 .. Len(Tail(tasks)) + 1 -> Env]
    BY <1>2, <2>1
  <2>3. mid[1] = m[2] /\ mid[Len(Tail(tasks)) + 1] = f
    BY <1>1, <1>2, <2>1
  <2>4. ASSUME NEW i \in 1 .. Len(Tail(tasks)) PROVE Leaves(t, mid[i], Tail(tasks)[i], mid[i + 1])
    <3>1. i + 1 \in 1 .. Len(tasks) /\ mid[i] = m[i + 1] /\ mid[i + 1] = m[(i + 1) + 1]
          /\ Tail(tasks)[i] = tasks[i + 1]
      BY <1>2, <2>1
    <3> QED BY <1>1, <3>1
  <2>5. Leads(t, m[2], Tail(tasks), f)
    BY <2>1, <2>2, <2>3, <2>4 DEF Leads
  <2>6. m[2] \in Env /\ Leaves(t, e, Head(tasks), m[2])
    BY <1>1, <1>2, <2>1
  <2> QED BY <2>1, <2>5, <2>6
<1> QED BY <1>2, <1>3, <1>4, <1>5

-------------------------------------------------------------------------------
(* The parts of a node, one after another *)

(* What a pattern leaves behind, field by field.                             *)
LEMMA ExtendIs ==
  ASSUME NEW e \in Env, NEW S \in SUBSET STRING
  PROVE  /\ Extend(e, S) = [values |-> Grow(e.values, S), types |-> e.types, pos |-> e.pos, self |-> e.self,
                            enclosing |-> e.enclosing, module |-> e.module]
         /\ Extend(e, S) \in Env
<1>0. /\ e.values \in Frames /\ Len(e.values) = Len(e.types)
      /\ e = [values |-> e.values, types |-> e.types, pos |-> e.pos, self |-> e.self,
              enclosing |-> e.enclosing, module |-> e.module]
  BY DEF Env
<1>1. Grow(e.values, S) \in Frames /\ Len(Grow(e.values, S)) = Len(e.types)
  BY <1>0, GrowLaws
<1>2. Extend(e, S) = [values |-> Grow(e.values, S), types |-> e.types, pos |-> e.pos, self |-> e.self,
                      enclosing |-> e.enclosing, module |-> e.module]
  BY <1>0 DEF Extend
<1> QED BY <1>1, <1>2 DEF Env

(* What is extended twice, or by nothing.                                    *)
LEMMA ExtendLaws ==
  ASSUME NEW e \in Env, NEW S \in SUBSET STRING, NEW T \in SUBSET STRING
  PROVE  /\ Extend(e, S) \in Env
         /\ Extend(Extend(e, S), T) = Extend(e, S \cup T)
         /\ Extend(e, {}) = e
         /\ Extend(e, S).values = Grow(e.values, S) /\ Extend(e, S).types = e.types
         /\ Extend(e, S).pos = e.pos /\ Extend(e, S).self = e.self
         /\ Extend(e, S).enclosing = e.enclosing /\ Extend(e, S).module = e.module
<1>0. /\ e.values \in Frames /\ Len(e.values) = Len(e.types)
      /\ e = [values |-> e.values, types |-> e.types, pos |-> e.pos, self |-> e.self,
              enclosing |-> e.enclosing, module |-> e.module]
  BY DEF Env
<1>1. /\ Grow(e.values, S) \in Frames /\ Len(Grow(e.values, S)) = Len(e.types)
      /\ Grow(e.values, {}) = e.values
      /\ Grow(Grow(e.values, S), T) = Grow(e.values, S \cup T)
  BY <1>0, GrowLaws
<1>2. /\ Extend(e, S) = [values |-> Grow(e.values, S), types |-> e.types, pos |-> e.pos, self |-> e.self,
                         enclosing |-> e.enclosing, module |-> e.module]
      /\ Extend(e, S) \in Env
  BY ExtendIs
<1>3. S \cup T \in SUBSET STRING /\ {} \in SUBSET STRING
  OBVIOUS
<1>4. /\ Extend(e, S \cup T) = [values |-> Grow(e.values, S \cup T), types |-> e.types, pos |-> e.pos,
                                 self |-> e.self, enclosing |-> e.enclosing, module |-> e.module]
      /\ Extend(e, {}) = [values |-> Grow(e.values, {}), types |-> e.types, pos |-> e.pos,
                          self |-> e.self, enclosing |-> e.enclosing, module |-> e.module]
  BY <1>3, ExtendIs
<1>5. Extend(Extend(e, S), T) = [values |-> Grow(Grow(e.values, S), T), types |-> e.types, pos |-> e.pos,
                                 self |-> e.self, enclosing |-> e.enclosing, module |-> e.module]
  <2>1. ASSUME NEW d \in Env
        PROVE  Extend(d, T) = [values |-> Grow(d.values, T), types |-> d.types, pos |-> d.pos, self |-> d.self,
                               enclosing |-> d.enclosing, module |-> d.module]
    BY ExtendIs
  <2> QED BY <1>2, <2>1
<1> QED BY <1>0, <1>1, <1>2, <1>4, <1>5

(* What a set of names binds.                                                *)
LEMMA BoundNamesLaws ==
  ASSUME NEW t, IsFile(t), NEW S, \A b \in S : b \in DOMAIN t /\ t[b].node = "ident",
         NEW T, \A b \in T : b \in DOMAIN t /\ t[b].node = "ident"
  PROVE  /\ BoundNames(t, S) \in SUBSET STRING
         /\ BoundNames(t, S \cup T) = BoundNames(t, S) \cup BoundNames(t, T)
         /\ BoundNames(t, {}) = {}
<1>1. \A b \in S : t[b].name \in STRING
  <2>1. \A b \in S : t[b] \in Nodes
    BY FileFacts
  <2> QED BY <2>1, NodeFacts DEF Identifier
<1> QED BY <1>1 DEF BoundNames

(* What the parts before a part introduce, one part at a time.               *)
LEMMA BeforeLaws ==
  ASSUME NEW t, IsFile(t), NEW a \in DOMAIN t, NEW from \in Nat \ {0}, NEW k \in from .. t[a].kids + 1
  PROVE  /\ \A b \in Before(t, a, from, k) : b \in DOMAIN t /\ t[b].node = "ident"
         /\ BoundNames(t, Before(t, a, from, k)) \in SUBSET STRING
         /\ Before(t, a, from, from) = {}
         /\ k <= t[a].kids =>
              /\ Before(t, a, from, k + 1) = Before(t, a, from, k) \cup Introduced(t, Append(a, k))
              /\ BoundNames(t, Before(t, a, from, k + 1)) =
                   BoundNames(t, Before(t, a, from, k)) \cup BoundNames(t, Introduced(t, Append(a, k)))
              /\ BoundNames(t, Introduced(t, Append(a, k))) \in SUBSET STRING
<1>0. t[a].kids \in Nat /\ \A j \in 1 .. t[a].kids : Append(a, j) \in DOMAIN t
  BY FileFacts
<1>1. ASSUME NEW b \in Before(t, a, from, k) PROVE b \in DOMAIN t /\ t[b].node = "ident"
  <2>1. PICK j \in from .. k - 1 : b \in Introduced(t, Append(a, j))
    BY DEF Before
  <2>2. Append(a, j) \in DOMAIN t
    BY <1>0
  <2> QED BY <2>1, <2>2, IntroducedIs
<1>2. BoundNames(t, Before(t, a, from, k)) \in SUBSET STRING
  BY <1>1, BoundNamesLaws
<1>3. Before(t, a, from, from) = {}
  <2>1. from .. from - 1 = {}
    OBVIOUS
  <2> QED BY <2>1 DEF Before
<1>4. ASSUME k <= t[a].kids
      PROVE  /\ Before(t, a, from, k + 1) = Before(t, a, from, k) \cup Introduced(t, Append(a, k))
             /\ BoundNames(t, Before(t, a, from, k + 1)) =
                  BoundNames(t, Before(t, a, from, k)) \cup BoundNames(t, Introduced(t, Append(a, k)))
             /\ BoundNames(t, Introduced(t, Append(a, k))) \in SUBSET STRING
  <2>1. from .. (k + 1) - 1 = (from .. k - 1) \cup {k}
    BY <1>0
  <2>2. Before(t, a, from, k + 1) = Before(t, a, from, k) \cup Introduced(t, Append(a, k))
    BY <2>1 DEF Before
  <2>3. Append(a, k) \in DOMAIN t
    BY <1>0, <1>4
  <2>4. \A b \in Introduced(t, Append(a, k)) : b \in DOMAIN t /\ t[b].node = "ident"
    BY <2>3, IntroducedIs
  <2> QED BY <1>1, <2>2, <2>4, BoundNamesLaws
<1> QED BY <1>1, <1>2, <1>3, <1>4

(* A run of parts is done, each with what those before it introduced.        *)
LEMMA LeadsAlong ==
  ASSUME NEW t, IsFile(t), NEW a \in DOMAIN t,
         NEW from \in 1 .. t[a].kids + 1, NEW to \in from - 1 .. t[a].kids, NEW e \in Env,
         \A k \in from .. to : Fits(t, Extend(e, BoundNames(t, Before(t, a, from, k))), Append(a, k))
  PROVE  Leads(t, e, Parts(t, a, from, to), Extend(e, BoundNames(t, Before(t, a, from, to + 1))))
<1>0. t[a].kids \in Nat /\ from \in Nat \ {0} /\ to \in Nat /\ \A k \in 1 .. t[a].kids : Append(a, k) \in DOMAIN t
  BY FileFacts
<1> DEFINE At_(k) == Extend(e, BoundNames(t, Before(t, a, from, k)))
           n == (to - from) + 1
           parts == Parts(t, a, from, to)
           mid == [i \in 1 .. n + 1 |-> At_(from + i - 1)]
<1>1. \A k \in from .. to + 1 : k \in from .. t[a].kids + 1
  BY <1>0
<1>2. \A k \in from .. to + 1 : At_(k) \in Env
  <2>1. \A k \in from .. to + 1 : BoundNames(t, Before(t, a, from, k)) \in SUBSET STRING
    BY <1>0, <1>1, BeforeLaws
  <2> QED BY <2>1, ExtendLaws
<1>3. At_(from) = e
  <2>1. from \in from .. t[a].kids + 1
    BY <1>0
  <2>2. Before(t, a, from, from) = {}
    BY <1>0, <2>1, BeforeLaws
  <2>3. BoundNames(t, {}) = {}
    BY DEF BoundNames
  <2> QED BY <2>2, <2>3, ExtendLaws
<1>4. ASSUME NEW k \in from .. to
      PROVE  At_(k + 1) = Extend(At_(k), BoundNames(t, Introduced(t, Append(a, k))))
  <2>1. k \in from .. t[a].kids + 1 /\ k <= t[a].kids
    BY <1>0
  <2>2. /\ BoundNames(t, Before(t, a, from, k)) \in SUBSET STRING
        /\ BoundNames(t, Introduced(t, Append(a, k))) \in SUBSET STRING
        /\ BoundNames(t, Before(t, a, from, k + 1)) =
             BoundNames(t, Before(t, a, from, k)) \cup BoundNames(t, Introduced(t, Append(a, k)))
    BY <1>0, <2>1, BeforeLaws
  <2> QED BY <2>2, ExtendLaws
<1>5. n \in Nat /\ \A i \in 1 .. n : from + i - 1 \in from .. to /\ from + i - 1 \in 1 .. t[a].kids
  BY <1>0
<1>6. ASSUME NEW k \in 1 .. t[a].kids
      PROVE  LET task == Task(t, Append(a, k))
             IN  /\ task \in [do : {"visit", "bind"}, at : DOMAIN t]
                 /\ task.at = Append(a, k) /\ Append(a, k) # <<>> /\ task.do \in {"visit", "bind"}
  <2>1. Append(a, k) \in DOMAIN t /\ Append(a, k) # <<>>
    <3>1. a \in Address /\ k \in Nat \ {0}
      BY <1>0, FileFacts
    <3> QED BY <1>0, <3>1, PartAddress
  <2> QED BY <2>1 DEF Task
<1>7. /\ parts = [i \in 1 .. n |-> Task(t, Append(a, from + i - 1))]
      /\ parts \in Seq(Tasks(t)) /\ Len(parts) = n
  <2>1. parts = [i \in 1 .. n |-> Task(t, Append(a, from + i - 1))]
    BY DEF Parts
  <2>2. \A i \in 1 .. n : Task(t, Append(a, from + i - 1)) \in Tasks(t)
    BY <1>5, <1>6 DEF Tasks
  <2>3. parts \in [1 .. n -> Tasks(t)]
    BY <2>1, <2>2
  <2> HIDE DEF n, parts
  <2> QED BY <1>5, <2>1, <2>3, SequenceOver
<1>8. mid \in [1 .. Len(parts) + 1 -> Env] /\ mid[1] = e /\ mid[Len(parts) + 1] = At_(to + 1)
  <2>1. \A i \in 1 .. n + 1 : from + i - 1 \in from .. to + 1
    BY <1>0
  <2>2. (from + (n + 1)) - 1 = to + 1 /\ (from + 1) - 1 = from
    BY <1>0
  <2> HIDE DEF At_
  <2> QED BY <1>2, <1>3, <1>5, <1>7, <2>1, <2>2
<1>9. ASSUME NEW i \in 1 .. Len(parts) PROVE Leaves(t, mid[i], parts[i], mid[i + 1])
  <2> DEFINE k == from + i - 1
  <2>1. k \in from .. to /\ k \in 1 .. t[a].kids
    BY <1>5, <1>7
  <2>2. mid[i] = At_(k) /\ mid[i + 1] = At_(k + 1) /\ parts[i] = Task(t, Append(a, k))
    <3>1. i \in 1 .. n /\ i \in 1 .. n + 1 /\ i + 1 \in 1 .. n + 1 /\ (from + (i + 1)) - 1 = k + 1
      BY <1>0, <1>5, <1>7
    <3> HIDE DEF At_
    <3> QED BY <1>7, <3>1
  <2>3. Fits(t, At_(k), Append(a, k))
    BY <2>1
  <2> HIDE DEF At_, k, mid, parts
  <2> QED BY <1>4, <1>6, <2>1, <2>2, <2>3 DEF Leaves
<1> HIDE DEF mid
<1> QED BY <1>7, <1>8, <1>9 DEF Leads

-------------------------------------------------------------------------------
(* What fits a node fits its parts, with what they see besides *)

(* The walk is certain of a local it binds, and binds every local it is      *)
(* certain of.                                                               *)
LEMMA SeenNames ==
  ASSUME NEW t, IsFile(t), NEW a \in DOMAIN t, NEW k \in 1 .. t[a].kids, NEW x
  PROVE  LET name == <<ModuleOf(t, Append(a, k)), x>>
         IN  /\ x \in BoundNames(t, Sees(t, a, k)) => name \notin Constants /\ \E b \in Sees(t, a, k) : t[b].name = x
             /\ name \notin MayName /\ (\E b \in Sees(t, a, k) : t[b].name = x) => x \in BoundNames(t, Sees(t, a, k))
<1>1. ASSUME NEW b \in Sees(t, a, k)
      PROVE  /\ b \in DOMAIN t /\ t[b].node = "ident"
             /\ ModuleOf(t, b) = ModuleOf(t, Append(a, k))
  <2>1. PICK j \in 1 .. k - 1 : b \in Introduced(t, Append(a, j))
    BY DEF Sees
  <2>2. j \in 1 .. t[a].kids
    BY <2>1, FileFacts
  <2>3. Append(a, j) \in DOMAIN t
    BY <2>2, FileFacts
  <2>4. ModuleOf(t, Append(a, j)) = ModuleOf(t, Append(a, k))
    BY <2>2, PartModule
  <2> QED BY <2>1, <2>3, <2>4, IntroducedIs
<1>2. ASSUME x \in BoundNames(t, Sees(t, a, k))
      PROVE  <<ModuleOf(t, Append(a, k)), x>> \notin Constants /\ \E b \in Sees(t, a, k) : t[b].name = x
  <2>1. PICK b \in Sees(t, a, k) : Binds(t, b) /\ x = t[b].name
    BY <1>2 DEF BoundNames
  <2>2. AsRead(t, b)
    BY <1>1, FileFacts
  <2>3. <<ModuleOf(t, b), t[b].name>> \notin Constants
    BY <1>1, <2>1, <2>2, PatternsAreCautious DEF AsRead, Binds
  <2> QED BY <1>1, <2>1, <2>3
<1>3. ASSUME <<ModuleOf(t, Append(a, k)), x>> \notin MayName, NEW b \in Sees(t, a, k), t[b].name = x
      PROVE  x \in BoundNames(t, Sees(t, a, k))
  <2>1. Binds(t, b)
    BY <1>1, <1>3 DEF Binds
  <2> QED BY <1>3, <2>1 DEF BoundNames
<1> QED BY <1>2, <1>3

(* Below anything but an item: what was around is still seen.                *)
LEMMA PartFits ==
  ASSUME NEW t, IsFile(t), NEW a \in DOMAIN t, NEW k \in 1 .. t[a].kids,
         t[a].node \notin Boundaries \cup {"file"},
         NEW e \in Env, Fits(t, e, a), NEW f \in Env,
         f.module = e.module, f.enclosing = e.enclosing, f.self = e.self, f.values # <<>>,
         t[a].node \in Patterns => f.pos = "Other",
         ~ (t[a].node = "path" /\ t[a].space # "Bare") => f.pos \in {e.pos, "Other"},
         \A x : BoundIn(f.types, x) <=>
                  BoundIn(e.types, x) \/ (t[a].node = "member" /\ x \in Params(t[a], "Type")),
         NEW S, t[Append(a, k)].node \notin Plain => S = Sees(t, a, k),
         \A x : BoundIn(f.values, x) <=>
                  \/ BoundIn(e.values, x)
                  \/ t[a].node = "member" /\ x \in Params(t[a], "Value")
                  \/ x \in BoundNames(t, S)
  PROVE  Fits(t, f, Append(a, k))
<1>1. f.module = ModuleOf(t, Append(a, k)) /\ f.enclosing = Container(t, Append(a, k))
  <2>1. ModuleOf(t, Append(a, k)) = ModuleOf(t, a)
    BY PartModule DEF Boundaries
  <2>2. Container(t, Append(a, k)) = Container(t, a)
    BY PartContainer DEF Boundaries
  <2> QED BY <2>1, <2>2 DEF Fits
<1>2. \A segments \in Path : segments[1] = f.self <=> IsSelf(t, Append(a, k), segments)
  <2>1. \A segments : IsSelf(t, Append(a, k), segments) <=> IsSelf(t, a, segments)
    BY PartIsSelf DEF Boundaries
  <2> QED BY <2>1 DEF Fits
<1>3. f.pos # "Other" => InArguments(t, Append(a, k))
  BY PartInArguments DEF Fits
<1>4. \A x : BoundIn(f.types, x) <=> HasLocal(t, Append(a, k), "Type", x)
  <2>1. \A x : HasLocal(t, Append(a, k), "Type", x) <=>
                 \/ t[a].node \in {"item", "impl", "member"} /\ x \in Params(t[a], "Type")
                 \/ HasLocal(t, a, "Type", x)
    BY PartHasLocal
  <2> QED BY <2>1 DEF Fits, Boundaries
<1>5. ASSUME t[Append(a, k)].node \notin Plain, NEW x
      PROVE  /\ BoundIn(f.values, x) => HasLocal(t, Append(a, k), "Value", x)
             /\ HasLocal(t, Append(a, k), "Value", x) /\ <<ModuleOf(t, Append(a, k)), x>> \notin MayName \ Constants
                  => BoundIn(f.values, x)
  <2>1. t[a].node \notin Plain
    <3>1. Stands(t[Append(a, k)], t[a], k)
      BY FileFacts
    <3> QED BY <1>5, <3>1 DEF Stands
  <2>2. HasLocal(t, Append(a, k), "Value", x) <=>
          \/ <<ModuleOf(t, Append(a, k)), x>> \notin Constants /\ \E b \in Sees(t, a, k) : t[b].name = x
          \/ t[a].node \in {"item", "impl", "member"} /\ x \in Params(t[a], "Value")
          \/ HasLocal(t, a, "Value", x)
    BY PartHasLocal
  <2>3. ModuleOf(t, Append(a, k)) = ModuleOf(t, a)
    BY PartModule DEF Boundaries
  <2>4. /\ BoundIn(e.values, x) => HasLocal(t, a, "Value", x)
        /\ HasLocal(t, a, "Value", x) /\ <<ModuleOf(t, a), x>> \notin MayName \ Constants => BoundIn(e.values, x)
    BY <2>1 DEF Fits
  <2>5. /\ x \in BoundNames(t, S) =>
             <<ModuleOf(t, Append(a, k)), x>> \notin Constants /\ \E b \in Sees(t, a, k) : t[b].name = x
        /\ <<ModuleOf(t, Append(a, k)), x>> \notin MayName /\ (\E b \in Sees(t, a, k) : t[b].name = x)
             => x \in BoundNames(t, S)
    BY <1>5, SeenNames
  <2> QED BY <2>2, <2>3, <2>4, <2>5 DEF Boundaries
<1> QED BY <1>1, <1>2, <1>3, <1>4, <1>5 DEF Fits

(* Below an item: nothing from around it is seen, and what is named there is *)
(* its own.                                                                  *)
LEMMA PartOfItemFits ==
  ASSUME NEW t, IsFile(t), NEW a \in DOMAIN t, NEW k \in 1 .. t[a].kids, t[a].node \in Boundaries,
         NEW e \in Env, Fits(t, e, a), NEW f \in Env,
         f.module = ModuleOf(t, Append(a, k)), f.enclosing = Container(t, Append(a, k)),
         f.values # <<>>, f.pos = "Other",
         f.self = IF t[a].node = "impl" /\ k > t[a].heads
                  THEN IF Len(t[a].segments) = 1 \/ <<e.module, t[a].segments, Last(t[a].segments)>> \in BareMeans
                       THEN Last(t[a].segments) ELSE ""
                  ELSE e.self,
         \A x : BoundIn(f.types, x) <=> x \in Params(t[a], "Type"),
         NEW S, t[Append(a, k)].node \notin Plain => S = Sees(t, a, k),
         \A x : BoundIn(f.values, x) <=> x \in Params(t[a], "Value") \/ x \in BoundNames(t, S)
  PROVE  Fits(t, f, Append(a, k))
<1>1. ASSUME NEW segments \in Path PROVE segments[1] = f.self <=> IsSelf(t, Append(a, k), segments)
  <2>1. segments[1] \in Identifier /\ segments[1] # ""
    BY PathHead
  <2>2. e.module = ModuleOf(t, a) /\ (segments[1] = e.self <=> IsSelf(t, a, segments))
    BY DEF Fits
  <2>3. CASE t[a].node = "impl" /\ k > t[a].heads
    <3>1. IsSelf(t, Append(a, k), segments) <=>
            /\ segments[1] = Last(t[a].segments)
            /\ Len(t[a].segments) = 1 \/ <<ModuleOf(t, a), t[a].segments, segments[1]>> \in BareMeans
      BY <2>3, PartIsSelf
    <3> QED BY <2>1, <2>2, <2>3, <3>1
  <2>4. CASE ~ (t[a].node = "impl" /\ k > t[a].heads)
    <3>1. IsSelf(t, Append(a, k), segments) <=> IsSelf(t, a, segments)
      BY <2>4, PartIsSelf
    <3> QED BY <2>2, <2>4, <3>1
  <2> QED BY <2>3, <2>4
<1>2. t[a].node = "mod" => \A space : Params(t[a], space) = {}
  <2>1. t[a].node = "mod" => t[a].generics = <<>>
    <3>1. t[a] \in Nodes
      BY FileFacts
    <3> QED BY <3>1 DEF Nodes, Constructs
  <2>2. ToSet(<<>>) = {}
    BY NothingInEmpty
  <2> QED BY <2>1, <2>2 DEF Params
<1>3. \A x : BoundIn(f.types, x) <=> HasLocal(t, Append(a, k), "Type", x)
  <2>1. \A x : HasLocal(t, Append(a, k), "Type", x) <=>
                 t[a].node \in {"item", "impl", "member"} /\ x \in Params(t[a], "Type")
    BY PartHasLocal
  <2> QED BY <1>2, <2>1 DEF Boundaries
<1>4. ASSUME t[Append(a, k)].node \notin Plain, NEW x
      PROVE  /\ BoundIn(f.values, x) => HasLocal(t, Append(a, k), "Value", x)
             /\ HasLocal(t, Append(a, k), "Value", x) /\ <<ModuleOf(t, Append(a, k)), x>> \notin MayName \ Constants
                  => BoundIn(f.values, x)
  <2>1. HasLocal(t, Append(a, k), "Value", x) <=>
          \/ <<ModuleOf(t, Append(a, k)), x>> \notin Constants /\ \E b \in Sees(t, a, k) : t[b].name = x
          \/ t[a].node \in {"item", "impl", "member"} /\ x \in Params(t[a], "Value")
    BY PartHasLocal
  <2>2. /\ x \in BoundNames(t, S) =>
             <<ModuleOf(t, Append(a, k)), x>> \notin Constants /\ \E b \in Sees(t, a, k) : t[b].name = x
        /\ <<ModuleOf(t, Append(a, k)), x>> \notin MayName /\ (\E b \in Sees(t, a, k) : t[b].name = x)
             => x \in BoundNames(t, S)
    <3>1. S = Sees(t, a, k)
      BY <1>4
    <3>2. /\ x \in BoundNames(t, Sees(t, a, k)) =>
               <<ModuleOf(t, Append(a, k)), x>> \notin Constants /\ \E b \in Sees(t, a, k) : t[b].name = x
          /\ <<ModuleOf(t, Append(a, k)), x>> \notin MayName /\ (\E b \in Sees(t, a, k) : t[b].name = x)
               => x \in BoundNames(t, Sees(t, a, k))
      BY SeenNames
    <3> QED BY <3>1, <3>2
  <2> QED BY <1>2, <2>1, <2>2 DEF Boundaries
<1> QED BY <1>1, <1>3, <1>4 DEF Fits

(* In its place a part sees what was bound since its scope was opened.       *)
LEMMA SeesIs ==
  ASSUME NEW t, IsFile(t), NEW a \in DOMAIN t, NEW from \in Nat \ {0}, NEW k \in from .. t[a].kids,
         t[a].node = "if" => (from = 1 /\ k <= 2) \/ from = 3,
         t[a].node = "for" => (from = 1 /\ k = 1) \/ from = 2,
         t[a].node \notin {"if", "for"} => from = 1,
         t[Append(a, k)].node \notin Plain
  PROVE  Before(t, a, from, k) = Sees(t, a, k)
<1>0. t[a].kids \in Nat /\ k \in 1 .. t[a].kids
  BY FileFacts
<1>1. Sees(t, a, k) = IF SeesBefore(t[a], k) THEN Before(t, a, 1, k) ELSE {}
  BY DEF Sees, Before
<1>2. CASE t[a].node = "if"
  <2>1. CASE from = 1 /\ k = 2
    BY <1>1, <1>2, <2>1 DEF SeesBefore
  <2>2. CASE from = 1 /\ k = 1
    <3>1. Before(t, a, 1, 1) = {} /\ ~ SeesBefore(t[a], k)
      BY <1>0, <1>2, <2>2, BeforeLaws DEF SeesBefore
    <3> QED BY <1>1, <2>2, <3>1
  <2>3. CASE from = 3
    <3>1. \A j \in 3 .. k - 1 : Introduced(t, Append(a, j)) = {}
      <4>1. \A j \in 3 .. k - 1 : j \in 1 .. t[a].kids /\ j >= 2
        BY <1>0
      <4> QED BY <1>2, <4>1, NoneIn
    <3>2. Before(t, a, 3, k) = {}
      BY <3>1 DEF Before
    <3>3. ~ SeesBefore(t[a], k)
      BY <1>0, <1>2, <2>3 DEF SeesBefore
    <3> QED BY <1>1, <2>3, <3>2, <3>3
  <2> QED BY <1>0, <1>2, <2>1, <2>2, <2>3
<1>3. CASE t[a].node = "for"
  <2>1. Sees(t, a, k) = Before(t, a, 1, k)
    BY <1>1, <1>3 DEF SeesBefore
  <2>2. CASE from = 1
    BY <2>1, <2>2
  <2>3. CASE from = 2
    <3>1. 1 .. k - 1 = {1} \cup 2 .. k - 1
      BY <1>0, <2>3
    <3>2. Introduced(t, Append(a, 1)) = {}
      <4>1. 1 \in 1 .. t[a].kids
        BY <1>0
      <4> QED BY <1>3, <4>1, NoneIn
    <3>3. Before(t, a, 1, k) = Before(t, a, 2, k)
      BY <3>1, <3>2 DEF Before
    <3> QED BY <2>1, <2>3, <3>3
  <2> QED BY <1>3, <2>2, <2>3
<1>4. CASE t[a].node \notin {"if", "for"}
  <2>1. CASE SeesBefore(t[a], k)
    BY <1>1, <1>4, <2>1
  <2>2. CASE ~ SeesBefore(t[a], k)
    <3>1. \A j \in 1 .. k - 1 : Introduced(t, Append(a, j)) = {}
      BY <1>0, <1>4, <2>2, NoneBefore
    <3>2. Before(t, a, 1, k) = {}
      BY <3>1 DEF Before
    <3> QED BY <1>1, <1>4, <2>2, <3>2
  <2> QED BY <2>1, <2>2
<1> QED BY <1>2, <1>3, <1>4

(* Below anything but an item, a run of parts in a scope of their own or not.*)
LEMMA LeadsInside ==
  ASSUME NEW t, IsFile(t), NEW a \in DOMAIN t, t[a].node \notin Boundaries \cup {"file"},
         NEW from \in 1 .. t[a].kids + 1, NEW to \in from - 1 .. t[a].kids,
         t[a].node = "if" => (from = 1 /\ to <= 2) \/ from = 3,
         t[a].node = "for" => (from = 1 /\ to = 1) \/ from = 2,
         t[a].node \notin {"if", "for"} => from = 1,
         NEW e \in Env, Fits(t, e, a), NEW f \in Env,
         f.module = e.module, f.enclosing = e.enclosing, f.self = e.self, f.values # <<>>,
         t[a].node \in Patterns => f.pos = "Other",
         ~ (t[a].node = "path" /\ t[a].space # "Bare") => f.pos \in {e.pos, "Other"},
         \A x : BoundIn(f.types, x) <=>
                  BoundIn(e.types, x) \/ (t[a].node = "member" /\ x \in Params(t[a], "Type")),
         NEW Own, t[a].node # "ident" => Own = {}, \A b \in Own : b \in DOMAIN t /\ t[b].node = "ident",
         \A x : BoundIn(f.values, x) <=>
                  \/ BoundIn(e.values, x)
                  \/ t[a].node = "member" /\ x \in Params(t[a], "Value")
                  \/ x \in BoundNames(t, Own)
  PROVE  Leads(t, f, Parts(t, a, from, to), Extend(f, BoundNames(t, Before(t, a, from, to + 1))))
<1>0. t[a].kids \in Nat /\ from \in Nat \ {0} /\ to \in Nat
  BY FileFacts
<1>1. ASSUME NEW k \in from .. to PROVE Fits(t, Extend(f, BoundNames(t, Before(t, a, from, k))), Append(a, k))
  <2>1. k \in from .. t[a].kids /\ k \in from .. t[a].kids + 1 /\ k \in 1 .. t[a].kids
    BY <1>0
  <2>2. /\ BoundNames(t, Before(t, a, from, k)) \in SUBSET STRING
        /\ \A b \in Before(t, a, from, k) : b \in DOMAIN t /\ t[b].node = "ident"
    BY <1>0, <2>1, BeforeLaws
  <2> DEFINE g == Extend(f, BoundNames(t, Before(t, a, from, k)))
             S == Own \cup Before(t, a, from, k)
  <2>3. /\ g \in Env /\ g.values = Grow(f.values, BoundNames(t, Before(t, a, from, k))) /\ g.types = f.types
        /\ g.pos = f.pos /\ g.self = f.self /\ g.enclosing = f.enclosing /\ g.module = f.module
    BY <2>2, ExtendLaws
  <2>4. BoundNames(t, S) = BoundNames(t, Own) \cup BoundNames(t, Before(t, a, from, k))
    BY <2>2, BoundNamesLaws
  <2>5. f.values \in Frames
    BY DEF Env
  <2>6. g.values # <<>> /\ \A x : BoundIn(g.values, x) <=>
                                    BoundIn(f.values, x) \/ x \in BoundNames(t, Before(t, a, from, k))
    <3>1. ASSUME NEW h \in Frames, h # <<>>, NEW N \in SUBSET STRING
          PROVE  Grow(h, N) # <<>> /\ \A x : BoundIn(Grow(h, N), x) <=> BoundIn(h, x) \/ x \in N
      BY <3>1, GrowLaws
    <3> HIDE DEF g
    <3> QED BY <2>2, <2>3, <2>5, <3>1
  <2>7. \A x : BoundIn(g.values, x) <=>
                 \/ BoundIn(e.values, x)
                 \/ t[a].node = "member" /\ x \in Params(t[a], "Value")
                 \/ x \in BoundNames(t, S)
    BY <2>4, <2>6
  <2>8. ASSUME t[Append(a, k)].node \notin Plain PROVE S = Sees(t, a, k)
    <3>1. t[a].node # "ident"
      <4>1. Stands(t[Append(a, k)], t[a], k)
        BY <2>1, FileFacts
      <4> QED BY <2>8, <4>1 DEF Stands, Plain
    <3>2. t[a].node = "if" => (from = 1 /\ k <= 2) \/ from = 3
      BY <1>0, <2>1
    <3>3. t[a].node = "for" => (from = 1 /\ k = 1) \/ from = 2
      BY <1>0, <2>1
    <3>4. Before(t, a, from, k) = Sees(t, a, k)
      BY <1>0, <2>1, <2>8, <3>2, <3>3, SeesIs
    <3> QED BY <3>1, <3>4
  <2> HIDE DEF g, S
  <2>9. Fits(t, g, Append(a, k))
    BY <2>1, <2>3, <2>6, <2>7, <2>8, PartFits
  <2> QED BY <2>9 DEF g
<1> QED BY <1>0, <1>1, LeadsAlong

(* in_scope, its beginning, field by field.                                  *)
LEMMA OpenIs ==
  ASSUME NEW e \in Env, NEW V \in SUBSET STRING, NEW T \in SUBSET STRING
  PROVE  /\ [e EXCEPT !.values = Append(@, V), !.types = Append(@, T)] =
              [values |-> Append(e.values, V), types |-> Append(e.types, T), pos |-> e.pos, self |-> e.self,
               enclosing |-> e.enclosing, module |-> e.module]
         /\ [e EXCEPT !.values = Append(@, V), !.types = Append(@, T)] \in Env
<1>0. /\ e.values \in Frames /\ e.types \in Frames /\ Len(e.values) = Len(e.types)
      /\ e \in [values : Frames, types : Frames, pos : Spaces, self : Selves,
                enclosing : SUBSET Collected, module : Modules]
  BY DEF Env
<1>1. /\ Append(e.values, V) \in Frames /\ Append(e.types, T) \in Frames
      /\ Len(Append(e.values, V)) = Len(Append(e.types, T))
  BY <1>0, ScopeLaws
<1>2. ASSUME NEW W, NEW U
      PROVE  [e EXCEPT !.values = W, !.types = U] =
               [values |-> W, types |-> U, pos |-> e.pos, self |-> e.self,
                enclosing |-> e.enclosing, module |-> e.module]
  <2>1. [e EXCEPT !.values = W, !.types = U] = [[e EXCEPT !.values = W] EXCEPT !.types = U]
    BY <1>0
  <2>2. [e EXCEPT !.values = W] = [values |-> W, types |-> e.types, pos |-> e.pos, self |-> e.self,
                                   enclosing |-> e.enclosing, module |-> e.module]
    BY <1>0
  <2>3. [[values |-> W, types |-> e.types, pos |-> e.pos, self |-> e.self,
          enclosing |-> e.enclosing, module |-> e.module] EXCEPT !.types = U] =
          [values |-> W, types |-> U, pos |-> e.pos, self |-> e.self,
           enclosing |-> e.enclosing, module |-> e.module]
    OBVIOUS
  <2> QED BY <2>1, <2>2, <2>3
<1>3. [e EXCEPT !.values = Append(@, V), !.types = Append(@, T)] =
        [e EXCEPT !.values = Append(e.values, V), !.types = Append(e.types, T)]
  BY <1>0
<1> QED BY <1>0, <1>1, <1>2, <1>3 DEF Env

(* in_scope, its end.                                                        *)
LEMMA CloseIs ==
  ASSUME NEW e \in Env
  PROVE  [e EXCEPT !.values = Front(@), !.types = Front(@)] =
           [values |-> Front(e.values), types |-> Front(e.types), pos |-> e.pos, self |-> e.self,
            enclosing |-> e.enclosing, module |-> e.module]
<1>0. e \in [values : Frames, types : Frames, pos : Spaces, self : Selves,
             enclosing : SUBSET Collected, module : Modules]
  BY DEF Env
<1>2. ASSUME NEW W, NEW U
      PROVE  [e EXCEPT !.values = W, !.types = U] =
               [values |-> W, types |-> U, pos |-> e.pos, self |-> e.self,
                enclosing |-> e.enclosing, module |-> e.module]
  <2>1. [e EXCEPT !.values = W, !.types = U] = [[e EXCEPT !.values = W] EXCEPT !.types = U]
    BY <1>0
  <2>2. [e EXCEPT !.values = W] = [values |-> W, types |-> e.types, pos |-> e.pos, self |-> e.self,
                                   enclosing |-> e.enclosing, module |-> e.module]
    BY <1>0
  <2>3. [[values |-> W, types |-> e.types, pos |-> e.pos, self |-> e.self,
          enclosing |-> e.enclosing, module |-> e.module] EXCEPT !.types = U] =
          [values |-> W, types |-> U, pos |-> e.pos, self |-> e.self,
           enclosing |-> e.enclosing, module |-> e.module]
    OBVIOUS
  <2> QED BY <2>1, <2>2, <2>3
<1>3. [e EXCEPT !.values = Front(@), !.types = Front(@)] =
        [e EXCEPT !.values = Front(e.values), !.types = Front(e.types)]
  BY <1>0
<1> QED BY <1>2, <1>3

(* in_scope: what is done in it is forgotten.                                *)
LEMMA ScopeLeads ==
  ASSUME NEW t, NEW e \in Env, NEW V \in SUBSET STRING, NEW T \in SUBSET STRING, NEW N \in SUBSET STRING,
         NEW tasks,
         LET f == [e EXCEPT !.values = Append(@, V), !.types = Append(@, T)]
         IN  Leads(t, f, tasks, Extend(f, N))
  PROVE  Leads(t, e, <<[do |-> "open", values |-> V, types |-> T]>> \o tasks \o <<[do |-> "close"]>>, e)
<1> DEFINE f == [e EXCEPT !.values = Append(@, V), !.types = Append(@, T)]
           open == [do |-> "open", values |-> V, types |-> T]
           close == [do |-> "close"]
<1>0. /\ e.values \in Frames /\ e.types \in Frames /\ Len(e.values) = Len(e.types)
      /\ e = [values |-> e.values, types |-> e.types, pos |-> e.pos, self |-> e.self,
              enclosing |-> e.enclosing, module |-> e.module]
  BY DEF Env
<1>1. /\ Append(e.values, V) \in Frames /\ Append(e.types, T) \in Frames
      /\ Append(e.values, V) # <<>>
      /\ Front(Append(e.types, T)) = e.types
      /\ Front(Grow(Append(e.values, V), N)) = e.values
  BY <1>0, ScopeLaws
<1>2. /\ f = [values |-> Append(e.values, V), types |-> Append(e.types, T), pos |-> e.pos, self |-> e.self,
              enclosing |-> e.enclosing, module |-> e.module]
      /\ f \in Env
  BY OpenIs
<1>3. Leads(t, e, <<open>>, f)
  <2>1. open \in Tasks(t) /\ Leaves(t, e, open, f)
    BY DEF Tasks, Leaves
  <2> HIDE DEF open, f
  <2> QED BY <1>2, <2>1, LeadsBy
<1>4. Leads(t, f, tasks, Extend(f, N))
  OBVIOUS
<1> HIDE DEF f
<1>5. Leads(t, Extend(f, N), <<close>>, e)
  <2> DEFINE g == Extend(f, N)
  <2>1. /\ g \in Env
        /\ g = [values |-> Grow(f.values, N), types |-> f.types, pos |-> f.pos, self |-> f.self,
                enclosing |-> f.enclosing, module |-> f.module]
    BY <1>2, ExtendIs
  <2> HIDE DEF g
  <2>2. f.values = Append(e.values, V) /\ f.types = Append(e.types, T) /\ f.pos = e.pos /\ f.self = e.self
        /\ f.enclosing = e.enclosing /\ f.module = e.module
    BY <1>2
  <2>3. g.values = Grow(Append(e.values, V), N) /\ g.types = Append(e.types, T) /\ g.pos = e.pos /\ g.self = e.self
        /\ g.enclosing = e.enclosing /\ g.module = e.module
    BY <2>1, <2>2
  <2>4. g.values # <<>>
    <3>1. Grow(Append(e.values, V), N) # <<>>
      BY <1>1, GrowLaws
    <3> QED BY <2>3, <3>1
  <2>5. [g EXCEPT !.values = Front(@), !.types = Front(@)] = e
    <3>1. [g EXCEPT !.values = Front(@), !.types = Front(@)] =
            [values |-> Front(g.values), types |-> Front(g.types), pos |-> g.pos, self |-> g.self,
             enclosing |-> g.enclosing, module |-> g.module]
      BY <2>1, CloseIs
    <3>2. Front(g.values) = e.values /\ Front(g.types) = e.types
      BY <1>1, <2>3
    <3> QED BY <1>0, <2>3, <3>1, <3>2
  <2>6. close \in Tasks(t)
    BY DEF Tasks
  <2>7. close.do = "close"
    OBVIOUS
  <2> HIDE DEF close
  <2>8. Leaves(t, g, close, e)
    BY <2>4, <2>5, <2>7 DEF Leaves
  <2>9. Leads(t, g, <<close>>, e)
    BY <2>1, <2>6, <2>8, LeadsBy
  <2> QED BY <2>9 DEF g
<1> HIDE DEF open, close
<1>6. Leads(t, e, <<open>> \o tasks, Extend(f, N))
  BY <1>3, <1>4, LeadsThrough
<1> QED BY <1>5, <1>6, LeadsThrough DEF open, close

-------------------------------------------------------------------------------
(* What is visited in each node, from its beginning to its end *)

(* Anything but what a file may have at its top stands deeper, in a scope.   *)
LEMMA Deep ==
  ASSUME NEW t, IsFile(t), NEW a \in DOMAIN t, Len(a) > 0, NEW e, Fits(t, e, a),
         t[a].node \notin Boundaries \cup {"use", "macro", "attribute"}
  PROVE  e.values # <<>>
<1>1. a \in Address
  BY FileFacts
<1>2. <<>> \in DOMAIN t /\ t[<<>>].node = "file"
  BY DEF IsFile
<1>3. Len(a) \in Nat
  BY <1>1 DEF Address
<1>4. ASSUME Len(a) = 1 PROVE t[a].node \in Boundaries \cup {"use", "macro", "attribute"}
  <2>1. 0 \in Outward(a) /\ 0 + 1 = 1
    BY <1>4 DEF Outward
  <2>2. SubSeq(a, 1, 0) = <<>>
    BY <1>1 DEF Address
  <2>3. Above(t, a, 0) = t[<<>>]
    BY <2>2 DEF Above
  <2>4. a[1] \in 1 .. t[<<>>].kids
    BY <2>1, <2>3, FileFacts
  <2>5. Append(<<>>, a[1]) = a
    BY <1>1, <1>4 DEF Address
  <2>6. Stands(t[a], t[<<>>], a[1])
    BY <1>2, <2>4, <2>5, FileFacts
  <2> QED BY <1>2, <2>6 DEF Stands
<1>5. Len(a) > 1
  BY <1>3, <1>4
<1> QED BY <1>5 DEF Fits

(* The parameters of a node are names.                                       *)
LEMMA ParamsAre ==
  ASSUME NEW t, IsFile(t), NEW a \in DOMAIN t, NEW space,
         t[a].node \in {"item", "mod", "impl", "member"}
  PROVE  Params(t[a], space) \in SUBSET STRING
<1>1. t[a].generics \in Seq([space : {"Value", "Type"}, name : Identifier])
  BY FileFacts, NodeFacts DEF Generics
<1>2. \A g \in ToSet(t[a].generics) : g \in [space : {"Value", "Type"}, name : Identifier]
  <2>1. SUFFICES ASSUME NEW g \in ToSet(t[a].generics)
                 PROVE  g \in [space : {"Value", "Type"}, name : Identifier]
    OBVIOUS
  <2>2. PICK i \in DOMAIN t[a].generics : g = t[a].generics[i]
    BY DEF ToSet
  <2>3. i \in 1 .. Len(t[a].generics)
    BY <1>1
  <2> QED BY <1>1, <2>2, <2>3, ElementOfSeq
<1>3. \A g \in ToSet(t[a].generics) : g.name \in STRING
  BY <1>2 DEF Identifier
<1> QED BY <1>3 DEF Params

(* A run of parts of a construct or of a member in a scope of its own.       *)
LEMMA ScopedParts ==
  ASSUME NEW t, IsFile(t), NEW a \in DOMAIN t, t[a].node \in Constructs \cup {"member"},
         NEW from \in 1 .. t[a].kids + 1, NEW to \in from - 1 .. t[a].kids,
         t[a].node = "if" => from = 1 /\ to <= 2,
         t[a].node = "for" => from = 2,
         t[a].node \notin {"if", "for"} => from = 1,
         NEW e \in Env, Fits(t, e, a), NEW V, NEW T,
         t[a].node = "member" => V = Params(t[a], "Value") /\ T = Params(t[a], "Type"),
         t[a].node # "member" => V = {} /\ T = {}
  PROVE  Leads(t, e, <<[do |-> "open", values |-> V, types |-> T]>> \o Parts(t, a, from, to) \o <<[do |-> "close"]>>, e)
<1>0. V \in SUBSET STRING /\ T \in SUBSET STRING
  BY ParamsAre
<1> DEFINE f == [e EXCEPT !.values = Append(@, V), !.types = Append(@, T)]
<1>1. /\ f = [values |-> Append(e.values, V), types |-> Append(e.types, T), pos |-> e.pos, self |-> e.self,
              enclosing |-> e.enclosing, module |-> e.module]
      /\ f \in Env
  BY <1>0, OpenIs
<1> HIDE DEF f
<1>2. f.values = Append(e.values, V) /\ f.types = Append(e.types, T) /\ f.pos = e.pos /\ f.self = e.self
      /\ f.enclosing = e.enclosing /\ f.module = e.module
  BY <1>1
<1>3. e.values \in Frames /\ e.types \in Frames
  BY DEF Env
<1>4. f.values # <<>> /\ \A x : BoundIn(f.values, x) <=> BoundIn(e.values, x) \/ x \in V
  <2>1. Append(e.values, V) # <<>> /\ \A x : BoundIn(Append(e.values, V), x) <=> BoundIn(e.values, x) \/ x \in V
    BY <1>0, <1>3, ScopeLaws
  <2> QED BY <1>2, <2>1
<1>5. \A x : BoundIn(f.types, x) <=> BoundIn(e.types, x) \/ x \in T
  <2>1. \A x : BoundIn(Append(e.types, T), x) <=> BoundIn(e.types, x) \/ x \in T
    BY <1>0, <1>3, ScopeLaws
  <2> QED BY <1>2, <2>1
<1>6. t[a].node \notin Boundaries \cup {"file", "path", "ident"} \cup Patterns
  BY DEF Constructs, Boundaries, Patterns, Plain
<1>7. BoundNames(t, {}) = {}
  BY DEF BoundNames
<1>8. /\ \A x : BoundIn(f.types, x) <=>
                  BoundIn(e.types, x) \/ (t[a].node = "member" /\ x \in Params(t[a], "Type"))
      /\ \A x : BoundIn(f.values, x) <=>
                  \/ BoundIn(e.values, x)
                  \/ t[a].node = "member" /\ x \in Params(t[a], "Value")
                  \/ x \in BoundNames(t, {})
  BY <1>4, <1>5, <1>7
<1>9. Leads(t, f, Parts(t, a, from, to), Extend(f, BoundNames(t, Before(t, a, from, to + 1))))
  <2>1. /\ t[a].node = "if" => (from = 1 /\ to <= 2) \/ from = 3
        /\ t[a].node = "for" => (from = 1 /\ to = 1) \/ from = 2
        /\ t[a].node \notin Boundaries \cup {"file"}
        /\ t[a].node \in Patterns => f.pos = "Other"
        /\ f.pos \in {e.pos, "Other"}
    BY <1>2, <1>6
  <2>2. f.values # <<>>
    BY <1>4
  <2>3. f \in Env /\ f.module = e.module /\ f.enclosing = e.enclosing /\ f.self = e.self
    BY <1>1, <1>2
  <2> QED BY <1>8, <2>1, <2>2, <2>3, LeadsInside
<1>10. BoundNames(t, Before(t, a, from, to + 1)) \in SUBSET STRING
  <2>1. t[a].kids \in Nat
    BY FileFacts
  <2>2. from \in Nat \ {0} /\ to + 1 \in from .. t[a].kids + 1
    BY <2>1
  <2> QED BY <2>2, BeforeLaws
<1> QED BY <1>0, <1>9, <1>10, ScopeLeads DEF f

(* A run of parts of a construct in the scope around it.                     *)
LEMMA UnscopedParts ==
  ASSUME NEW t, IsFile(t), NEW a \in DOMAIN t, Len(a) > 0, t[a].node \in Constructs,
         NEW from \in 1 .. t[a].kids + 1, NEW to \in from - 1 .. t[a].kids,
         t[a].node = "if" => from = 3,
         t[a].node = "for" => from = 1 /\ to = 1,
         t[a].node \notin {"if", "for"} => from = 1,
         NEW e \in Env, Fits(t, e, a)
  PROVE  Leads(t, e, Parts(t, a, from, to), Extend(e, BoundNames(t, Before(t, a, from, to + 1))))
<1>1. t[a].node \notin Boundaries \cup {"file", "path", "ident", "use", "macro", "attribute", "member"} \cup Patterns
  BY DEF Constructs, Boundaries, Patterns, Plain
<1>2. e.values # <<>>
  BY <1>1, Deep
<1>3. BoundNames(t, {}) = {}
  BY DEF BoundNames
<1>4. /\ \A x : BoundIn(e.types, x) <=>
                  BoundIn(e.types, x) \/ (t[a].node = "member" /\ x \in Params(t[a], "Type"))
      /\ \A x : BoundIn(e.values, x) <=>
                  \/ BoundIn(e.values, x)
                  \/ t[a].node = "member" /\ x \in Params(t[a], "Value")
                  \/ x \in BoundNames(t, {})
  BY <1>1, <1>3
<1> QED BY <1>1, <1>2, <1>4, LeadsInside

(* A construct leaves what it introduces to what stands beside it.           *)
LEMMA ConstructLeads ==
  ASSUME NEW t, IsFile(t), NEW a \in DOMAIN t, Len(a) > 0, t[a].node \in Constructs,
         NEW e \in Env, Fits(t, e, a)
  PROVE  Leads(t, e, OfConstruct(t, a), Extend(e, BoundNames(t, Introduced(t, a))))
<1>1. t[a].kids \in Nat /\ HasItsParts(t[a])
  BY FileFacts
<1>2. t[a].node # "member"
  BY DEF Constructs
<1>3. Extend(e, {}) = e
  <2>1. {} \in SUBSET STRING
    OBVIOUS
  <2> QED BY <2>1, ExtendLaws
<1>4. BoundNames(t, {}) = {}
  BY DEF BoundNames
<1>5. CASE t[a].node \in {"block", "arm", "closure", "while"}
  <2>1. Introduced(t, a) = {}
    BY <1>5, IntroducedIs DEF Introducers, Patterns, Plain
  <2>2. 1 \in 1 .. t[a].kids + 1 /\ t[a].kids \in 1 - 1 .. t[a].kids
    BY <1>1
  <2>3. Leads(t, e, <<[do |-> "open", values |-> {}, types |-> {}]>> \o Parts(t, a, 1, t[a].kids)
                      \o <<[do |-> "close"]>>, e)
    BY <1>2, <1>5, <2>2, ScopedParts
  <2>4. OfConstruct(t, a) = Scoped(AllParts(t, a))
    BY <1>5 DEF OfConstruct
  <2> QED BY <1>3, <1>4, <2>1, <2>3, <2>4 DEF Scoped, AllParts
<1>6. CASE t[a].node = "if"
  <2>1. Introduced(t, a) = {}
    BY <1>6, IntroducedIs DEF Introducers, Patterns, Plain
  <2>2. t[a].kids >= 2
    BY <1>1, <1>6 DEF HasItsParts
  <2>3. /\ 1 \in 1 .. t[a].kids + 1 /\ 2 \in 1 - 1 .. t[a].kids
        /\ 3 \in 1 .. t[a].kids + 1 /\ t[a].kids \in 3 - 1 .. t[a].kids
    BY <1>1, <2>2
  <2>4. Leads(t, e, <<[do |-> "open", values |-> {}, types |-> {}]>> \o Parts(t, a, 1, 2)
                      \o <<[do |-> "close"]>>, e)
    BY <1>2, <1>6, <2>3, ScopedParts
  <2>5. Leads(t, e, Parts(t, a, 3, t[a].kids), Extend(e, BoundNames(t, Before(t, a, 3, t[a].kids + 1))))
    BY <1>6, <2>3, UnscopedParts
  <2>6. Before(t, a, 3, t[a].kids + 1) = {}
    <3>1. \A j \in 3 .. (t[a].kids + 1) - 1 : j \in 1 .. t[a].kids /\ j >= 2
      BY <1>1
    <3>2. \A j \in 3 .. (t[a].kids + 1) - 1 : Introduced(t, Append(a, j)) = {}
      BY <1>6, <3>1, NoneIn
    <3> QED BY <3>2 DEF Before
  <2>7. OfConstruct(t, a) = Scoped(Parts(t, a, 1, 2)) \o Parts(t, a, 3, t[a].kids)
    BY <1>6 DEF OfConstruct
  <2>8. Leads(t, e, Parts(t, a, 3, t[a].kids), e)
    BY <1>3, <1>4, <2>5, <2>6
  <2> QED BY <1>3, <1>4, <2>1, <2>4, <2>7, <2>8, LeadsThrough DEF Scoped
<1>7. CASE t[a].node = "for"
  <2>1. Introduced(t, a) = {}
    BY <1>7, IntroducedIs DEF Introducers, Patterns, Plain
  <2>2. t[a].kids >= 2
    BY <1>1, <1>7 DEF HasItsParts
  <2>3. /\ 1 \in 1 .. t[a].kids + 1 /\ 1 \in 1 - 1 .. t[a].kids
        /\ 2 \in 1 .. t[a].kids + 1 /\ t[a].kids \in 2 - 1 .. t[a].kids
    BY <1>1, <2>2
  <2>4. Leads(t, e, Parts(t, a, 1, 1), Extend(e, BoundNames(t, Before(t, a, 1, 1 + 1))))
    BY <1>7, <2>3, UnscopedParts
  <2>5. Leads(t, e, <<[do |-> "open", values |-> {}, types |-> {}]>> \o Parts(t, a, 2, t[a].kids)
                      \o <<[do |-> "close"]>>, e)
    BY <1>2, <1>7, <2>3, ScopedParts
  <2>6. Before(t, a, 1, 1 + 1) = {}
    <3>1. \A j \in 1 .. (1 + 1) - 1 : j \in 1 .. t[a].kids /\ j = 1
      BY <1>1, <2>2
    <3>2. \A j \in 1 .. (1 + 1) - 1 : Introduced(t, Append(a, j)) = {}
      BY <1>7, <3>1, NoneIn
    <3> QED BY <3>2 DEF Before
  <2>7. OfConstruct(t, a) = Parts(t, a, 1, 1) \o Scoped(Parts(t, a, 2, t[a].kids))
    BY <1>7 DEF OfConstruct
  <2>8. Leads(t, e, Parts(t, a, 1, 1), e)
    BY <1>3, <1>4, <2>4, <2>6
  <2>9. Leads(t, e, Scoped(Parts(t, a, 2, t[a].kids)), e)
    BY <2>5 DEF Scoped
  <2> QED BY <1>3, <1>4, <2>1, <2>7, <2>8, <2>9, LeadsThrough
<1>8. CASE t[a].node \in {"let", "case", "chain", "exprs"}
  <2>1. 1 \in 1 .. t[a].kids + 1 /\ t[a].kids \in 1 - 1 .. t[a].kids
    BY <1>1
  <2>2. Leads(t, e, Parts(t, a, 1, t[a].kids), Extend(e, BoundNames(t, Before(t, a, 1, t[a].kids + 1))))
    BY <1>8, <2>1, UnscopedParts
  <2>3. Before(t, a, 1, t[a].kids + 1) = UNION {Introduced(t, Append(a, j)) : j \in 1 .. t[a].kids}
    <3>1. (t[a].kids + 1) - 1 = t[a].kids
      BY <1>1
    <3> QED BY <3>1 DEF Before
  <2>4. Introduced(t, a) = Before(t, a, 1, t[a].kids + 1)
    <3>1. CASE t[a].node = "exprs"
      <4>1. Introduced(t, a) = {}
        BY <3>1, IntroducedIs DEF Introducers, Patterns, Plain
      <4>2. \A j \in 1 .. t[a].kids : Introduced(t, Append(a, j)) = {}
        BY <3>1, NoneIn
      <4> QED BY <2>3, <4>1, <4>2
    <3>2. CASE t[a].node \in {"let", "case", "chain"}
      <4>1. t[a].node \in Introducers /\ t[a].node # "ident"
        BY <3>2 DEF Introducers
      <4>2. Introduced(t, a) = (IF t[a].node = "ident" THEN {a} ELSE {})
                                 \cup UNION {Introduced(t, Append(a, j)) : j \in 1 .. t[a].kids}
        BY <4>1, IntroducedIs
      <4> QED BY <2>3, <4>1, <4>2
    <3> QED BY <1>8, <3>1, <3>2
  <2>5. OfConstruct(t, a) = AllParts(t, a)
    BY <1>8 DEF OfConstruct
  <2> QED BY <2>2, <2>4, <2>5 DEF AllParts
<1> QED BY <1>5, <1>6, <1>7, <1>8 DEF Constructs

(* A member brings its own parameters into scope.                            *)
LEMMA MemberLeads ==
  ASSUME NEW t, IsFile(t), NEW a \in DOMAIN t, t[a].node = "member", NEW e \in Env, Fits(t, e, a)
  PROVE  Leads(t, e, <<[do |-> "open", values |-> Params(t[a], "Value"), types |-> Params(t[a], "Type")]>>
                       \o AllParts(t, a) \o <<[do |-> "close"]>>,
               Extend(e, BoundNames(t, Introduced(t, a))))
<1>1. t[a].kids \in Nat
  BY FileFacts
<1>2. 1 \in 1 .. t[a].kids + 1 /\ t[a].kids \in 1 - 1 .. t[a].kids
  BY <1>1
<1>3. Leads(t, e, <<[do |-> "open", values |-> Params(t[a], "Value"), types |-> Params(t[a], "Type")]>>
                    \o Parts(t, a, 1, t[a].kids) \o <<[do |-> "close"]>>, e)
  BY <1>2, ScopedParts
<1>4. Introduced(t, a) = {}
  BY IntroducedIs DEF Introducers, Patterns, Plain
<1>5. BoundNames(t, {}) = {} /\ {} \in SUBSET STRING
  BY DEF BoundNames
<1>6. Extend(e, {}) = e
  BY <1>5, ExtendLaws
<1> QED BY <1>3, <1>4, <1>5, <1>6 DEF AllParts

(* with_pos, field by field.                                                 *)
LEMMA PositionIs ==
  ASSUME NEW e \in Env, NEW p \in Spaces
  PROVE  /\ [e EXCEPT !.pos = p] = [values |-> e.values, types |-> e.types, pos |-> p, self |-> e.self,
                                    enclosing |-> e.enclosing, module |-> e.module]
         /\ [e EXCEPT !.pos = p] \in Env
<1>0. /\ e.values \in Frames /\ e.types \in Frames /\ Len(e.values) = Len(e.types)
      /\ e = [values |-> e.values, types |-> e.types, pos |-> e.pos, self |-> e.self,
              enclosing |-> e.enclosing, module |-> e.module]
      /\ e.self \in Selves /\ e.enclosing \in SUBSET Collected /\ e.module \in Modules
  BY DEF Env
<1>1. [e EXCEPT !.pos = p] = [values |-> e.values, types |-> e.types, pos |-> p, self |-> e.self,
                              enclosing |-> e.enclosing, module |-> e.module]
  BY <1>0
<1> QED BY <1>0, <1>1 DEF Env

(* What is set for the parts of a node is put back after them.               *)
LEMMA PositionLeads ==
  ASSUME NEW t, NEW e \in Env, NEW f \in Env, NEW p \in Spaces, f = [e EXCEPT !.pos = p]
  PROVE  Leads(t, e, <<[do |-> "position", pos |-> p]>>, f)
<1> DEFINE k == [do |-> "position", pos |-> p]
<1>1. k \in Tasks(t) /\ k.do = "position" /\ k.pos = p
  BY DEF Tasks
<1> HIDE DEF k
<1>2. Leaves(t, e, k, f)
  BY <1>1 DEF Leaves
<1>3. Leads(t, e, <<k>>, f)
  BY <1>1, <1>2, LeadsBy
<1> QED BY <1>3 DEF k

(* A path and a pattern: in the position they set, their parts; a name that  *)
(* is bound is bound before them.                                            *)
LEMMA PositionedLeads ==
  ASSUME NEW t, IsFile(t), NEW a \in DOMAIN t, Len(a) > 0, t[a].node \in Patterns \cup {"path"},
         NEW e \in Env, Fits(t, e, a), NEW p \in Spaces,
         t[a].node \in Patterns => p = "Other",
         ~ (t[a].node = "path" /\ t[a].space # "Bare") => p \in {e.pos, "Other"},
         NEW Own, Own = (IF t[a].node = "ident" THEN {a} ELSE {}),
         NEW f, f = [values |-> Grow(e.values, BoundNames(t, Own)), types |-> e.types, pos |-> p, self |-> e.self,
                     enclosing |-> e.enclosing, module |-> e.module]
  PROVE  Leads(t, f, AllParts(t, a) \o <<[do |-> "position", pos |-> e.pos]>>,
               Extend(e, BoundNames(t, Introduced(t, a))))
<1>1. t[a].kids \in Nat
  BY FileFacts
<1>2. 1 \in 1 .. t[a].kids + 1 /\ t[a].kids \in 1 - 1 .. t[a].kids /\ 1 \in Nat \ {0}
      /\ t[a].kids + 1 \in 1 .. t[a].kids + 1
  BY <1>1
<1>3. \A b \in Own : b \in DOMAIN t /\ t[b].node = "ident"
  OBVIOUS
<1>4. BoundNames(t, Own) \in SUBSET STRING
  BY <1>3, BoundNamesLaws
<1> DEFINE B == BoundNames(t, Before(t, a, 1, t[a].kids + 1))
           h == Extend(e, BoundNames(t, Own))
<1>5. /\ B \in SUBSET STRING
      /\ \A b \in Before(t, a, 1, t[a].kids + 1) : b \in DOMAIN t /\ t[b].node = "ident"
  BY <1>2, BeforeLaws
<1>6. h \in Env /\ h = [values |-> Grow(e.values, BoundNames(t, Own)), types |-> e.types, pos |-> e.pos,
                        self |-> e.self, enclosing |-> e.enclosing, module |-> e.module]
  BY <1>4, ExtendIs
<1>7. f = [h EXCEPT !.pos = p] /\ f \in Env
  <2>1. ASSUME NEW d \in Env
        PROVE  /\ [d EXCEPT !.pos = p] = [values |-> d.values, types |-> d.types, pos |-> p, self |-> d.self,
                                          enclosing |-> d.enclosing, module |-> d.module]
               /\ [d EXCEPT !.pos = p] \in Env
    BY PositionIs
  <2> HIDE DEF h
  <2> QED BY <1>6, <2>1
<1>8. /\ f.values = Grow(e.values, BoundNames(t, Own)) /\ f.types = e.types /\ f.pos = p /\ f.self = e.self
      /\ f.enclosing = e.enclosing /\ f.module = e.module
  OBVIOUS
<1>9. e.values # <<>> /\ e.values \in Frames
  <2>1. t[a].node \notin Boundaries \cup {"use", "macro", "attribute"}
    BY DEF Boundaries, Patterns, Plain
  <2> QED BY <2>1, Deep DEF Env
<1>10. /\ f.values # <<>>
       /\ \A x : BoundIn(f.values, x) <=> BoundIn(e.values, x) \/ x \in BoundNames(t, Own)
  <2>1. ASSUME NEW g \in Frames, g # <<>>, NEW N \in SUBSET STRING
        PROVE  Grow(g, N) # <<>> /\ \A x : BoundIn(Grow(g, N), x) <=> BoundIn(g, x) \/ x \in N
    BY <2>1, GrowLaws
  <2> QED BY <1>4, <1>8, <1>9, <2>1
<1>11. Leads(t, f, Parts(t, a, 1, t[a].kids), Extend(f, B))
  <2>1. t[a].node \notin Boundaries \cup {"file", "if", "for", "member"}
    BY DEF Boundaries, Patterns, Plain
  <2>2. /\ \A x : BoundIn(f.types, x) <=>
                    BoundIn(e.types, x) \/ (t[a].node = "member" /\ x \in Params(t[a], "Type"))
        /\ \A x : BoundIn(f.values, x) <=>
                    \/ BoundIn(e.values, x)
                    \/ t[a].node = "member" /\ x \in Params(t[a], "Value")
                    \/ x \in BoundNames(t, Own)
    BY <1>8, <1>10, <2>1
  <2>3. f \in Env /\ f.module = e.module /\ f.enclosing = e.enclosing /\ f.self = e.self /\ f.values # <<>>
    BY <1>7, <1>8, <1>10
  <2>4. /\ t[a].node \in Patterns => f.pos = "Other"
        /\ ~ (t[a].node = "path" /\ t[a].space # "Bare") => f.pos \in {e.pos, "Other"}
    BY <1>8
  <2>5. t[a].node # "ident" => Own = {}
    OBVIOUS
  <2> QED BY <1>2, <1>3, <2>1, <2>2, <2>3, <2>4, <2>5, LeadsInside
<1>12. e.pos \in Spaces
  BY DEF Env
<1>13. Leads(t, Extend(f, B), <<[do |-> "position", pos |-> e.pos]>>, Extend(h, B))
  <2>1. Extend(f, B) \in Env /\ Extend(h, B) \in Env
    <3> HIDE DEF h, B
    <3> QED BY <1>5, <1>6, <1>7, ExtendIs
  <2>2. /\ Extend(f, B) = [values |-> Grow(f.values, B), types |-> f.types, pos |-> f.pos, self |-> f.self,
                           enclosing |-> f.enclosing, module |-> f.module]
        /\ Extend(h, B) = [values |-> Grow(h.values, B), types |-> h.types, pos |-> h.pos, self |-> h.self,
                           enclosing |-> h.enclosing, module |-> h.module]
    <3> HIDE DEF h, B
    <3> QED BY <1>5, <1>6, <1>7, ExtendIs
  <2>3. Extend(h, B) = [Extend(f, B) EXCEPT !.pos = e.pos]
    <3>1. ASSUME NEW d \in Env
          PROVE  [d EXCEPT !.pos = e.pos] = [values |-> d.values, types |-> d.types, pos |-> e.pos, self |-> d.self,
                                             enclosing |-> d.enclosing, module |-> d.module]
      BY <1>12, PositionIs
    <3> HIDE DEF h, B
    <3> DEFINE d == Extend(f, B)
    <3>2. d.values = Grow(f.values, B) /\ d.types = f.types /\ d.self = f.self
          /\ d.enclosing = f.enclosing /\ d.module = f.module
      BY <1>5, <1>7, ExtendLaws
    <3>3. h.values = f.values /\ h.types = f.types /\ h.pos = e.pos /\ h.self = f.self
          /\ h.enclosing = f.enclosing /\ h.module = f.module
      <4>1. h.values = Grow(e.values, BoundNames(t, Own)) /\ h.types = e.types /\ h.pos = e.pos
            /\ h.self = e.self /\ h.enclosing = e.enclosing /\ h.module = e.module
        BY <1>6
      <4> QED BY <1>8, <4>1
    <3>4. d \in Env
      BY <2>1
    <3> HIDE DEF d
    <3>5. [d EXCEPT !.pos = e.pos] = [values |-> d.values, types |-> d.types, pos |-> e.pos, self |-> d.self,
                                      enclosing |-> d.enclosing, module |-> d.module]
      BY <3>1, <3>4
    <3>6. [d EXCEPT !.pos = e.pos] = Extend(h, B)
      BY <2>2, <3>2, <3>3, <3>5
    <3> QED BY <3>6 DEF d
  <2> HIDE DEF h, B
  <2> QED BY <1>12, <2>1, <2>3, PositionLeads
<1>14. Extend(h, B) = Extend(e, BoundNames(t, Introduced(t, a)))
  <2>1. Extend(h, B) = Extend(e, BoundNames(t, Own) \cup B)
    <3> HIDE DEF B
    <3> QED BY <1>4, <1>5, ExtendLaws
  <2>2. BoundNames(t, Own) \cup B = BoundNames(t, Own \cup Before(t, a, 1, t[a].kids + 1))
    BY <1>3, <1>5, BoundNamesLaws
  <2>3. Before(t, a, 1, t[a].kids + 1) = UNION {Introduced(t, Append(a, j)) : j \in 1 .. t[a].kids}
    <3>1. (t[a].kids + 1) - 1 = t[a].kids
      BY <1>1
    <3> QED BY <3>1 DEF Before
  <2>4. Introduced(t, a) = Own \cup Before(t, a, 1, t[a].kids + 1)
    <3>1. CASE t[a].node = "path"
      <4>1. Introduced(t, a) = {}
        BY <3>1, IntroducedIs DEF Introducers, Patterns, Plain
      <4>2. \A j \in 1 .. t[a].kids : Introduced(t, Append(a, j)) = {}
        BY <3>1, NoneIn
      <4> QED BY <2>3, <3>1, <4>1, <4>2
    <3>2. CASE t[a].node \in Patterns
      <4>1. t[a].node \in Introducers
        BY <3>2 DEF Introducers
      <4>2. Introduced(t, a) = (IF t[a].node = "ident" THEN {a} ELSE {})
                                 \cup UNION {Introduced(t, Append(a, j)) : j \in 1 .. t[a].kids}
        BY <4>1, IntroducedIs
      <4> QED BY <2>3, <4>2
    <3> QED BY <3>1, <3>2
  <2> QED BY <2>1, <2>2, <2>4
<1> HIDE DEF h, B
<1> QED BY <1>11, <1>13, <1>14, LeadsThrough DEF AllParts

(* The scopes an item starts.                                                *)
LEMMA FreshScope ==
  ASSUME NEW S \in SUBSET STRING
  PROVE  <<S>> \in Frames /\ <<S>> # <<>> /\ Len(<<S>>) = 1 /\ \A x : BoundIn(<<S>>, x) <=> x \in S
<1>1. ASSUME NEW X, NEW T \in X
      PROVE  <<T>> \in Seq(X) /\ Len(<<T>>) = 1 /\ DOMAIN <<T>> = {1} /\ <<T>>[1] = T /\ <<T>> # <<>>
  OBVIOUS
<1>2. <<S>> \in Frames /\ Len(<<S>>) = 1 /\ DOMAIN <<S>> = {1} /\ <<S>>[1] = S /\ <<S>> # <<>>
  BY <1>1 DEF Frames
<1>3. \A x : BoundIn(<<S>>, x) <=> x \in S
  BY <1>2 DEF BoundIn
<1> QED BY <1>2, <1>3

(* How a path of this part would name the type of the impl around it.        *)
SelfIn(t, e, a, k) ==
  IF t[a].node = "impl" /\ k > t[a].heads
  THEN IF Len(t[a].segments) = 1 \/ <<e.module, t[a].segments, Last(t[a].segments)>> \in BareMeans
       THEN Last(t[a].segments) ELSE ""
  ELSE e.self

(* Items and impls, and modules: a run of parts in the scope they start.     *)
LEMMA ItemParts ==
  ASSUME NEW t, IsFile(t), NEW a \in DOMAIN t, t[a].node \in Boundaries,
         NEW from \in 1 .. t[a].kids + 1, NEW to \in from - 1 .. t[a].kids, t[a].node = "item" => from = 1,
         NEW e \in Env, Fits(t, e, a), NEW f \in Env,
         \A k \in from .. to :
           /\ f.module = ModuleOf(t, Append(a, k)) /\ f.enclosing = Container(t, Append(a, k))
           /\ f.self = SelfIn(t, e, a, k),
         f.pos = "Other", f.values # <<>>,
         \A x : BoundIn(f.values, x) <=> x \in Params(t[a], "Value"),
         \A x : BoundIn(f.types, x) <=> x \in Params(t[a], "Type")
  PROVE  /\ Leads(t, f, Parts(t, a, from, to), Extend(f, BoundNames(t, Before(t, a, from, to + 1))))
         /\ BoundNames(t, Before(t, a, from, to + 1)) \in SUBSET STRING
         /\ t[a].node # "item" => Extend(f, BoundNames(t, Before(t, a, from, to + 1))) = f
<1>0. t[a].kids \in Nat /\ from \in Nat \ {0} /\ to \in Nat /\ to + 1 \in from .. t[a].kids + 1
  BY FileFacts
<1>2. f.values \in Frames
  BY DEF Env
<1>3. ASSUME t[a].node # "item" PROVE \A j \in 1 .. t[a].kids : Introduced(t, Append(a, j)) = {}
  BY <1>3, NoneIn DEF Boundaries
<1>4. ASSUME t[a].node # "item", NEW k \in from .. t[a].kids + 1 PROVE Before(t, a, from, k) = {}
  <2>1. \A j \in from .. k - 1 : j \in 1 .. t[a].kids
    BY <1>0
  <2> QED BY <1>3, <1>4, <2>1 DEF Before
<1>5. ASSUME NEW k \in from .. to PROVE Fits(t, Extend(f, BoundNames(t, Before(t, a, from, k))), Append(a, k))
  <2>1. k \in from .. t[a].kids /\ k \in from .. t[a].kids + 1 /\ k \in 1 .. t[a].kids
    BY <1>0
  <2>2. BoundNames(t, Before(t, a, from, k)) \in SUBSET STRING
    BY <1>0, <2>1, BeforeLaws
  <2> DEFINE g == Extend(f, BoundNames(t, Before(t, a, from, k)))
  <2>3. /\ g \in Env /\ g.values = Grow(f.values, BoundNames(t, Before(t, a, from, k))) /\ g.types = f.types
        /\ g.pos = f.pos /\ g.self = f.self /\ g.enclosing = f.enclosing /\ g.module = f.module
    BY <2>2, ExtendLaws
  <2> HIDE DEF g
  <2>4. g.values # <<>> /\ \A x : BoundIn(g.values, x) <=>
                                    BoundIn(f.values, x) \/ x \in BoundNames(t, Before(t, a, from, k))
    <3>1. ASSUME NEW h \in Frames, h # <<>>, NEW N \in SUBSET STRING
          PROVE  Grow(h, N) # <<>> /\ \A x : BoundIn(Grow(h, N), x) <=> BoundIn(h, x) \/ x \in N
      BY <3>1, GrowLaws
    <3> QED BY <1>2, <2>2, <2>3, <3>1
  <2>5. ASSUME t[Append(a, k)].node \notin Plain PROVE Before(t, a, from, k) = Sees(t, a, k)
    <3>1. CASE t[a].node = "item"
      <4>1. t[a].node \notin {"if", "for"} /\ from = 1
        BY <3>1
      <4> QED BY <1>0, <2>1, <2>5, <4>1, SeesIs
    <3>2. CASE t[a].node # "item"
      <4>1. Before(t, a, from, k) = {}
        BY <1>4, <2>1, <3>2
      <4>2. \A j \in 1 .. k - 1 : j \in 1 .. t[a].kids
        BY <2>1, <1>0
      <4>3. Sees(t, a, k) = {}
        BY <1>3, <3>2, <4>2 DEF Sees
      <4> QED BY <4>1, <4>3
    <3> QED BY <3>1, <3>2
  <2>6. /\ g.module = ModuleOf(t, Append(a, k)) /\ g.enclosing = Container(t, Append(a, k))
        /\ g.self = IF t[a].node = "impl" /\ k > t[a].heads
                    THEN IF Len(t[a].segments) = 1 \/ <<e.module, t[a].segments, Last(t[a].segments)>> \in BareMeans
                         THEN Last(t[a].segments) ELSE ""
                    ELSE e.self
    BY <2>3 DEF SelfIn
  <2>7. /\ g.pos = "Other"
        /\ \A x : BoundIn(g.types, x) <=> x \in Params(t[a], "Type")
        /\ \A x : BoundIn(g.values, x) <=> x \in Params(t[a], "Value") \/ x \in BoundNames(t, Before(t, a, from, k))
    BY <1>2, <2>3, <2>4
  <2>8. Fits(t, g, Append(a, k))
    BY <2>1, <2>3, <2>4, <2>5, <2>6, <2>7, PartOfItemFits
  <2> QED BY <2>8 DEF g
<1>6. Leads(t, f, Parts(t, a, from, to), Extend(f, BoundNames(t, Before(t, a, from, to + 1))))
  BY <1>5, LeadsAlong
<1>7. BoundNames(t, Before(t, a, from, to + 1)) \in SUBSET STRING
  BY <1>0, BeforeLaws
<1>8. ASSUME t[a].node # "item" PROVE Extend(f, BoundNames(t, Before(t, a, from, to + 1))) = f
  <2>1. Before(t, a, from, to + 1) = {}
    BY <1>0, <1>4, <1>8
  <2>2. BoundNames(t, {}) = {} /\ {} \in SUBSET STRING
    BY DEF BoundNames
  <2> QED BY <2>1, <2>2, ExtendLaws
<1> QED BY <1>6, <1>7, <1>8

(* What was around an item is put back after it.                             *)
LEMMA RestoreLeads ==
  ASSUME NEW t, NEW e \in Env, NEW h \in Env
  PROVE  Leads(t, h, <<[do |-> "restore", values |-> e.values, types |-> e.types, pos |-> e.pos,
                        enclosing |-> e.enclosing, self |-> e.self, module |-> e.module]>>, e)
<1> DEFINE k == [do |-> "restore", values |-> e.values, types |-> e.types, pos |-> e.pos,
                 enclosing |-> e.enclosing, self |-> e.self, module |-> e.module]
<1>0. /\ e.values \in Frames /\ e.types \in Frames /\ e.pos \in Spaces /\ e.enclosing \in SUBSET Collected
      /\ e.self \in Selves /\ e.module \in Modules
      /\ e = [values |-> e.values, types |-> e.types, pos |-> e.pos, self |-> e.self,
              enclosing |-> e.enclosing, module |-> e.module]
  BY DEF Env
<1>1. k \in Tasks(t)
  BY <1>0 DEF Tasks
<1>2. k.do = "restore" /\ k.values = e.values /\ k.types = e.types /\ k.pos = e.pos
      /\ k.enclosing = e.enclosing /\ k.self = e.self /\ k.module = e.module
  OBVIOUS
<1> HIDE DEF k
<1>3. Leaves(t, h, k, e)
  BY <1>0, <1>2 DEF Leaves
<1>4. Leads(t, h, <<k>>, e)
  BY <1>1, <1>3, LeadsBy
<1> QED BY <1>4 DEF k

(* visit_impl_body, field by field.                                          *)
LEMMA MembersIs ==
  ASSUME NEW t, NEW e \in Env, NEW name \in Selves
  PROVE  /\ [e EXCEPT !.self = name] = [values |-> e.values, types |-> e.types, pos |-> e.pos, self |-> name,
                                        enclosing |-> e.enclosing, module |-> e.module]
         /\ [e EXCEPT !.self = name] \in Env
         /\ Leads(t, e, <<[do |-> "members", name |-> name]>>, [e EXCEPT !.self = name])
<1>0. /\ e.values \in Frames /\ e.types \in Frames /\ Len(e.values) = Len(e.types)
      /\ e = [values |-> e.values, types |-> e.types, pos |-> e.pos, self |-> e.self,
              enclosing |-> e.enclosing, module |-> e.module]
      /\ e.pos \in Spaces /\ e.enclosing \in SUBSET Collected /\ e.module \in Modules
  BY DEF Env
<1>1. [e EXCEPT !.self = name] = [values |-> e.values, types |-> e.types, pos |-> e.pos, self |-> name,
                                  enclosing |-> e.enclosing, module |-> e.module]
  BY <1>0
<1>2. [e EXCEPT !.self = name] \in Env
  BY <1>0, <1>1 DEF Env
<1> DEFINE k == [do |-> "members", name |-> name]
           f == [e EXCEPT !.self = name]
<1>3. k \in Tasks(t) /\ k.do = "members" /\ k.name = name
  BY DEF Tasks
<1> HIDE DEF k
<1>4. Leaves(t, e, k, f)
  BY <1>3 DEF Leaves
<1> HIDE DEF f
<1>5. Leads(t, e, <<k>>, f)
  BY <1>2, <1>3, <1>4, LeadsBy DEF f
<1> QED BY <1>1, <1>2, <1>5 DEF k, f

-------------------------------------------------------------------------------
(* What is recorded at a node *)

(* Nothing is a parameter but of a namespace.                                *)
LEMMA NoBareLocal ==
  ASSUME NEW t, IsFile(t), NEW a \in DOMAIN t, NEW x
  PROVE  ~ HasLocal(t, a, "Bare", x)
<1>1. ASSUME NEW i \in Outward(a), Above(t, a, i).node \in {"item", "impl", "member"}
      PROVE  Params(Above(t, a, i), "Bare") = {}
  <2> DEFINE n == Above(t, a, i)
  <2>1. n \in Nodes
    <3>1. SubSeq(a, 1, i) \in DOMAIN t
      BY FileFacts
    <3> QED BY <3>1, FileFacts DEF Above
  <2>2. n.generics \in Seq([space : {"Value", "Type"}, name : Identifier])
    <3>1. n.node \in {"item", "mod", "impl", "member"}
      BY <1>1
    <3> HIDE DEF n
    <3> QED BY <2>1, <3>1, NodeFacts DEF Generics
  <2> HIDE DEF n
  <2>3. ASSUME NEW g \in ToSet(n.generics) PROVE g.space # "Bare"
    <3>1. PICK j \in DOMAIN n.generics : g = n.generics[j]
      BY DEF ToSet
    <3>2. j \in 1 .. Len(n.generics)
      BY <2>2
    <3>3. g \in [space : {"Value", "Type"}, name : Identifier]
      BY <2>2, <3>1, <3>2, ElementOfSeq
    <3> QED BY <3>3
  <2>4. Params(n, "Bare") = {}
    BY <2>3 DEF Params
  <2> QED BY <2>4 DEF n
<1> QED BY <1>1 DEF HasLocal

(* shadowed, and the start of visit_path.                                    *)
Hidden(e, p, segments) ==
  \/ segments[1] = e.self
  \/ Len(segments) = 1 /\ p = "Value" /\ BoundIn(e.values, segments[1])
  \/ Len(segments) = 1 /\ p = "Type" /\ BoundIn(e.types, segments[1])

(* What is recorded at a node, the tokens apart.                             *)
Record(e, a) == [at |-> a, from |-> e.enclosing, module |-> e.module]

(* A path: recorded if it names an item, and if a pattern was in doubt.      *)
LEMMA PathMentions ==
  ASSUME NEW t, IsFile(t), NEW a \in DOMAIN t, t[a].node = "path", NEW e \in Env, Fits(t, e, a),
         NEW p, p = IF t[a].space = "Bare" THEN e.pos ELSE t[a].space
  PROVE  /\ Hidden(e, p, t[a].segments) => MentionsAt(t, a) = {}
         /\ ~ Hidden(e, p, t[a].segments) =>
              MentionsAt(t, a) \subseteq {Record(e, a)} /\ (Record(e, a) \in MentionsAt(t, a) \/ InDoubt(t, Record(e, a)))
<1> DEFINE s == t[a].segments
           m == [at |-> a, from |-> Container(t, a), module |-> ModuleOf(t, a)]
<1>1. s \in Path /\ t[a].space \in {"Value", "Type", "Bare"} /\ AsRead(t, a)
  BY FileFacts, NodeFacts
<1>2. /\ e.module = ModuleOf(t, a) /\ e.enclosing = Container(t, a)
      /\ s[1] = e.self <=> IsSelf(t, a, s)
      /\ e.pos # "Other" => InArguments(t, a)
      /\ \A x : BoundIn(e.types, x) <=> HasLocal(t, a, "Type", x)
      /\ \A x : /\ BoundIn(e.values, x) => HasLocal(t, a, "Value", x)
                /\ HasLocal(t, a, "Value", x) /\ <<ModuleOf(t, a), x>> \notin MayName \ Constants => BoundIn(e.values, x)
  BY <1>1 DEF Fits, Plain
<1>3. MentionsAt(t, a) = IF ~ IsSelf(t, a, s) /\ ~ IsLocal(t, a, t[a].space, s) THEN {m} ELSE {}
  BY DEF MentionsAt, NamesAnItem
<1>4. Record(e, a) = m
  BY <1>2 DEF Record
<1>5. InDoubt(t, m) <=> <<ModuleOf(t, a), s[1]>> \in MayName \ Constants
  BY DEF InDoubt
<1>6. IsLocal(t, a, t[a].space, s) <=> Len(s) = 1 /\ HasLocal(t, a, t[a].space, s[1])
  BY DEF IsLocal
<1>7. Hidden(e, p, s) <=> \/ IsSelf(t, a, s)
                          \/ Len(s) = 1 /\ p = "Value" /\ BoundIn(e.values, s[1])
                          \/ Len(s) = 1 /\ p = "Type" /\ BoundIn(e.types, s[1])
  BY <1>2 DEF Hidden
<1> HIDE DEF s, m
<1>8. /\ Hidden(e, p, s) => IsSelf(t, a, s) \/ IsLocal(t, a, t[a].space, s)
      /\ ~ Hidden(e, p, s) => (~ IsSelf(t, a, s) /\ ~ IsLocal(t, a, t[a].space, s)) \/ InDoubt(t, m)
  <2>1. CASE t[a].space = "Value"
    <3>1. p = "Value"
      BY <2>1
    <3>2. /\ BoundIn(e.values, s[1]) => HasLocal(t, a, "Value", s[1])
          /\ HasLocal(t, a, "Value", s[1]) => BoundIn(e.values, s[1]) \/ InDoubt(t, m)
      BY <1>2, <1>5
    <3> QED BY <1>6, <1>7, <2>1, <3>1, <3>2
  <2>2. CASE t[a].space = "Type"
    <3>1. p = "Type"
      BY <2>2
    <3>2. BoundIn(e.types, s[1]) <=> HasLocal(t, a, "Type", s[1])
      BY <1>2
    <3> QED BY <1>6, <1>7, <2>2, <3>1, <3>2
  <2>3. CASE t[a].space = "Bare"
    <3>1. p = "Other"
      BY <1>1, <1>2, <2>3 DEF AsRead
    <3>2. ~ HasLocal(t, a, "Bare", s[1])
      BY NoBareLocal
    <3> QED BY <1>6, <1>7, <2>3, <3>1, <3>2
  <2> QED BY <1>1, <2>1, <2>2, <2>3
<1>9. CASE Hidden(e, p, s)
  BY <1>3, <1>8, <1>9 DEF s
<1>10. CASE ~ Hidden(e, p, s)
  BY <1>3, <1>4, <1>8, <1>10 DEF s
<1> QED BY <1>9, <1>10

(* A name in a pattern: recorded if it is no certain binding.                *)
LEMMA IdentMentions ==
  ASSUME NEW t, IsFile(t), NEW a \in DOMAIN t, t[a].node = "ident", NEW e \in Env, Fits(t, e, a)
  PROVE  /\ t[a].forced \/ <<e.module, t[a].name>> \notin MayName => MentionsAt(t, a) = {}
         /\ ~ (t[a].forced \/ <<e.module, t[a].name>> \notin MayName) =>
              MentionsAt(t, a) \subseteq {Record(e, a)} /\ (Record(e, a) \in MentionsAt(t, a) \/ InDoubt(t, Record(e, a)))
<1> DEFINE m == [at |-> a, from |-> Container(t, a), module |-> ModuleOf(t, a)]
           named == <<ModuleOf(t, a), t[a].name>>
<1>1. AsRead(t, a) /\ e.module = ModuleOf(t, a) /\ e.enclosing = Container(t, a)
  BY FileFacts DEF Fits
<1>2. MentionsAt(t, a) = IF named \in Constants THEN {m} ELSE {}
  BY DEF MentionsAt, NamesAnItem
<1>3. Record(e, a) = m
  BY <1>1 DEF Record
<1>4. InDoubt(t, m) <=> named \in MayName \ Constants
  BY DEF InDoubt
<1>5. t[a].forced => named \notin Constants
  BY <1>1 DEF AsRead
<1>6. named \notin MayName => named \notin Constants
  BY PatternsAreCautious
<1>7. <<e.module, t[a].name>> = named
  BY <1>1
<1> HIDE DEF m, named
<1> QED BY <1>2, <1>3, <1>4, <1>5, <1>6, <1>7

(* A pattern with a path, and a macro: recorded as they stand.               *)
LEMMA UseMentions ==
  ASSUME NEW t, IsFile(t), NEW a \in DOMAIN t, t[a].node \in {"unpack", "macro"}, NEW e \in Env, Fits(t, e, a)
  PROVE  MentionsAt(t, a) = (IF t[a].segments[1] = e.self THEN {} ELSE {Record(e, a)})
                              \cup (IF t[a].node = "macro" THEN AsRoots(t[a].tokens, a) ELSE {})
<1> DEFINE m == [at |-> a, from |-> Container(t, a), module |-> ModuleOf(t, a)]
           s == t[a].segments
<1>1. s \in Path /\ AsRead(t, a) /\ e.module = ModuleOf(t, a) /\ e.enclosing = Container(t, a)
      /\ \A segments \in Path : segments[1] = e.self <=> IsSelf(t, a, segments)
  BY FileFacts, NodeFacts DEF Fits
<1>2. s[1] = e.self <=> IsSelf(t, a, s)
  BY <1>1
<1>3. Record(e, a) = m
  BY <1>1 DEF Record
<1>4. CASE t[a].node = "unpack"
  <2>1. MentionsAt(t, a) = IF ~ IsSelf(t, a, s) THEN {m} ELSE {}
    BY <1>4 DEF MentionsAt, NamesAnItem
  <2> HIDE DEF s, m
  <2> QED BY <1>2, <1>3, <1>4, <2>1 DEF s
<1>5. CASE t[a].node = "macro"
  <2>1. MentionsAt(t, a) = {m} \cup AsRoots(t[a].tokens, a)
    BY <1>5 DEF MentionsAt, NamesAnItem
  <2>2. ~ IsSelf(t, a, s)
    BY <1>1, <1>5 DEF AsRead
  <2> HIDE DEF s, m
  <2> QED BY <1>2, <1>3, <1>5, <2>1, <2>2 DEF s
<1> QED BY <1>4, <1>5

(* Nothing else names an item but an import and an attribute.                *)
LEMMA OtherMentions ==
  ASSUME NEW t, IsFile(t), NEW a \in DOMAIN t
  PROVE  /\ t[a].node \notin {"path", "unpack", "ident", "macro", "use", "attribute"} => MentionsAt(t, a) = {}
         /\ t[a].node = "attribute" => MentionsAt(t, a) = AsRoots(t[a].tokens, a)
         /\ t[a].node = "use" =>
              MentionsAt(t, a) = {[at |-> a, from |-> {<<ModuleOf(t, a), t[a].name>>} \cap Collected,
                                   module |-> ModuleOf(t, a)]}
<1>1. t[a].node \notin {"path", "unpack", "ident", "macro", "use", "attribute"} => MentionsAt(t, a) = {}
  BY DEF MentionsAt, NamesAnItem
<1>2. t[a].node = "attribute" => MentionsAt(t, a) = AsRoots(t[a].tokens, a)
  BY DEF MentionsAt, NamesAnItem
<1>3. t[a].node = "use" =>
        MentionsAt(t, a) = {[at |-> a, from |-> {<<ModuleOf(t, a), t[a].name>>} \cap Collected,
                             module |-> ModuleOf(t, a)]}
  BY DEF MentionsAt, NamesAnItem
<1> QED BY <1>1, <1>2, <1>3

-------------------------------------------------------------------------------
(* Items *)

(* visit_item and visit_item_mod, from the scope they start to its end.      *)
LEMMA ItemLeads ==
  ASSUME NEW t, IsFile(t), NEW a \in DOMAIN t, t[a].node \in {"item", "mod"}, NEW e \in Env, Fits(t, e, a),
         NEW f \in Env, f.pos = "Other", f.values # <<>>,
         \A x : BoundIn(f.values, x) <=> x \in Params(t[a], "Value"),
         \A x : BoundIn(f.types, x) <=> x \in Params(t[a], "Type"),
         f.self = e.self,
         f.enclosing = IF t[a].node = "item" /\ InTable(t, a) THEN {<<e.module, t[a].name>>} \cap Collected ELSE {},
         f.module = IF t[a].node = "mod" /\ InTable(t, a) THEN t[a].name ELSE e.module
  PROVE  Leads(t, f, AllParts(t, a)
                       \o <<[do |-> "restore", values |-> e.values, types |-> e.types, pos |-> e.pos,
                             enclosing |-> e.enclosing, self |-> e.self, module |-> e.module]>>,
               Extend(e, BoundNames(t, Introduced(t, a))))
<1>1. t[a].node \in Boundaries
  BY DEF Boundaries
<1>2. ASSUME NEW k \in 1 .. t[a].kids
      PROVE  f.module = ModuleOf(t, Append(a, k)) /\ f.enclosing = Container(t, Append(a, k)) /\ f.self = SelfIn(t, e, a, k)
  <2>1. e.module = ModuleOf(t, a)
    BY DEF Fits
  <2>2. f.module = ModuleOf(t, Append(a, k))
    BY <2>1, PartModule
  <2>3. f.enclosing = Container(t, Append(a, k))
    BY <2>1, PartContainer
  <2>4. f.self = SelfIn(t, e, a, k)
    BY DEF SelfIn
  <2> QED BY <2>2, <2>3, <2>4
<1>3. Introduced(t, a) = {}
  BY IntroducedIs DEF Introducers, Patterns, Plain
<1>4. BoundNames(t, {}) = {} /\ {} \in SUBSET STRING
  BY DEF BoundNames
<1>5. Extend(e, BoundNames(t, Introduced(t, a))) = e
  BY <1>3, <1>4, ExtendLaws
<1> DEFINE B == BoundNames(t, Before(t, a, 1, t[a].kids + 1))
<1>6. Leads(t, f, Parts(t, a, 1, t[a].kids), Extend(f, B)) /\ B \in SUBSET STRING
  <2>1. 1 \in 1 .. t[a].kids + 1 /\ t[a].kids \in 1 - 1 .. t[a].kids
    <3>1. t[a].kids \in Nat
      BY FileFacts
    <3> QED BY <3>1
  <2> QED BY <1>1, <1>2, <2>1, ItemParts
<1> HIDE DEF B
<1>7. Extend(f, B) \in Env
  BY <1>6, ExtendLaws
<1> QED BY <1>5, <1>6, <1>7, RestoreLeads, LeadsThrough DEF AllParts

(* visit_item_impl: what comes first, then the members.                      *)
LEMMA ImplLeads ==
  ASSUME NEW t, IsFile(t), NEW a \in DOMAIN t, t[a].node = "impl", NEW e \in Env, Fits(t, e, a),
         NEW f \in Env, f.pos = "Other", f.values # <<>>,
         \A x : BoundIn(f.values, x) <=> x \in Params(t[a], "Value"),
         \A x : BoundIn(f.types, x) <=> x \in Params(t[a], "Type"),
         f.self = e.self, f.enclosing = OwnersOf(t[a]), f.module = e.module
  PROVE  Leads(t, f, Parts(t, a, 1, t[a].heads)
                       \o <<[do |-> "members", name |-> SelfIn(t, e, a, t[a].heads + 1)]>>
                       \o Parts(t, a, t[a].heads + 1, t[a].kids)
                       \o <<[do |-> "restore", values |-> e.values, types |-> e.types, pos |-> e.pos,
                             enclosing |-> e.enclosing, self |-> e.self, module |-> e.module]>>,
               Extend(e, BoundNames(t, Introduced(t, a))))
<1> DEFINE name == SelfIn(t, e, a, t[a].heads + 1)
           g == [f EXCEPT !.self = name]
<1>0. /\ t[a].kids \in Nat /\ t[a].heads \in Nat /\ t[a].heads <= t[a].kids
      /\ t[a].segments \in Path
  BY FileFacts, NodeFacts DEF HasItsParts
<1>1. t[a].node \in Boundaries /\ t[a].node # "item"
  BY DEF Boundaries
<1>2. name \in Selves
  <2>1. Last(t[a].segments) \in Selves
    <3>1. t[a].segments \in Seq(Identifier) /\ t[a].segments # <<>>
      BY <1>0 DEF Path
    <3>2. Len(t[a].segments) \in 1 .. Len(t[a].segments)
      BY <3>1
    <3>3. t[a].segments[Len(t[a].segments)] \in Identifier
      BY <3>1, <3>2, ElementOfSeq
    <3> QED BY <3>3 DEF Last, Identifier, Selves
  <2>2. e.self \in Selves /\ "" \in Selves
    BY DEF Env, Selves
  <2>3. name \in {Last(t[a].segments), "", e.self}
    BY DEF SelfIn
  <2> HIDE DEF name
  <2> QED BY <2>1, <2>2, <2>3
<1>3. \A k \in t[a].heads + 1 .. t[a].kids : SelfIn(t, e, a, k) = name
  <2>1. \A k \in t[a].heads + 1 .. t[a].kids : k > t[a].heads
    BY <1>0
  <2>2. t[a].heads + 1 > t[a].heads
    BY <1>0
  <2> QED BY <2>1, <2>2 DEF SelfIn
<1>4. \A k \in 1 .. t[a].heads : SelfIn(t, e, a, k) = e.self
  <2>1. \A k \in 1 .. t[a].heads : ~ (k > t[a].heads)
    BY <1>0
  <2> QED BY <2>1 DEF SelfIn
<1> HIDE DEF name
<1>5. /\ g \in Env
      /\ g.values = f.values /\ g.types = f.types /\ g.pos = f.pos /\ g.self = name
      /\ g.enclosing = f.enclosing /\ g.module = f.module
      /\ Leads(t, f, <<[do |-> "members", name |-> name]>>, g)
  <2>1. /\ g = [values |-> f.values, types |-> f.types, pos |-> f.pos, self |-> name,
                enclosing |-> f.enclosing, module |-> f.module]
        /\ g \in Env
        /\ Leads(t, f, <<[do |-> "members", name |-> name]>>, g)
    BY <1>2, MembersIs
  <2> HIDE DEF g
  <2> QED BY <2>1
<1> HIDE DEF g
<1>6. ASSUME NEW k \in 1 .. t[a].kids
      PROVE  f.module = ModuleOf(t, Append(a, k)) /\ f.enclosing = Container(t, Append(a, k))
  <2>1. e.module = ModuleOf(t, a)
    BY DEF Fits
  <2> QED BY <2>1, PartModule, PartContainer
<1>7. \A k \in 1 .. t[a].heads : k \in 1 .. t[a].kids
  BY <1>0
<1>8. \A k \in t[a].heads + 1 .. t[a].kids : k \in 1 .. t[a].kids
  BY <1>0
<1>9. Leads(t, f, Parts(t, a, 1, t[a].heads), f)
  <2>1. 1 \in 1 .. t[a].kids + 1 /\ t[a].heads \in 1 - 1 .. t[a].kids
    BY <1>0
  <2>2. \A k \in 1 .. t[a].heads :
          /\ f.module = ModuleOf(t, Append(a, k)) /\ f.enclosing = Container(t, Append(a, k))
          /\ f.self = SelfIn(t, e, a, k)
    BY <1>4, <1>6, <1>7
  <2>3. /\ Leads(t, f, Parts(t, a, 1, t[a].heads), Extend(f, BoundNames(t, Before(t, a, 1, t[a].heads + 1))))
        /\ Extend(f, BoundNames(t, Before(t, a, 1, t[a].heads + 1))) = f
    BY <1>1, <2>1, <2>2, ItemParts
  <2> QED BY <2>3
<1>10. Leads(t, g, Parts(t, a, t[a].heads + 1, t[a].kids), g)
  <2>1. t[a].heads + 1 \in 1 .. t[a].kids + 1 /\ t[a].kids \in (t[a].heads + 1) - 1 .. t[a].kids
    BY <1>0
  <2>2. \A k \in t[a].heads + 1 .. t[a].kids :
          /\ g.module = ModuleOf(t, Append(a, k)) /\ g.enclosing = Container(t, Append(a, k))
          /\ g.self = SelfIn(t, e, a, k)
    BY <1>3, <1>5, <1>6, <1>8
  <2>3. /\ g.pos = "Other" /\ g.values # <<>>
        /\ \A x : BoundIn(g.values, x) <=> x \in Params(t[a], "Value")
        /\ \A x : BoundIn(g.types, x) <=> x \in Params(t[a], "Type")
    BY <1>5
  <2>4. /\ Leads(t, g, Parts(t, a, t[a].heads + 1, t[a].kids),
                 Extend(g, BoundNames(t, Before(t, a, t[a].heads + 1, t[a].kids + 1))))
        /\ Extend(g, BoundNames(t, Before(t, a, t[a].heads + 1, t[a].kids + 1))) = g
    BY <1>1, <1>5, <2>1, <2>2, <2>3, ItemParts
  <2> QED BY <2>4
<1>11. Leads(t, g, <<[do |-> "restore", values |-> e.values, types |-> e.types, pos |-> e.pos,
                      enclosing |-> e.enclosing, self |-> e.self, module |-> e.module]>>, e)
  BY <1>5, RestoreLeads
<1>12. Extend(e, BoundNames(t, Introduced(t, a))) = e
  <2>1. Introduced(t, a) = {}
    BY IntroducedIs DEF Introducers, Patterns, Plain
  <2>2. BoundNames(t, {}) = {} /\ {} \in SUBSET STRING
    BY DEF BoundNames
  <2> QED BY <2>1, <2>2, ExtendLaws
<1>13. Leads(t, f, Parts(t, a, 1, t[a].heads) \o <<[do |-> "members", name |-> name]>>, g)
  BY <1>5, <1>9, LeadsThrough
<1>14. Leads(t, f, Parts(t, a, 1, t[a].heads) \o <<[do |-> "members", name |-> name]>>
                     \o Parts(t, a, t[a].heads + 1, t[a].kids), g)
  BY <1>10, <1>13, LeadsThrough
<1> QED BY <1>11, <1>12, <1>14, LeadsThrough DEF name

(* The scopes an item starts, with what it takes over.                       *)
LEMMA FreshEnv ==
  ASSUME NEW t, IsFile(t), NEW a \in DOMAIN t, t[a].node \in Boundaries,
         NEW head \in Selves, NEW owners \in SUBSET Collected, NEW m \in Modules,
         NEW f, f = [values |-> <<Params(t[a], "Value")>>, types |-> <<Params(t[a], "Type")>>, pos |-> "Other",
                     self |-> head, enclosing |-> owners, module |-> m]
  PROVE  /\ f \in Env /\ f.pos = "Other" /\ f.values # <<>>
         /\ \A x : BoundIn(f.values, x) <=> x \in Params(t[a], "Value")
         /\ \A x : BoundIn(f.types, x) <=> x \in Params(t[a], "Type")
         /\ f.self = head /\ f.enclosing = owners /\ f.module = m
<1> DEFINE V == <<Params(t[a], "Value")>>
           T == <<Params(t[a], "Type")>>
<1>1. Params(t[a], "Value") \in SUBSET STRING /\ Params(t[a], "Type") \in SUBSET STRING
  BY ParamsAre DEF Boundaries
<1>2. /\ V \in Frames /\ V # <<>> /\ Len(V) = 1 /\ \A x : BoundIn(V, x) <=> x \in Params(t[a], "Value")
      /\ T \in Frames /\ Len(T) = 1 /\ \A x : BoundIn(T, x) <=> x \in Params(t[a], "Type")
  BY <1>1, FreshScope
<1>3. f = [values |-> V, types |-> T, pos |-> "Other", self |-> head, enclosing |-> owners, module |-> m]
  OBVIOUS
<1> HIDE DEF V, T
<1>4. f.values = V /\ f.types = T /\ f.pos = "Other" /\ f.self = head /\ f.enclosing = owners /\ f.module = m
  BY <1>3
<1>5. f \in Env
  BY <1>2, <1>3 DEF Env, Spaces
<1> QED BY <1>2, <1>4, <1>5

-------------------------------------------------------------------------------
(* Lists of tasks *)

(* What is in one list or the other is in both, one after the other.         *)
LEMMA TasksOfBoth ==
  ASSUME NEW S, NEW u \in Seq(S), NEW v \in Seq(S)
  PROVE  u \o v \in Seq(S) /\ ToSet(u \o v) = ToSet(u) \cup ToSet(v)
<1>1. /\ u \o v \in Seq(S) /\ Len(u \o v) = Len(u) + Len(v)
      /\ \A i \in 1 .. Len(u) + Len(v) : (u \o v)[i] = IF i <= Len(u) THEN u[i] ELSE v[i - Len(u)]
  BY ConcatProperties
<1>2. /\ Len(u) \in Nat /\ Len(v) \in Nat /\ DOMAIN u = 1 .. Len(u) /\ DOMAIN v = 1 .. Len(v)
      /\ DOMAIN (u \o v) = 1 .. Len(u) + Len(v)
  BY <1>1
<1>3. ASSUME NEW i \in DOMAIN (u \o v) PROVE (u \o v)[i] \in ToSet(u) \cup ToSet(v)
  <2>1. CASE i <= Len(u)
    <3>1. i \in DOMAIN u /\ (u \o v)[i] = u[i]
      BY <1>1, <1>2, <2>1
    <3> QED BY <3>1 DEF ToSet
  <2>2. CASE ~ (i <= Len(u))
    <3>1. i - Len(u) \in DOMAIN v /\ (u \o v)[i] = v[i - Len(u)]
      BY <1>1, <1>2, <2>2
    <3> QED BY <3>1 DEF ToSet
  <2> QED BY <2>1, <2>2
<1>4. ASSUME NEW i \in DOMAIN u PROVE u[i] \in ToSet(u \o v)
  <2>1. i \in DOMAIN (u \o v) /\ (u \o v)[i] = u[i]
    BY <1>1, <1>2
  <2> QED BY <2>1 DEF ToSet
<1>5. ASSUME NEW i \in DOMAIN v PROVE v[i] \in ToSet(u \o v)
  <2>1. Len(u) + i \in DOMAIN (u \o v) /\ (u \o v)[Len(u) + i] = v[i]
    <3>1. Len(u) + i \in 1 .. Len(u) + Len(v) /\ ~ (Len(u) + i <= Len(u)) /\ (Len(u) + i) - Len(u) = i
      BY <1>2
    <3> QED BY <1>1, <1>2, <3>1
  <2> QED BY <2>1 DEF ToSet
<1> QED BY <1>1, <1>3, <1>4, <1>5 DEF ToSet

(* A list is its first task and the rest.                                    *)
LEMMA HeadAndTail ==
  ASSUME NEW S, NEW u \in Seq(S), u # <<>>
  PROVE  /\ Head(u) \in S /\ Tail(u) \in Seq(S) /\ <<>> \o Tail(u) = Tail(u)
         /\ ToSet(u) = {Head(u)} \cup ToSet(Tail(u))
<1>1. /\ Head(u) \in S /\ Tail(u) \in Seq(S) /\ Len(Tail(u)) = Len(u) - 1 /\ Len(u) \in Nat \ {0}
      /\ Head(u) = u[1] /\ DOMAIN u = 1 .. Len(u) /\ DOMAIN Tail(u) = 1 .. Len(u) - 1
      /\ \A i \in 1 .. Len(u) - 1 : Tail(u)[i] = u[i + 1]
  OBVIOUS
<1>2. ASSUME NEW i \in DOMAIN u PROVE u[i] \in {Head(u)} \cup ToSet(Tail(u))
  <2>1. CASE i = 1
    BY <1>1, <2>1
  <2>2. CASE i # 1
    <3>1. i - 1 \in DOMAIN Tail(u) /\ Tail(u)[i - 1] = u[i]
      <4>1. i - 1 \in 1 .. Len(u) - 1 /\ (i - 1) + 1 = i
        BY <1>1, <2>2
      <4> QED BY <1>1, <4>1
    <3> QED BY <3>1 DEF ToSet
  <2> QED BY <2>1, <2>2
<1>3. ASSUME NEW i \in DOMAIN Tail(u) PROVE Tail(u)[i] \in ToSet(u)
  <2>1. i + 1 \in DOMAIN u /\ Tail(u)[i] = u[i + 1]
    BY <1>1
  <2> QED BY <2>1 DEF ToSet
<1>4. Head(u) \in ToSet(u)
  BY <1>1 DEF ToSet
<1>5. ToSet(u) = {Head(u)} \cup ToSet(Tail(u))
  BY <1>2, <1>3, <1>4 DEF ToSet
<1>6. \A v \in Seq(S) : <<>> \o v = v
  BY ConcatEmptySeq
<1> QED BY <1>1, <1>5, <1>6

(* Every part of a node is among its parts.                                  *)
LEMMA PartAmong ==
  ASSUME NEW t, NEW a, NEW from \in Nat, NEW to \in Nat, NEW k \in from .. to
  PROVE  Task(t, Append(a, k)) \in ToSet(Parts(t, a, from, to))
<1>1. (k - from) + 1 \in 1 .. (to - from) + 1 /\ (from + ((k - from) + 1)) - 1 = k
  OBVIOUS
<1>2. /\ DOMAIN Parts(t, a, from, to) = 1 .. (to - from) + 1
      /\ Parts(t, a, from, to)[(k - from) + 1] = Task(t, Append(a, k))
  BY <1>1 DEF Parts
<1> QED BY <1>1, <1>2 DEF ToSet

-------------------------------------------------------------------------------
(* The inductive invariant *)

Now == [values |-> values, types |-> types, pos |-> pos, self |-> self, enclosing |-> enclosing, module |-> module]
AtFirst == [values |-> <<>>, types |-> <<>>, pos |-> "Other", self |-> "", enclosing |-> {}, module |-> "top"]

Right(r) == r \in Mentions(file) \/ InDoubt(file, r)
Awaits(k, b) == k.do \in {"visit", "bind"} /\ IsPrefix(k.at, b)

(* The walk is on course: what is left to do leads from the present scopes   *)
(* back to those of the beginning, each node met with what it should be.     *)
OnCourse == file \in Files /\ Leads(file, Now, todo, AtFirst)

(* What is recorded is right.                                                *)
MarkedRight == \A r \in marked : Right(r)

(* What is not recorded is yet to be met.                                    *)
MarkedAll ==
  \A b \in DOMAIN file :
    Len(b) > 0 => MentionsAt(file, b) \subseteq marked \/ \E k \in ToSet(todo) : Awaits(k, b)

Scoping == OnCourse /\ MarkedRight /\ MarkedAll

(* What the walk begins with: nothing bound, no one to answer for.           *)
LEMMA AtFirstIs ==
  /\ AtFirst \in Env
  /\ \A x : ~ BoundIn(AtFirst.values, x) /\ ~ BoundIn(AtFirst.types, x)
  /\ AtFirst.values = <<>> /\ AtFirst.pos = "Other" /\ AtFirst.self = "" /\ AtFirst.enclosing = {}
  /\ AtFirst.module = "top"
<1>1. <<>> \in Frames /\ Len(<<>>) = 0
  BY DEF Frames
<1>2. AtFirst \in Env
  <2>1. ASSUME NEW V \in Frames
        PROVE  [values |-> V, types |-> V, pos |-> "Other", self |-> "", enclosing |-> {}, module |-> "top"] \in Env
    BY DEF Env, Spaces, Selves, Modules
  <2> QED BY <1>1, <2>1 DEF AtFirst
<1>3. DOMAIN <<>> = {}
  OBVIOUS
<1>4. AtFirst.values = <<>> /\ AtFirst.types = <<>> /\ AtFirst.pos = "Other" /\ AtFirst.self = "" /\ AtFirst.enclosing = {}
      /\ AtFirst.module = "top"
  BY DEF AtFirst
<1>5. \A x : ~ BoundIn(<<>>, x)
  BY <1>3 DEF BoundIn
<1> QED BY <1>2, <1>4, <1>5

(* A node is met with what it should be.                                     *)
LEMMA Met ==
  ASSUME OnCourse, Doing("visit") \/ Doing("bind")
  PROVE  /\ IsFile(file) /\ At \in DOMAIN file /\ Len(At) > 0 /\ Now \in Env /\ Fits(file, Now, At)
         /\ Doing("bind") <=> Node.node \in Patterns
         /\ \A g : Leaves(file, Now, Head(todo), g) => g = Extend(Now, BoundNames(file, Introduced(file, At)))
<1>1. IsFile(file)
  BY FilesAreRust DEF OnCourse
<1>2. Now \in Env /\ Head(todo) \in Tasks(file)
      /\ \E g \in Env : Leaves(file, Now, Head(todo), g) /\ Leads(file, g, Tail(todo), AtFirst)
  BY LeadsOn DEF OnCourse, Doing
<1>3. ASSUME NEW g, Leaves(file, Now, Head(todo), g)
      PROVE  /\ Head(todo) = Task(file, At) /\ At # <<>> /\ Fits(file, Now, At)
             /\ g = Extend(Now, BoundNames(file, Introduced(file, At)))
  <2>1. Head(todo).do \in {"visit", "bind"}
    BY DEF Doing
  <2>2. Head(todo).do \notin {"open", "close", "position", "members", "restore"}
    BY <2>1
  <2> QED BY <1>3, <2>2 DEF Leaves, At
<1>4. At \in DOMAIN file
  <2>1. Head(todo).do \in {"visit", "bind"}
    BY DEF Doing
  <2> QED BY <1>2, <2>1 DEF Tasks, At
<1>5. Head(todo) = Task(file, At) /\ At # <<>> /\ Fits(file, Now, At)
  BY <1>2, <1>3
<1>6. Len(At) > 0
  <2>1. At \in Address
    BY <1>1, <1>4, FileFacts
  <2> QED BY <1>5, <2>1 DEF Address
<1>7. Doing("bind") <=> Node.node \in Patterns
  <2>1. Head(todo).do = IF file[At].node \in Patterns THEN "bind" ELSE "visit"
    BY <1>5 DEF Task
  <2> QED BY <2>1 DEF Doing, Node
<1> QED BY <1>1, <1>2, <1>3, <1>4, <1>5, <1>6, <1>7

(* Visiting a node keeps the invariant, if all its parts are to be visited   *)
(* and what it names is recorded.                                            *)
LEMMA VisitStep ==
  ASSUME Scoping, Doing("visit") \/ Doing("bind"), NEW new, todo' = new \o Tail(todo), file' = file,
         Leads(file, Now', new, Extend(Now, BoundNames(file, Introduced(file, At)))),
         \A j \in 1 .. file[At].kids : Task(file, Append(At, j)) \in ToSet(new),
         marked \subseteq marked', MentionsAt(file, At) \subseteq marked',
         \A r \in marked' \ marked : Right(r)
  PROVE  Scoping'
<1>1. /\ IsFile(file) /\ At \in DOMAIN file /\ Fits(file, Now, At)
      /\ \A g : Leaves(file, Now, Head(todo), g) => g = Extend(Now, BoundNames(file, Introduced(file, At)))
  BY Met DEF Scoping
<1>2. /\ todo \in Seq(Tasks(file))
      /\ \E g \in Env : Leaves(file, Now, Head(todo), g) /\ Leads(file, g, Tail(todo), AtFirst)
  BY LeadsOn DEF Scoping, OnCourse, Doing
<1>3. OnCourse'
  <2>1. Leads(file, Extend(Now, BoundNames(file, Introduced(file, At))), Tail(todo), AtFirst)
    BY <1>1, <1>2
  <2>2. Leads(file, Now', new \o Tail(todo), AtFirst)
    BY <2>1, LeadsThrough
  <2>3. AtFirst' = AtFirst
    BY DEF AtFirst
  <2> QED BY <2>2, <2>3 DEF Scoping, OnCourse
<1>4. MarkedRight'
  BY DEF MarkedRight, Right, Scoping
<1>5. MarkedAll'
  <2>1. new \in Seq(Tasks(file))
    BY DEF Leads
  <2>2. /\ ToSet(todo) = {Head(todo)} \cup ToSet(Tail(todo))
        /\ Tail(todo) \in Seq(Tasks(file))
    BY <1>2, HeadAndTail DEF Doing
  <2>3. ToSet(todo') = ToSet(new) \cup ToSet(Tail(todo))
    <3> DEFINE rest == Tail(todo)
    <3>1. rest \in Seq(Tasks(file))
      BY <2>2
    <3> HIDE DEF rest
    <3>2. ToSet(new \o rest) = ToSet(new) \cup ToSet(rest)
      BY <2>1, <3>1, TasksOfBoth
    <3> QED BY <3>2 DEF rest
  <2>4. SUFFICES ASSUME NEW b \in DOMAIN file, Len(b) > 0, ~ (MentionsAt(file, b) \subseteq marked')
                 PROVE  \E k \in ToSet(todo') : Awaits(k, b)
    BY DEF MarkedAll
  <2>5. PICK k \in ToSet(todo) : Awaits(k, b)
    BY <2>4 DEF Scoping, MarkedAll
  <2>6. CASE k \in ToSet(Tail(todo))
    BY <2>3, <2>5, <2>6
  <2>7. CASE k = Head(todo)
    <3>1. IsPrefix(At, b)
      BY <2>5, <2>7 DEF Awaits, At
    <3>2. b # At
      BY <2>4
    <3>3. At \in Address /\ b \in Address /\ Len(At) \in Nat
      BY <1>1, FileFacts DEF Address
    <3>4. Len(At) < Len(b) /\ SubSeq(b, 1, Len(At)) = At /\ IsPrefix(Append(At, b[Len(At) + 1]), b)
      BY <3>1, <3>2, <3>3, PrefixSteps
    <3>5. Len(At) \in Outward(b)
      BY <3>3, <3>4 DEF Outward, Address
    <3>6. b[Len(At) + 1] \in 1 .. file[At].kids
      BY <1>1, <3>4, <3>5, FileFacts DEF Above
    <3> DEFINE j == b[Len(At) + 1]
               new_ == Task(file, Append(At, j))
    <3>7. new_ \in ToSet(todo')
      BY <2>3, <3>6
    <3>8. new_.do \in {"visit", "bind"} /\ new_.at = Append(At, j)
      BY DEF Task
    <3> HIDE DEF new_, j
    <3>9. Awaits(new_, b)
      BY <3>4, <3>8 DEF Awaits, j
    <3> QED BY <3>7, <3>9
  <2> QED BY <2>2, <2>5, <2>6, <2>7
<1> QED BY <1>3, <1>4, <1>5 DEF Scoping

(* So does opening a scope, closing it, and putting back what was set.       *)
LEMMA OtherStep ==
  ASSUME Scoping, NEW what \in {"open", "close", "position", "members", "restore"}, Doing(what),
         todo' = <<>> \o Tail(todo), file' = file, marked' = marked,
         \A g \in Env : Leaves(file, Now, Head(todo), g) => g = Now'
  PROVE  Scoping'
<1>1. /\ todo \in Seq(Tasks(file))
      /\ \E g \in Env : Leaves(file, Now, Head(todo), g) /\ Leads(file, g, Tail(todo), AtFirst)
  BY LeadsOn DEF Scoping, OnCourse, Doing
<1>2. /\ todo' = Tail(todo) /\ ToSet(todo) = {Head(todo)} \cup ToSet(Tail(todo))
  BY <1>1, HeadAndTail DEF Doing
<1>3. OnCourse'
  <2>1. Leads(file, Now', Tail(todo), AtFirst)
    BY <1>1
  <2>2. AtFirst' = AtFirst
    BY DEF AtFirst
  <2> QED BY <1>2, <2>1, <2>2 DEF Scoping, OnCourse
<1>4. MarkedRight'
  BY DEF MarkedRight, Right, Scoping
<1>5. MarkedAll'
  <2>1. \A b : ~ Awaits(Head(todo), b)
    BY DEF Awaits, Doing
  <2> QED BY <1>2, <2>1 DEF Scoping, MarkedAll
<1> QED BY <1>3, <1>4, <1>5 DEF Scoping

-------------------------------------------------------------------------------
(* No part of a node is left out *)

(* The tasks for the parts of a node.                                       *)
Kids(t, a) == {Task(t, Append(a, j)) : j \in 1 .. t[a].kids}

(* A run of parts lists parts of the node, and each of them.                 *)
LEMMA PartsAre ==
  ASSUME NEW t, IsFile(t), NEW a \in DOMAIN t, NEW from \in 1 .. t[a].kids + 1, NEW to \in from - 1 .. t[a].kids
  PROVE  /\ Parts(t, a, from, to) \in Seq(Kids(t, a))
         /\ \A j \in from .. to : Task(t, Append(a, j)) \in ToSet(Parts(t, a, from, to))
<1>1. t[a].kids \in Nat /\ from \in Nat /\ to \in Nat /\ (to - from) + 1 \in Nat
  <2>1. t[a].kids \in Nat
    BY FileFacts
  <2> QED BY <2>1
<1>2. \A i \in 1 .. (to - from) + 1 : (from + i) - 1 \in 1 .. t[a].kids
  BY <1>1
<1>3. Parts(t, a, from, to) \in [1 .. (to - from) + 1 -> Kids(t, a)]
  BY <1>2 DEF Parts, Kids
<1>4. Parts(t, a, from, to) \in Seq(Kids(t, a))
  BY <1>1, <1>3, SequenceOver
<1> QED BY <1>1, <1>4, PartAmong

(* Whatever is visited, all of its parts are.                                *)
LEMMA KidsAmong ==
  ASSUME NEW t, IsFile(t), NEW a \in DOMAIN t
  PROVE  /\ Kids(t, a) \subseteq ToSet(AllParts(t, a))
         /\ \A k : Kids(t, a) \subseteq ToSet(AllParts(t, a) \o <<k>>)
         /\ \A k, m : Kids(t, a) \subseteq ToSet(<<k>> \o AllParts(t, a) \o <<m>>)
         /\ t[a].node \in Constructs => Kids(t, a) \subseteq ToSet(OfConstruct(t, a))
         /\ t[a].node = "impl" =>
              \A k, m : Kids(t, a) \subseteq ToSet(Parts(t, a, 1, t[a].heads) \o <<k>>
                                                     \o Parts(t, a, t[a].heads + 1, t[a].kids) \o <<m>>)
<1> DEFINE K == Kids(t, a)
<1>0. t[a].kids \in Nat /\ HasItsParts(t[a])
  BY FileFacts
<1>1. AllParts(t, a) \in Seq(K) /\ K \subseteq ToSet(AllParts(t, a))
  <2>1. 1 \in 1 .. t[a].kids + 1 /\ t[a].kids \in 1 - 1 .. t[a].kids
    BY <1>0
  <2>2. /\ Parts(t, a, 1, t[a].kids) \in Seq(K)
        /\ \A j \in 1 .. t[a].kids : Task(t, Append(a, j)) \in ToSet(Parts(t, a, 1, t[a].kids))
    BY <2>1, PartsAre
  <2> QED BY <2>2 DEF AllParts, Kids
<1>2. \A k : <<k>> \in Seq({k})
  OBVIOUS
<1>3. ASSUME NEW k, NEW S, NEW u \in Seq(S) PROVE u \o <<k>> \in Seq(S \cup {k}) /\ ToSet(u) \subseteq ToSet(u \o <<k>>)
  <2> DEFINE w == <<k>>
             U == S \cup {k}
  <2>1. w \in Seq(U) /\ u \in Seq(U)
    OBVIOUS
  <2> HIDE DEF w, U
  <2>2. u \o w \in Seq(U) /\ ToSet(u \o w) = ToSet(u) \cup ToSet(w)
    BY <2>1, TasksOfBoth
  <2> QED BY <2>2 DEF w, U
<1>4. ASSUME NEW k, NEW S, NEW u \in Seq(S) PROVE <<k>> \o u \in Seq({k} \cup S) /\ ToSet(u) \subseteq ToSet(<<k>> \o u)
  <2> DEFINE w == <<k>>
             U == {k} \cup S
  <2>1. w \in Seq(U) /\ u \in Seq(U)
    OBVIOUS
  <2> HIDE DEF w, U
  <2>2. w \o u \in Seq(U) /\ ToSet(w \o u) = ToSet(w) \cup ToSet(u)
    BY <2>1, TasksOfBoth
  <2> QED BY <2>2 DEF w, U
<1>5. ASSUME NEW k, NEW m, NEW S, NEW u \in Seq(S)
      PROVE  /\ <<k>> \o u \o <<m>> \in Seq(({k} \cup S) \cup {m})
             /\ ToSet(u) \subseteq ToSet(<<k>> \o u \o <<m>>)
  <2>1. <<k>> \o u \in Seq({k} \cup S) /\ ToSet(u) \subseteq ToSet(<<k>> \o u)
    BY <1>4
  <2>2. <<k>> \o u \o <<m>> \in Seq(({k} \cup S) \cup {m}) /\ ToSet(<<k>> \o u) \subseteq ToSet(<<k>> \o u \o <<m>>)
    BY <1>3, <2>1
  <2> QED BY <2>1, <2>2
<1>6. \A k : K \subseteq ToSet(AllParts(t, a) \o <<k>>)
  BY <1>1, <1>3
<1>7. \A k, m : K \subseteq ToSet(<<k>> \o AllParts(t, a) \o <<m>>)
  BY <1>1, <1>5
<1>8. ASSUME NEW S, NEW u \in Seq(S)
      PROVE  ToSet(u) \subseteq ToSet(Scoped(u)) /\ \E T : Scoped(u) \in Seq(T)
  BY <1>5 DEF Scoped
<1>9. ASSUME t[a].node \in Constructs PROVE K \subseteq ToSet(OfConstruct(t, a))
  <2>1. CASE t[a].node \in {"block", "arm", "closure", "while"}
    <3>1. OfConstruct(t, a) = Scoped(AllParts(t, a))
      BY <2>1 DEF OfConstruct
    <3> QED BY <1>1, <1>8, <3>1
  <2>2. CASE t[a].node = "if"
    <3>1. t[a].kids >= 2
      BY <1>0, <2>2 DEF HasItsParts
    <3>2. /\ 1 \in 1 .. t[a].kids + 1 /\ 2 \in 1 - 1 .. t[a].kids
          /\ 3 \in 1 .. t[a].kids + 1 /\ t[a].kids \in 3 - 1 .. t[a].kids
      BY <1>0, <3>1
    <3> DEFINE u == Parts(t, a, 1, 2)
               v == Parts(t, a, 3, t[a].kids)
    <3>3. /\ u \in Seq(K) /\ \A j \in 1 .. 2 : Task(t, Append(a, j)) \in ToSet(u)
          /\ v \in Seq(K) /\ \A j \in 3 .. t[a].kids : Task(t, Append(a, j)) \in ToSet(v)
      BY <3>2, PartsAre
    <3>4. OfConstruct(t, a) = Scoped(u) \o v
      BY <2>2 DEF OfConstruct
    <3> HIDE DEF u, v
    <3>5. ToSet(u) \subseteq ToSet(Scoped(u)) /\ \E T : Scoped(u) \in Seq(T)
      BY <1>8, <3>3
    <3>6. ToSet(Scoped(u) \o v) = ToSet(Scoped(u)) \cup ToSet(v)
      <4> DEFINE w == Scoped(u)
      <4>1. PICK T : w \in Seq(T)
        BY <3>5
      <4> DEFINE U == T \cup K
      <4>2. w \in Seq(U) /\ v \in Seq(U)
        BY <4>1, <3>3
      <4> HIDE DEF w, U
      <4>3. ToSet(w \o v) = ToSet(w) \cup ToSet(v)
        BY <4>2, TasksOfBoth
      <4> QED BY <4>3 DEF w
    <3>7. \A j \in 1 .. t[a].kids : j \in 1 .. 2 \/ j \in 3 .. t[a].kids
      BY <1>0
    <3> QED BY <3>3, <3>4, <3>5, <3>6, <3>7 DEF Kids
  <2>3. CASE t[a].node = "for"
    <3>1. t[a].kids >= 2
      BY <1>0, <2>3 DEF HasItsParts
    <3>2. /\ 1 \in 1 .. t[a].kids + 1 /\ 1 \in 1 - 1 .. t[a].kids
          /\ 2 \in 1 .. t[a].kids + 1 /\ t[a].kids \in 2 - 1 .. t[a].kids
      BY <1>0, <3>1
    <3> DEFINE u == Parts(t, a, 1, 1)
               v == Parts(t, a, 2, t[a].kids)
    <3>3. /\ u \in Seq(K) /\ \A j \in 1 .. 1 : Task(t, Append(a, j)) \in ToSet(u)
          /\ v \in Seq(K) /\ \A j \in 2 .. t[a].kids : Task(t, Append(a, j)) \in ToSet(v)
      BY <3>2, PartsAre
    <3>4. OfConstruct(t, a) = u \o Scoped(v)
      BY <2>3 DEF OfConstruct
    <3> HIDE DEF u, v
    <3>5. ToSet(v) \subseteq ToSet(Scoped(v)) /\ \E T : Scoped(v) \in Seq(T)
      BY <1>8, <3>3
    <3>6. ToSet(u \o Scoped(v)) = ToSet(u) \cup ToSet(Scoped(v))
      <4> DEFINE w == Scoped(v)
      <4>1. PICK T : w \in Seq(T)
        BY <3>5
      <4> DEFINE U == T \cup K
      <4>2. w \in Seq(U) /\ u \in Seq(U)
        BY <4>1, <3>3
      <4> HIDE DEF w, U
      <4>3. ToSet(u \o w) = ToSet(u) \cup ToSet(w)
        BY <4>2, TasksOfBoth
      <4> QED BY <4>3 DEF w
    <3>7. \A j \in 1 .. t[a].kids : j \in 1 .. 1 \/ j \in 2 .. t[a].kids
      BY <1>0
    <3> QED BY <3>3, <3>4, <3>5, <3>6, <3>7 DEF Kids
  <2>4. CASE t[a].node \in {"let", "case", "chain", "exprs"}
    <3>1. OfConstruct(t, a) = AllParts(t, a)
      BY <2>4 DEF OfConstruct
    <3> QED BY <1>1, <3>1
  <2> QED BY <1>9, <2>1, <2>2, <2>3, <2>4 DEF Constructs
<1>10. ASSUME t[a].node = "impl", NEW k, NEW m
       PROVE  K \subseteq ToSet(Parts(t, a, 1, t[a].heads) \o <<k>> \o Parts(t, a, t[a].heads + 1, t[a].kids) \o <<m>>)
  <2>1. t[a].heads \in Nat /\ t[a].heads <= t[a].kids
    BY <1>0, <1>10, FileFacts, NodeFacts DEF HasItsParts
  <2>2. /\ 1 \in 1 .. t[a].kids + 1 /\ t[a].heads \in 1 - 1 .. t[a].kids
        /\ t[a].heads + 1 \in 1 .. t[a].kids + 1 /\ t[a].kids \in (t[a].heads + 1) - 1 .. t[a].kids
    BY <1>0, <2>1
  <2> DEFINE u == Parts(t, a, 1, t[a].heads)
             v == Parts(t, a, t[a].heads + 1, t[a].kids)
  <2>3. /\ u \in Seq(K) /\ \A j \in 1 .. t[a].heads : Task(t, Append(a, j)) \in ToSet(u)
        /\ v \in Seq(K) /\ \A j \in t[a].heads + 1 .. t[a].kids : Task(t, Append(a, j)) \in ToSet(v)
    BY <2>2, PartsAre
  <2>7. \A j \in 1 .. t[a].kids : j \in 1 .. t[a].heads \/ j \in t[a].heads + 1 .. t[a].kids
    BY <1>0, <2>1
  <2> HIDE DEF u, v
  <2>4. u \o <<k>> \in Seq(K \cup {k}) /\ ToSet(u) \subseteq ToSet(u \o <<k>>)
    BY <1>3, <2>3
  <2>5. /\ u \o <<k>> \o v \in Seq(K \cup {k})
        /\ ToSet(u \o <<k>> \o v) = ToSet(u \o <<k>>) \cup ToSet(v)
    <3> DEFINE w == u \o <<k>>
               U == K \cup {k}
    <3>1. w \in Seq(U) /\ v \in Seq(U)
      BY <2>3, <2>4
    <3> HIDE DEF w, U
    <3>2. w \o v \in Seq(U) /\ ToSet(w \o v) = ToSet(w) \cup ToSet(v)
      BY <3>1, TasksOfBoth
    <3> QED BY <3>2 DEF w, U
  <2>6. ToSet(u \o <<k>> \o v) \subseteq ToSet(u \o <<k>> \o v \o <<m>>)
    BY <1>3, <2>5
  <2>8. K \subseteq ToSet(u \o <<k>> \o v \o <<m>>)
    BY <2>3, <2>4, <2>5, <2>6, <2>7 DEF Kids
  <2> QED BY <2>8 DEF u, v
<1> QED BY <1>1, <1>6, <1>7, <1>9, <1>10

-------------------------------------------------------------------------------
(* Steps: items *)

(* What the walk carries along, name by name.                                *)
LEMMA NowIs ==
  /\ Now.values = values /\ Now.types = types /\ Now.pos = pos /\ Now.self = self
  /\ Now.enclosing = enclosing /\ Now.module = module
  /\ Now \in Env => /\ values \in Frames /\ types \in Frames /\ pos \in Spaces /\ self \in Selves
                    /\ enclosing \in SUBSET Collected /\ module \in Modules /\ Len(values) = Len(types)
<1>1. /\ Now.values = values /\ Now.types = types /\ Now.pos = pos /\ Now.self = self
      /\ Now.enclosing = enclosing /\ Now.module = module
  BY DEF Now
<1> QED BY <1>1 DEF Env

(* What is recorded at a node is right.                                      *)
LEMMA Mentioned ==
  ASSUME NEW a \in DOMAIN file, NEW r \in MentionsAt(file, a)
  PROVE  Right(r)
BY DEF Right, Mentions

(* defined_at, of a place the table knows.                                   *)
LEMMA ReferrerIs ==
  ASSUME NEW a, NEW n
  PROVE  ItemReferrer(n, a) = IF n.node = "item" /\ InTable(file, a) THEN {<<module, n.name>>} \cap Collected ELSE {}
BY DEF ItemReferrer, DefinedAt, InTable

(* Where nothing is recorded and nothing is to be.                           *)
LEMMA NothingNamed ==
  ASSUME Scoping, Doing("visit"), Node.node \in Boundaries \cup Constructs \cup {"member"},
         NEW new, todo' = new \o Tail(todo), file' = file, marked' = marked,
         Leads(file, Now', new, Extend(Now, BoundNames(file, Introduced(file, At)))),
         Kids(file, At) \subseteq ToSet(new)
  PROVE  Scoping'
<1>1. IsFile(file) /\ At \in DOMAIN file
  BY Met DEF Scoping
<1>2. file[At].node \notin {"path", "unpack", "ident", "macro", "use", "attribute"}
  BY DEF Node, Boundaries, Constructs
<1>3. MentionsAt(file, At) = {}
  BY <1>1, <1>2, OtherMentions
<1>4. \A j \in 1 .. file[At].kids : Task(file, Append(At, j)) \in ToSet(new)
  BY DEF Kids
<1> QED BY <1>3, <1>4, VisitStep

(* visit_item and visit_item_mod.                                            *)
LEMMA ItemStep ==
  ASSUME Scoping, VisitItem \/ VisitMod
  PROVE  Scoping'
<1>1. Doing("visit") /\ Node.node \in {"item", "mod"} /\ file' = file /\ marked' = marked
  BY DEF VisitItem, VisitMod, Visiting
<1>2. IsFile(file) /\ At \in DOMAIN file /\ Now \in Env /\ Fits(file, Now, At)
  BY <1>1, Met DEF Scoping
<1>3. file[At].node \in {"item", "mod"} /\ file[At].node \in Boundaries /\ Node.name \in Identifier
  <2>1. file[At].node \in {"item", "mod"}
    BY <1>1 DEF Node
  <2>2. file[At] \in Nodes
    BY <1>2, FileFacts
  <2> QED BY <2>1, <2>2 DEF Nodes, Node, Boundaries, Constructs
<1> DEFINE owners == ItemReferrer(Node, At)
           m == IF Node.node = "mod" /\ InTable(file, At) THEN Node.name ELSE module
           new == AllParts(file, At) \o <<Restoring>>
<1>4. /\ Now' = [values |-> <<Params(file[At], "Value")>>, types |-> <<Params(file[At], "Type")>>, pos |-> "Other",
                 self |-> self, enclosing |-> owners, module |-> m]
      /\ todo' = new \o Tail(todo)
  <2>1. CASE VisitItem
    <3>1. Node.node # "mod"
      BY <2>1 DEF VisitItem, Visiting
    <3>2. values' = <<Params(file[At], "Value")>> /\ types' = <<Params(file[At], "Type")>> /\ pos' = "Other"
          /\ self' = self /\ enclosing' = owners /\ module' = m /\ todo' = new \o Tail(todo)
      BY <2>1, <3>1 DEF VisitItem, Afresh, Then, Node
    <3> QED BY <3>2 DEF Now
  <2>2. CASE VisitMod
    <3>1. Node.node = "mod"
      BY <2>2 DEF VisitMod, Visiting
    <3>2. values' = <<Params(file[At], "Value")>> /\ types' = <<Params(file[At], "Type")>> /\ pos' = "Other"
          /\ self' = self /\ enclosing' = owners /\ module' = m /\ todo' = new \o Tail(todo)
      BY <2>2, <3>1 DEF VisitMod, Afresh, Then, Node
    <3> QED BY <3>2 DEF Now
  <2> QED BY <2>1, <2>2
<1>5. /\ values \in Frames /\ types \in Frames /\ pos \in Spaces /\ self \in Selves
      /\ enclosing \in SUBSET Collected /\ module \in Modules
  BY <1>2, NowIs
<1>6. owners = (IF Node.node = "item" /\ InTable(file, At) THEN {<<module, Node.name>>} \cap Collected ELSE {})
  BY ReferrerIs
<1>7. owners \in SUBSET Collected /\ m \in Modules
  <2>1. Node.name \in Modules
    BY <1>3 DEF Identifier, Modules
  <2> QED BY <1>5, <1>6, <2>1
<1> HIDE DEF owners, m
<1>8. /\ Now' \in Env /\ Now'.pos = "Other" /\ Now'.values # <<>>
      /\ \A x : BoundIn(Now'.values, x) <=> x \in Params(file[At], "Value")
      /\ \A x : BoundIn(Now'.types, x) <=> x \in Params(file[At], "Type")
      /\ Now'.self = self /\ Now'.enclosing = owners /\ Now'.module = m
  BY <1>2, <1>3, <1>4, <1>5, <1>7, FreshEnv
<1>9. Now.module = module /\ Now.self = self
  BY NowIs
<1>10. /\ Now'.self = Now.self
       /\ Now'.enclosing = (IF file[At].node = "item" /\ InTable(file, At) THEN {<<Now.module, file[At].name>>} \cap Collected ELSE {})
       /\ Now'.module = IF file[At].node = "mod" /\ InTable(file, At) THEN file[At].name ELSE Now.module
  BY <1>6, <1>8, <1>9 DEF Node, m
<1>11. Restoring = [do |-> "restore", values |-> Now.values, types |-> Now.types, pos |-> Now.pos,
                    enclosing |-> Now.enclosing, self |-> Now.self, module |-> Now.module]
  BY NowIs DEF Restoring
<1>12. Leads(file, Now', new, Extend(Now, BoundNames(file, Introduced(file, At))))
  <2> DEFINE f == Now'
  <2>1. /\ f \in Env /\ f.pos = "Other" /\ f.values # <<>>
        /\ \A x : BoundIn(f.values, x) <=> x \in Params(file[At], "Value")
        /\ \A x : BoundIn(f.types, x) <=> x \in Params(file[At], "Type")
        /\ f.self = Now.self
        /\ f.enclosing = (IF file[At].node = "item" /\ InTable(file, At) THEN {<<Now.module, file[At].name>>} \cap Collected ELSE {})
        /\ f.module = IF file[At].node = "mod" /\ InTable(file, At) THEN file[At].name ELSE Now.module
    BY <1>8, <1>10
  <2> HIDE DEF f
  <2>2. Leads(file, f, AllParts(file, At)
                         \o <<[do |-> "restore", values |-> Now.values, types |-> Now.types, pos |-> Now.pos,
                               enclosing |-> Now.enclosing, self |-> Now.self, module |-> Now.module]>>,
              Extend(Now, BoundNames(file, Introduced(file, At))))
    BY <1>2, <1>3, <2>1, ItemLeads
  <2> QED BY <1>11, <2>2 DEF f
<1>13. Kids(file, At) \subseteq ToSet(new)
  BY <1>2, KidsAmong
<1> HIDE DEF new
<1> QED BY <1>1, <1>3, <1>4, <1>12, <1>13, NothingNamed DEF Node

(* visit_item_impl and visit_impl_body.                                      *)
LEMMA ImplStep ==
  ASSUME Scoping, VisitImpl
  PROVE  Scoping'
<1>1. Doing("visit") /\ Node.node = "impl" /\ file' = file /\ marked' = marked
  BY DEF VisitImpl, Visiting
<1>2. IsFile(file) /\ At \in DOMAIN file /\ Now \in Env /\ Fits(file, Now, At)
  BY <1>1, Met DEF Scoping
<1>3. file[At].node = "impl" /\ file[At].node \in Boundaries
  BY <1>1 DEF Node, Boundaries
<1> DEFINE owners == OwnersOf(file[At])
           name == SelfName(file[At])
           new == Parts(file, At, 1, file[At].heads) \o <<[do |-> "members", name |-> name]>>
                    \o Parts(file, At, file[At].heads + 1, file[At].kids) \o <<Restoring>>
<1>4. /\ values' = <<Params(file[At], "Value")>> /\ types' = <<Params(file[At], "Type")>> /\ pos' = "Other"
      /\ self' = self /\ enclosing' = owners /\ module' = module /\ todo' = new \o Tail(todo)
  BY DEF VisitImpl, Afresh, Then, Node
<1>5. Now' = [values |-> <<Params(file[At], "Value")>>, types |-> <<Params(file[At], "Type")>>, pos |-> "Other",
              self |-> self, enclosing |-> owners, module |-> module]
  BY <1>4 DEF Now
<1>6. self \in Selves /\ module \in Modules
  BY <1>2, NowIs
<1>7. file[At].heads \in Nat /\ file[At].segments \in DOMAIN Owners /\ file[At].trait \in DOMAIN Owners
  <2>1. file[At] \in Nodes
    BY <1>2, FileFacts
  <2> QED BY <1>3, <2>1 DEF Nodes, Constructs
<1>8. owners \in SUBSET Collected
  BY <1>7, OwnersAreCollected DEF OwnersOf
<1>9. Now.module = module /\ Now.self = self
  BY NowIs
<1>10. name = SelfIn(file, Now, At, file[At].heads + 1)
  <2>1. file[At].heads + 1 > file[At].heads
    BY <1>7
  <2> QED BY <1>3, <1>9, <2>1 DEF SelfIn, SelfName
<1>11. Restoring = [do |-> "restore", values |-> Now.values, types |-> Now.types, pos |-> Now.pos,
                    enclosing |-> Now.enclosing, self |-> Now.self, module |-> Now.module]
  BY NowIs DEF Restoring
<1> HIDE DEF owners, name
<1>12. /\ Now' \in Env /\ Now'.pos = "Other" /\ Now'.values # <<>>
       /\ \A x : BoundIn(Now'.values, x) <=> x \in Params(file[At], "Value")
       /\ \A x : BoundIn(Now'.types, x) <=> x \in Params(file[At], "Type")
       /\ Now'.self = self /\ Now'.enclosing = owners /\ Now'.module = module
  BY <1>2, <1>3, <1>5, <1>6, <1>8, FreshEnv
<1>13. Leads(file, Now', new, Extend(Now, BoundNames(file, Introduced(file, At))))
  <2> DEFINE f == Now'
  <2>1. /\ f \in Env /\ f.pos = "Other" /\ f.values # <<>>
        /\ \A x : BoundIn(f.values, x) <=> x \in Params(file[At], "Value")
        /\ \A x : BoundIn(f.types, x) <=> x \in Params(file[At], "Type")
        /\ f.self = Now.self /\ f.enclosing = OwnersOf(file[At]) /\ f.module = Now.module
    BY <1>9, <1>12 DEF owners
  <2> HIDE DEF f
  <2>2. Leads(file, f,
              Parts(file, At, 1, file[At].heads)
                \o <<[do |-> "members", name |-> SelfIn(file, Now, At, file[At].heads + 1)]>>
                \o Parts(file, At, file[At].heads + 1, file[At].kids)
                \o <<[do |-> "restore", values |-> Now.values, types |-> Now.types, pos |-> Now.pos,
                      enclosing |-> Now.enclosing, self |-> Now.self, module |-> Now.module]>>,
              Extend(Now, BoundNames(file, Introduced(file, At))))
    BY <1>2, <1>3, <2>1, ImplLeads
  <2> QED BY <1>10, <1>11, <2>2 DEF f
<1>14. Kids(file, At) \subseteq ToSet(new)
  BY <1>2, <1>3, KidsAmong
<1> HIDE DEF new
<1> QED BY <1>1, <1>3, <1>4, <1>13, <1>14, NothingNamed DEF Node

(* visit_use_tree, visit_macro and visit_attribute have no parts.            *)
LEMMA LeafStep ==
  ASSUME Scoping, VisitUse \/ VisitTokens
  PROVE  Scoping'
<1>1. /\ Doing("visit") /\ Node.node \in {"use", "macro", "attribute"} /\ file' = file
      /\ todo' = <<>> \o Tail(todo) /\ marked \subseteq marked' /\ Now' = Now
  BY DEF VisitUse, VisitTokens, Visiting, Then, Now
<1>2. IsFile(file) /\ At \in DOMAIN file /\ Now \in Env /\ Fits(file, Now, At)
  BY <1>1, Met DEF Scoping
<1>3. file[At].node \in {"use", "macro", "attribute"} /\ file[At].kids = 0
  <2>1. file[At] \in Nodes
    BY <1>2, FileFacts
  <2> QED BY <1>1, <2>1 DEF Node, Nodes, Constructs
<1>4. Leads(file, Now', <<>>, Extend(Now, BoundNames(file, Introduced(file, At))))
  <2>1. Introduced(file, At) = {}
    BY <1>2, <1>3, IntroducedIs DEF Introducers, Patterns, Plain
  <2>2. BoundNames(file, {}) = {} /\ {} \in SUBSET STRING
    BY DEF BoundNames
  <2>3. Extend(Now, {}) = Now
    BY <1>2, <2>2, ExtendLaws
  <2> QED BY <1>1, <1>2, <2>1, <2>2, <2>3, LeadsNowhere
<1>5. MentionsAt(file, At) \subseteq marked' /\ \A r \in marked' \ marked : r \in MentionsAt(file, At)
  <2>1. Now.module = module /\ Now.self = self /\ Now.enclosing = enclosing /\ module = ModuleOf(file, At)
    <3>1. Now.module = module /\ Now.self = self /\ Now.enclosing = enclosing
      BY NowIs
    <3> QED BY <1>2, <3>1 DEF Fits
  <2>2. CASE Node.node = "use"
    <3>1. marked' = marked \cup {[at |-> At, from |-> DefinedAt(Node.name), module |-> module]}
      BY <2>2 DEF VisitUse, VisitTokens, Visiting
    <3>2. MentionsAt(file, At) = {[at |-> At, from |-> {<<ModuleOf(file, At), file[At].name>>} \cap Collected,
                                    module |-> ModuleOf(file, At)]}
      BY <1>2, <2>2, OtherMentions DEF Node
    <3>3. DefinedAt(Node.name) = {<<ModuleOf(file, At), file[At].name>>} \cap Collected
      BY <2>1 DEF DefinedAt, Node
    <3> QED BY <2>1, <3>1, <3>2, <3>3
  <2>3. CASE Node.node = "attribute"
    <3>1. marked' = marked \cup AsRoots(Node.tokens, At)
      BY <2>3 DEF VisitUse, VisitTokens, Visiting
    <3>2. MentionsAt(file, At) = AsRoots(Node.tokens, At)
      BY <1>2, <2>3, OtherMentions DEF Node
    <3> QED BY <3>1, <3>2
  <2>4. CASE Node.node = "macro"
    <3>1. marked' = marked \cup AsRoots(Node.tokens, At) \cup Mention("Other", Node.segments, At)
      BY <2>4 DEF VisitUse, VisitTokens, Visiting
    <3>2. Mention("Other", Node.segments, At) = IF Node.segments[1] = self THEN {} ELSE {Record(Now, At)}
      BY <2>1 DEF Mention, Shadowed, Record
    <3>3. MentionsAt(file, At) = (IF Node.segments[1] = self THEN {} ELSE {Record(Now, At)}) \cup AsRoots(Node.tokens, At)
      BY <1>2, <2>1, <2>4, UseMentions DEF Node
    <3> QED BY <3>1, <3>2, <3>3
  <2> QED BY <1>1, <2>2, <2>3, <2>4
<1>6. \A r \in marked' \ marked : Right(r)
  BY <1>2, <1>5, Mentioned
<1>7. \A j \in 1 .. file[At].kids : Task(file, Append(At, j)) \in ToSet(<<>>)
  BY <1>3
<1> DEFINE new == <<>>
<1>8. /\ todo' = new \o Tail(todo) /\ Leads(file, Now', new, Extend(Now, BoundNames(file, Introduced(file, At))))
      /\ \A j \in 1 .. file[At].kids : Task(file, Append(At, j)) \in ToSet(new)
  BY <1>1, <1>4, <1>7
<1> HIDE DEF new
<1> QED BY <1>1, <1>5, <1>6, <1>8, VisitStep

-------------------------------------------------------------------------------
(* Steps: scopes *)

(* visit_impl_item and visit_trait_item, and the constructs.                 *)
LEMMA ScopeStep ==
  ASSUME Scoping, VisitMember \/ VisitConstruct
  PROVE  Scoping'
<1>1. /\ Doing("visit") /\ Node.node \in Constructs \cup {"member"} /\ file' = file /\ marked' = marked /\ Now' = Now
  BY DEF VisitMember, VisitConstruct, Visiting, Now
<1>2. IsFile(file) /\ At \in DOMAIN file /\ Len(At) > 0 /\ Now \in Env /\ Fits(file, Now, At)
  BY <1>1, Met DEF Scoping
<1>3. CASE VisitMember
  <2>1. Node.node = "member"
    BY <1>3 DEF VisitMember, Visiting
  <2> DEFINE first == [do |-> "open", values |-> Params(file[At], "Value"), types |-> Params(file[At], "Type")]
             last == [do |-> "close"]
             new == <<first>> \o AllParts(file, At) \o <<last>>
  <2>2. todo' = new \o Tail(todo)
    BY <1>3 DEF VisitMember, Then, Node
  <2>3. Leads(file, Now, new, Extend(Now, BoundNames(file, Introduced(file, At))))
    BY <1>2, <2>1, MemberLeads DEF Node
  <2> HIDE DEF first, last
  <2>4. Kids(file, At) \subseteq ToSet(new)
    BY <1>2, KidsAmong
  <2> HIDE DEF new
  <2> QED BY <1>1, <2>2, <2>3, <2>4, NothingNamed
<1>4. CASE VisitConstruct
  <2>1. Node.node \in Constructs /\ todo' = OfConstruct(file, At) \o Tail(todo)
    BY <1>4 DEF VisitConstruct, Visiting, Then
  <2>2. Leads(file, Now, OfConstruct(file, At), Extend(Now, BoundNames(file, Introduced(file, At))))
    BY <1>2, <2>1, ConstructLeads DEF Node
  <2>3. Kids(file, At) \subseteq ToSet(OfConstruct(file, At))
    BY <1>2, <2>1, KidsAmong DEF Node
  <2> QED BY <1>1, <2>1, <2>2, <2>3, NothingNamed
<1> QED BY <1>3, <1>4

(* in_scope, its end, and with_pos, within and visit_impl_body putting back  *)
(* what they set.                                                            *)
LEMMA ReturnStep ==
  ASSUME Scoping, Open \/ Close \/ LeavePosition \/ EnterMembers \/ Restore
  PROVE  Scoping'
<1> DEFINE k == Head(todo)
<1>1. todo' = <<>> \o Tail(todo) /\ file' = file /\ marked' = marked
  BY DEF Open, Close, LeavePosition, EnterMembers, Restore, Then
<1>2. Now \in Env
  BY LeadsOn DEF Scoping, OnCourse
<1>3. /\ Now.values = values /\ Now.types = types /\ Now.pos = pos /\ Now.self = self
      /\ Now.enclosing = enclosing /\ Now.module = module
  BY NowIs
<1>4. todo # <<>> => k \in Tasks(file)
  BY LeadsOn DEF Scoping, OnCourse
<1>5. CASE Open
  <2>1. Doing("open") /\ k.do = "open" /\ todo # <<>>
    BY <1>5 DEF Open, Doing
  <2>2. k.values \in SUBSET STRING /\ k.types \in SUBSET STRING
    BY <1>4, <2>1 DEF Tasks
  <2>3. Now' = [values |-> Append(values, k.values), types |-> Append(types, k.types), pos |-> pos, self |-> self,
                enclosing |-> enclosing, module |-> module]
    BY <1>5 DEF Open, Now
  <2>4. [Now EXCEPT !.values = Append(@, k.values), !.types = Append(@, k.types)] = Now'
    <3> HIDE DEF k
    <3>1. [Now EXCEPT !.values = Append(@, k.values), !.types = Append(@, k.types)] =
            [values |-> Append(Now.values, k.values), types |-> Append(Now.types, k.types), pos |-> Now.pos,
             self |-> Now.self, enclosing |-> Now.enclosing, module |-> Now.module]
      BY <1>2, <2>2, OpenIs
    <3> QED BY <1>3, <2>3, <3>1
  <2>5. ASSUME NEW g \in Env, Leaves(file, Now, k, g) PROVE g = Now'
    BY <2>1, <2>4, <2>5 DEF Leaves
  <2> QED BY <1>1, <2>1, <2>5, OtherStep
<1>6. CASE Close
  <2>1. Doing("close") /\ k.do = "close"
    BY <1>6 DEF Close, Doing
  <2>2. Now' = [values |-> Front(values), types |-> Front(types), pos |-> pos, self |-> self,
                enclosing |-> enclosing, module |-> module]
    BY <1>6 DEF Close, Now
  <2>3. [Now EXCEPT !.values = Front(@), !.types = Front(@)] = Now'
    <3>1. [Now EXCEPT !.values = Front(@), !.types = Front(@)] =
            [values |-> Front(Now.values), types |-> Front(Now.types), pos |-> Now.pos,
             self |-> Now.self, enclosing |-> Now.enclosing, module |-> Now.module]
      BY <1>2, CloseIs
    <3> QED BY <1>3, <2>2, <3>1
  <2>4. ASSUME NEW g \in Env, Leaves(file, Now, k, g) PROVE g = Now'
    BY <2>1, <2>3, <2>4 DEF Leaves
  <2> QED BY <1>1, <2>1, <2>4, OtherStep
<1>7. CASE LeavePosition
  <2>1. Doing("position") /\ k.do = "position" /\ todo # <<>>
    BY <1>7 DEF LeavePosition, Doing
  <2>2. k.pos \in Spaces
    BY <1>4, <2>1 DEF Tasks
  <2>3. Now' = [values |-> values, types |-> types, pos |-> k.pos, self |-> self,
                enclosing |-> enclosing, module |-> module]
    BY <1>7 DEF LeavePosition, Now
  <2>4. [Now EXCEPT !.pos = k.pos] = Now'
    <3> HIDE DEF k
    <3>1. [Now EXCEPT !.pos = k.pos] =
            [values |-> Now.values, types |-> Now.types, pos |-> k.pos,
             self |-> Now.self, enclosing |-> Now.enclosing, module |-> Now.module]
      BY <1>2, <2>2, PositionIs
    <3> QED BY <1>3, <2>3, <3>1
  <2>5. ASSUME NEW g \in Env, Leaves(file, Now, k, g) PROVE g = Now'
    BY <2>1, <2>4, <2>5 DEF Leaves
  <2> QED BY <1>1, <2>1, <2>5, OtherStep
<1>8. CASE EnterMembers
  <2>1. Doing("members") /\ k.do = "members" /\ todo # <<>>
    BY <1>8 DEF EnterMembers, Doing
  <2>2. k.name \in Selves
    BY <1>4, <2>1 DEF Tasks
  <2>3. Now' = [values |-> values, types |-> types, pos |-> pos, self |-> k.name,
                enclosing |-> enclosing, module |-> module]
    BY <1>8 DEF EnterMembers, Now
  <2>4. [Now EXCEPT !.self = k.name] = Now'
    <3> HIDE DEF k
    <3>1. [Now EXCEPT !.self = k.name] =
            [values |-> Now.values, types |-> Now.types, pos |-> Now.pos,
             self |-> k.name, enclosing |-> Now.enclosing, module |-> Now.module]
      BY <1>2, <2>2, MembersIs
    <3> QED BY <1>3, <2>3, <3>1
  <2>5. ASSUME NEW g \in Env, Leaves(file, Now, k, g) PROVE g = Now'
    BY <2>1, <2>4, <2>5 DEF Leaves
  <2> QED BY <1>1, <2>1, <2>5, OtherStep
<1>9. CASE Restore
  <2>1. Doing("restore") /\ k.do = "restore"
    BY <1>9 DEF Restore, Doing
  <2>2. Now' = [values |-> k.values, types |-> k.types, pos |-> k.pos, self |-> k.self,
                enclosing |-> k.enclosing, module |-> k.module]
    BY <1>9 DEF Restore, Now
  <2>3. ASSUME NEW g \in Env, Leaves(file, Now, k, g) PROVE g = Now'
    BY <2>1, <2>2, <2>3 DEF Leaves
  <2> QED BY <1>1, <2>1, <2>3, OtherStep
<1> QED BY <1>5, <1>6, <1>7, <1>8, <1>9

-------------------------------------------------------------------------------
(* Steps: names *)

(* with_pos, around a path or a pattern: all the parts, and back.            *)
LEMMA PositionedStep ==
  ASSUME Scoping, Doing("visit") \/ Doing("bind"), Node.node \in Patterns \cup {"path"},
         NEW p \in Spaces, Positioned(p), file' = file,
         Node.node \in Patterns => p = "Other",
         ~ (Node.node = "path" /\ Node.space # "Bare") => p \in {pos, "Other"},
         values' = Grow(values, BoundNames(file, IF Node.node = "ident" THEN {At} ELSE {})),
         UNCHANGED <<types, self, enclosing, module>>,
         marked \subseteq marked', MentionsAt(file, At) \subseteq marked',
         \A r \in marked' \ marked : Right(r)
  PROVE  Scoping'
<1> DEFINE Own == IF Node.node = "ident" THEN {At} ELSE {}
           back == [do |-> "position", pos |-> Now.pos]
           new == AllParts(file, At) \o <<back>>
           f == Now'
<1>1. IsFile(file) /\ At \in DOMAIN file /\ Len(At) > 0 /\ Now \in Env /\ Fits(file, Now, At)
  BY Met DEF Scoping
<1>2. /\ Now.values = values /\ Now.types = types /\ Now.pos = pos /\ Now.self = self
      /\ Now.enclosing = enclosing /\ Now.module = module
  BY NowIs
<1>3. todo' = new \o Tail(todo) /\ pos' = p
  BY <1>2 DEF Positioned, Then
<1>4. f = [values |-> Grow(Now.values, BoundNames(file, Own)), types |-> Now.types, pos |-> p, self |-> Now.self,
           enclosing |-> Now.enclosing, module |-> Now.module]
  BY <1>2, <1>3 DEF Now
<1>5. Own = IF file[At].node = "ident" THEN {At} ELSE {}
  BY DEF Node
<1>6. /\ file[At].node \in Patterns \cup {"path"}
      /\ file[At].node \in Patterns => p = "Other"
      /\ ~ (file[At].node = "path" /\ file[At].space # "Bare") => p \in {Now.pos, "Other"}
  BY <1>2 DEF Node
<1> HIDE DEF Own, f
<1>7. Leads(file, f, new, Extend(Now, BoundNames(file, Introduced(file, At))))
  BY <1>1, <1>4, <1>5, <1>6, PositionedLeads
<1>8. \A j \in 1 .. file[At].kids : Task(file, Append(At, j)) \in ToSet(new)
  <2> HIDE DEF back
  <2>1. Kids(file, At) \subseteq ToSet(new)
    BY <1>1, KidsAmong
  <2> QED BY <2>1 DEF Kids
<1> HIDE DEF new
<1> QED BY <1>3, <1>7, <1>8, VisitStep DEF f

(* visit_path, of an expression, of a type and of a trait.                   *)
LEMMA PathStep ==
  ASSUME Scoping, VisitPath
  PROVE  Scoping'
<1> DEFINE p == IF Node.space = "Bare" THEN pos ELSE Node.space
           s == Node.segments
           r == Record(Now, At)
<1>1. /\ Doing("visit") /\ Node.node = "path" /\ file' = file /\ Positioned(p) /\ pos' = p
      /\ UNCHANGED <<types, self, enclosing, module>> /\ values' = values
      /\ marked' = marked \cup Mention(p, s, At)
  BY DEF VisitPath, Visiting, Positioned
<1>2. IsFile(file) /\ At \in DOMAIN file /\ Now \in Env /\ Fits(file, Now, At)
  BY <1>1, Met DEF Scoping
<1>3. /\ Now.values = values /\ Now.types = types /\ Now.pos = pos /\ Now.self = self
      /\ Now.enclosing = enclosing /\ Now.module = module
      /\ values \in Frames /\ pos \in Spaces
  BY <1>2, NowIs
<1>4. Node.space \in {"Value", "Type", "Bare"} /\ p \in Spaces
  <2>1. Node.space \in {"Value", "Type", "Bare"}
    BY <1>1, <1>2, FileFacts, NodeFacts DEF Node
  <2> QED BY <1>3, <2>1 DEF Spaces
<1>5. p = IF file[At].space = "Bare" THEN Now.pos ELSE file[At].space
  BY <1>3 DEF Node
<1> HIDE DEF p
<1>6. Mention(p, s, At) = IF Hidden(Now, p, s) THEN {} ELSE {r}
  <2>1. s[1] = self \/ Shadowed(p, s) <=> Hidden(Now, p, s)
    BY <1>3 DEF Hidden, Shadowed
  <2>2. r = [at |-> At, from |-> enclosing, module |-> module]
    BY <1>3 DEF Record
  <2> HIDE DEF r, s
  <2> QED BY <2>1, <2>2 DEF Mention
<1>7. /\ Hidden(Now, p, s) => MentionsAt(file, At) = {}
      /\ ~ Hidden(Now, p, s) => MentionsAt(file, At) \subseteq {r} /\ (r \in MentionsAt(file, At) \/ InDoubt(file, r))
  BY <1>1, <1>2, <1>5, PathMentions DEF Node
<1> HIDE DEF s, r
<1>8. MentionsAt(file, At) \subseteq marked' /\ marked \subseteq marked'
  BY <1>1, <1>6, <1>7
<1>9. \A q \in marked' \ marked : Right(q)
  <2>1. ~ Hidden(Now, p, s) => Right(r)
    BY <1>2, <1>7, Mentioned DEF Right
  <2> QED BY <1>1, <1>6, <2>1
<1>10. values' = Grow(values, BoundNames(file, IF Node.node = "ident" THEN {At} ELSE {}))
  <2>1. BoundNames(file, {}) = {} /\ {} \in SUBSET STRING
    BY DEF BoundNames
  <2>2. Grow(values, {}) = values
    BY <1>3, <2>1, GrowLaws
  <2> QED BY <1>1, <2>1, <2>2
<1>11. /\ Node.node \in Patterns \cup {"path"} /\ Node.node \notin Patterns
       /\ ~ (Node.node = "path" /\ Node.space # "Bare") => p \in {pos, "Other"}
  BY <1>1 DEF Patterns, Plain, p
<1> QED BY <1>1, <1>4, <1>8, <1>9, <1>10, <1>11, PositionedStep

(* bind_pat_inner, a name.                                                   *)
LEMMA IdentStep ==
  ASSUME Scoping, BindIdent
  PROVE  Scoping'
<1> DEFINE r == Record(Now, At)
<1>1. /\ Doing("bind") /\ Node.node = "ident" /\ file' = file /\ Positioned("Other")
      /\ UNCHANGED <<types, self, enclosing, module>>
      /\ \/ IsBinding(Node) /\ values' = Bind(values, Node.name) /\ marked' = marked
         \/ /\ ~ IsBinding(Node) /\ values' = values
            /\ marked' = marked \cup {[at |-> At, from |-> enclosing, module |-> module]}
  BY DEF BindIdent, Binding
<1>2. IsFile(file) /\ At \in DOMAIN file /\ Len(At) > 0 /\ Now \in Env /\ Fits(file, Now, At)
  BY <1>1, Met DEF Scoping
<1>3. /\ Now.values = values /\ Now.enclosing = enclosing /\ Now.module = module
      /\ values \in Frames /\ module = ModuleOf(file, At)
  <2>1. /\ Now.values = values /\ Now.enclosing = enclosing /\ Now.module = module /\ values \in Frames
    BY <1>2, NowIs
  <2> QED BY <1>2, <2>1 DEF Fits
<1>4. values # <<>>
  <2>1. Node.node \notin Boundaries \cup {"use", "macro", "attribute"}
    BY <1>1 DEF Boundaries
  <2> QED BY <1>2, <1>3, <2>1, Deep DEF Node
<1>5. Node.name \in STRING
  BY <1>1, <1>2, FileFacts, NodeFacts DEF Node, Identifier
<1>6. IsBinding(Node) <=> file[At].forced \/ <<Now.module, file[At].name>> \notin MayName
  BY <1>3 DEF IsBinding, Node
<1>7. values' = Grow(values, BoundNames(file, IF Node.node = "ident" THEN {At} ELSE {}))
  <2>1. Binds(file, At) <=> IsBinding(Node)
    BY <1>3 DEF Binds, IsBinding, Node
  <2>2. BoundNames(file, {At}) = IF IsBinding(Node) THEN {Node.name} ELSE {}
    BY <2>1 DEF BoundNames, Node
  <2>3. CASE IsBinding(Node)
    <3>1. values' = Bind(values, Node.name)
      BY <1>1, <2>3
    <3>2. Bind(values, Node.name) = Grow(values, {Node.name})
      BY <1>4 DEF Bind, Grow
    <3> QED BY <1>1, <2>2, <2>3, <3>1, <3>2
  <2>4. CASE ~ IsBinding(Node)
    <3>1. {} \in SUBSET STRING
      OBVIOUS
    <3>2. Grow(values, {}) = values
      BY <1>3, <3>1, GrowLaws
    <3> QED BY <1>1, <2>2, <2>4, <3>2
  <2> QED BY <2>3, <2>4
<1>8. /\ IsBinding(Node) => MentionsAt(file, At) = {}
      /\ ~ IsBinding(Node) => MentionsAt(file, At) \subseteq {r} /\ (r \in MentionsAt(file, At) \/ InDoubt(file, r))
  BY <1>1, <1>2, <1>6, IdentMentions DEF Node
<1>9. r = [at |-> At, from |-> enclosing, module |-> module]
  BY <1>3 DEF Record
<1> HIDE DEF r
<1>10. MentionsAt(file, At) \subseteq marked' /\ marked \subseteq marked'
  BY <1>1, <1>8, <1>9
<1>11. \A q \in marked' \ marked : Right(q)
  <2>1. ~ IsBinding(Node) => Right(r)
    BY <1>2, <1>8, Mentioned DEF Right
  <2> QED BY <1>1, <1>9, <2>1
<1>12. Node.node \in Patterns \cup {"path"} /\ Node.node # "path" /\ "Other" \in Spaces
  BY <1>1 DEF Patterns, Plain, Spaces
<1> QED BY <1>1, <1>7, <1>10, <1>11, <1>12, PositionedStep

(* bind_pat_inner, the rest.                                                 *)
LEMMA PatternStep ==
  ASSUME Scoping, BindParts
  PROVE  Scoping'
<1>1. /\ Doing("bind") /\ Node.node \in Patterns \ {"ident"} /\ file' = file /\ Positioned("Other")
      /\ UNCHANGED <<types, self, enclosing, module>> /\ values' = values
      /\ marked' = marked \cup (IF Node.node = "unpack" THEN Mention("Other", Node.segments, At) ELSE {})
  BY DEF BindParts, Binding
<1>2. IsFile(file) /\ At \in DOMAIN file /\ Now \in Env /\ Fits(file, Now, At)
  BY <1>1, Met DEF Scoping
<1>3. /\ Now.self = self /\ Now.enclosing = enclosing /\ Now.module = module /\ values \in Frames
  BY <1>2, NowIs
<1>4. marked' = marked \cup MentionsAt(file, At)
  <2>1. CASE Node.node = "unpack"
    <3>1. MentionsAt(file, At) = (IF Node.segments[1] = self THEN {} ELSE {Record(Now, At)})
      BY <1>2, <1>3, <2>1, UseMentions DEF Node
    <3>2. Mention("Other", Node.segments, At) = IF Node.segments[1] = self THEN {} ELSE {Record(Now, At)}
      BY <1>3 DEF Mention, Shadowed, Record
    <3> QED BY <1>1, <2>1, <3>1, <3>2
  <2>2. CASE Node.node # "unpack"
    <3>1. file[At].node \notin {"path", "unpack", "ident", "macro", "use", "attribute"}
      BY <1>1, <2>2 DEF Node, Patterns, Plain
    <3>2. MentionsAt(file, At) = {}
      BY <1>2, <3>1, OtherMentions
    <3> QED BY <1>1, <2>2, <3>2
  <2> QED BY <2>1, <2>2
<1>5. \A r \in marked' \ marked : Right(r)
  BY <1>2, <1>4, Mentioned
<1>6. values' = Grow(values, BoundNames(file, IF Node.node = "ident" THEN {At} ELSE {}))
  <2>1. BoundNames(file, {}) = {} /\ {} \in SUBSET STRING
    BY DEF BoundNames
  <2>2. Grow(values, {}) = values
    BY <1>3, <2>1, GrowLaws
  <2> QED BY <1>1, <2>1, <2>2
<1>7. Node.node \in Patterns \cup {"path"} /\ Node.node # "path" /\ "Other" \in Spaces
  BY <1>1 DEF Patterns, Plain, Spaces
<1> QED BY <1>1, <1>4, <1>5, <1>6, <1>7, PositionedStep

-------------------------------------------------------------------------------
(* The beginning *)

(* At the top of a file nothing is local and nothing is anyone's.            *)
LEMMA RootIs ==
  ASSUME NEW t, NEW a \in Address, \A i : i \notin Outward(a), NEW space, NEW x, NEW segments
  PROVE  /\ ModuleOf(t, a) = "top" /\ Container(t, a) = {}
         /\ ~ HasLocal(t, a, space, x) /\ ~ IsSelf(t, a, segments)
<1>2. \A i : i \notin Outward(a)
  OBVIOUS
<1>3. {i \in Outward(a) \ {0} : Above(t, a, i).node = "mod" /\ InTable(t, SubSeq(a, 1, i))} = {}
  BY <1>2
<1>4. ModuleOf(t, a) = "top"
  BY <1>3 DEF ModuleOf
<1>5. {i \in Outward(a) : Above(t, a, i).node \in Boundaries} = {}
  BY <1>2
<1>6. Container(t, a) = {}
  BY <1>5 DEF Container
<1>7. ~ HasLocal(t, a, space, x)
  BY <1>2 DEF HasLocal
<1>8. {i \in Outward(a) : Above(t, a, i).node = "impl" /\ a[i + 1] > Above(t, a, i).heads} = {}
  BY <1>2
<1>9. ~ IsSelf(t, a, segments)
  BY <1>8 DEF IsSelf
<1> QED BY <1>4, <1>6, <1>7, <1>9

(* What a file has at its top is met as the walk begins.                     *)
LEMMA TopFits ==
  ASSUME NEW t, IsFile(t), NEW a \in DOMAIN t, \A i : i \notin Outward(a), t[a].node = "file",
         NEW e \in Env, \A x : ~ BoundIn(e.values, x) /\ ~ BoundIn(e.types, x),
         e.pos = "Other", e.self \notin Identifier, e.enclosing = Container(t, a), e.module = ModuleOf(t, a),
         NEW k \in 1 .. t[a].kids
  PROVE  Fits(t, e, Append(a, k))
<1>1. a \in Address /\ t[a].kids \in Nat
  BY FileFacts
<1>3. \A space, x : ~ HasLocal(t, a, space, x)
  BY <1>1, RootIs
<1>4. \A segments : ~ IsSelf(t, a, segments)
  BY <1>1, RootIs
<1>5. ModuleOf(t, Append(a, k)) = ModuleOf(t, a)
  BY PartModule
<1>6. Container(t, Append(a, k)) = Container(t, a)
  BY PartContainer
<1>7. \A segments : ~ IsSelf(t, Append(a, k), segments)
  BY <1>4, PartIsSelf
<1>8. Sees(t, a, k) = {}
  BY DEF Sees, SeesBefore
<1>9. ASSUME NEW space, NEW x PROVE ~ HasLocal(t, Append(a, k), space, x)
  <2>1. HasLocal(t, Append(a, k), space, x) <=>
          \/ /\ space = "Value" /\ <<ModuleOf(t, Append(a, k)), x>> \notin Constants
             /\ \E b \in Sees(t, a, k) : t[b].name = x
          \/ t[a].node \in {"item", "impl", "member"} /\ x \in Params(t[a], space)
          \/ t[a].node \notin Boundaries /\ HasLocal(t, a, space, x)
    BY PartHasLocal
  <2>2. t[a].node \notin {"item", "impl", "member"}
    OBVIOUS
  <2> QED BY <1>3, <1>8, <2>1, <2>2
<1>10. ~ (Len(Append(a, k)) > 1)
  <2>1. k \in Nat \ {0}
    BY <1>1
  <2>2. Len(Append(a, k)) = Len(a) + 1 /\ Len(a) \in Nat
    BY <1>1, <2>1, PartAddress DEF Address
  <2>3. 0 \notin Outward(a)
    OBVIOUS
  <2>4. ~ (Len(a) > 0)
    BY <2>2, <2>3 DEF Outward
  <2> QED BY <2>2, <2>4
<1>11. \A segments \in Path : segments[1] = e.self <=> IsSelf(t, Append(a, k), segments)
  <2>1. \A segments \in Path : segments[1] # e.self
    BY PathHead
  <2> QED BY <1>7, <2>1
<1>12. Len(Append(a, k)) > 1 => e.values # <<>>
  BY <1>10
<1>13. \A x : BoundIn(e.types, x) <=> HasLocal(t, Append(a, k), "Type", x)
  BY <1>9
<1>14. \A x : ~ BoundIn(e.values, x) /\ ~ HasLocal(t, Append(a, k), "Value", x)
  BY <1>9
<1> QED BY <1>5, <1>6, <1>11, <1>12, <1>13, <1>14 DEF Fits

(* The whole of a file leads back to where its walk began.                   *)
LEMMA FileLeads ==
  ASSUME NEW t, IsFile(t), NEW a \in DOMAIN t, \A i : i \notin Outward(a), t[a].node = "file",
         NEW e \in Env, \A x : ~ BoundIn(e.values, x) /\ ~ BoundIn(e.types, x),
         e.pos = "Other", e.self \notin Identifier, e.enclosing = Container(t, a), e.module = ModuleOf(t, a)
  PROVE  Leads(t, e, AllParts(t, a), e)
<1>1. t[a].kids \in Nat
  BY FileFacts
<1>2. 1 \in 1 .. t[a].kids + 1 /\ t[a].kids \in 1 - 1 .. t[a].kids
  BY <1>1
<1>3. ASSUME NEW k \in 1 .. t[a].kids + 1
      PROVE  Extend(e, BoundNames(t, Before(t, a, 1, k))) = e
  <2>1. \A j \in 1 .. k - 1 : j \in 1 .. t[a].kids
    BY <1>1
  <2>2. \A j \in 1 .. k - 1 : Introduced(t, Append(a, j)) = {}
    BY <2>1, NoneIn
  <2>3. Before(t, a, 1, k) = {}
    BY <2>2 DEF Before
  <2>4. BoundNames(t, {}) = {} /\ {} \in SUBSET STRING
    BY DEF BoundNames
  <2> QED BY <2>3, <2>4, ExtendLaws
<1>4. \A k \in 1 .. t[a].kids : Fits(t, Extend(e, BoundNames(t, Before(t, a, 1, k))), Append(a, k))
  <2>1. \A k \in 1 .. t[a].kids : k \in 1 .. t[a].kids + 1
    BY <1>1
  <2>2. \A k \in 1 .. t[a].kids : Fits(t, e, Append(a, k))
    BY TopFits
  <2> QED BY <1>3, <2>1, <2>2
<1>5. Leads(t, e, Parts(t, a, 1, t[a].kids), Extend(e, BoundNames(t, Before(t, a, 1, t[a].kids + 1))))
  BY <1>2, <1>4, LeadsAlong
<1>6. t[a].kids + 1 \in 1 .. t[a].kids + 1
  BY <1>1
<1> QED BY <1>3, <1>5, <1>6 DEF AllParts

(* The invariant holds as the walk of a file begins.                         *)
LEMMA ScopingAtFirst ==
  ASSUME Init
  PROVE  Scoping
<1> DEFINE a == <<>>
<1>1. file \in Files /\ todo = AllParts(file, a) /\ marked = {}
  BY DEF Init
<1>2. IsFile(file)
  BY <1>1, FilesAreRust
<1>3. a \in DOMAIN file /\ file[a].node = "file" /\ Len(a) = 0 /\ \A i : i \notin Outward(a)
  BY <1>2 DEF IsFile, Outward
<1>4. Now = AtFirst
  BY DEF Init, Now, AtFirst
<1> HIDE DEF a
<1>5. Leads(file, AtFirst, AllParts(file, a), AtFirst)
  <2> DEFINE e == AtFirst
  <2>1. /\ e \in Env /\ \A x : ~ BoundIn(e.values, x) /\ ~ BoundIn(e.types, x)
        /\ e.pos = "Other" /\ e.self \notin Identifier /\ e.enclosing = {} /\ e.module = "top"
    BY AtFirstIs DEF Identifier
  <2>3. ModuleOf(file, a) = "top" /\ Container(file, a) = {}
    <3>1. a \in Address
      BY <1>2, <1>3, FileFacts
    <3> QED BY <1>3, <3>1, RootIs
  <2> HIDE DEF e
  <2>2. Leads(file, e, AllParts(file, a), e)
    BY <1>2, <1>3, <2>1, <2>3, FileLeads
  <2> QED BY <2>2 DEF e
<1>6. OnCourse
  BY <1>1, <1>4, <1>5 DEF OnCourse
<1>7. MarkedRight
  BY <1>1 DEF MarkedRight
<1>8. MarkedAll
  <2>1. SUFFICES ASSUME NEW b \in DOMAIN file, Len(b) > 0
                 PROVE  \E k \in ToSet(todo) : Awaits(k, b)
    BY DEF MarkedAll
  <2>2. a \in Address /\ b \in Address
    BY <1>2, <1>3, FileFacts
  <2>3. IsPrefix(a, b) /\ b # a
    <3>1. SubSeq(b, 1, 0) = a
      <4>1. SubSeq(b, 1, 0) = <<>>
        BY <2>2 DEF Address
      <4> QED BY <4>1 DEF a
    <3>2. Len(a) <= Len(b)
      BY <1>3, <2>1, <2>2 DEF Address
    <3>3. SubSeq(b, 1, Len(a)) = a
      BY <1>3, <3>1
    <3>4. b # a
      BY <1>3, <2>1
    <3> QED BY <2>2, <3>2, <3>3, <3>4, PrefixIs
  <2>4. IsPrefix(Append(a, b[Len(a) + 1]), b)
    BY <2>2, <2>3, PrefixSteps
  <2>5. b[Len(a) + 1] \in 1 .. file[a].kids
    <3>1. Len(a) \in Outward(b)
      BY <1>3, <2>1, <2>2 DEF Outward, Address
    <3>2. SubSeq(b, 1, Len(a)) = a
      BY <2>2, <2>3, PrefixSteps
    <3> QED BY <1>2, <3>1, <3>2, FileFacts DEF Above
  <2> DEFINE j == b[Len(a) + 1]
             k == Task(file, Append(a, j))
  <2>6. k \in ToSet(todo)
    <3>1. Kids(file, a) \subseteq ToSet(AllParts(file, a))
      BY <1>2, <1>3, KidsAmong
    <3> QED BY <1>1, <2>5, <3>1 DEF Kids
  <2>7. k.do \in {"visit", "bind"} /\ k.at = Append(a, j)
    BY DEF Task
  <2> HIDE DEF k, j
  <2>8. Awaits(k, b)
    BY <2>4, <2>7 DEF Awaits, j
  <2> QED BY <2>6, <2>8
<1> QED BY <1>6, <1>7, <1>8 DEF Scoping

-------------------------------------------------------------------------------
(* Theorems *)

(* In every reachable state the walk is on course: what is left to do leads  *)
(* back to the beginning, what is recorded is right, and what is not         *)
(* recorded is yet to be met.                                                *)
THEOREM Invariance == Spec => []Scoping
<1>1. Init => Scoping
  BY ScopingAtFirst
<1>2. Scoping /\ [Next]_vars => Scoping'
  <2>1. SUFFICES ASSUME Scoping, [Next]_vars PROVE Scoping'
    OBVIOUS
  <2>2. CASE VisitItem \/ VisitMod
    BY <2>1, <2>2, ItemStep
  <2>3. CASE VisitImpl
    BY <2>1, <2>3, ImplStep
  <2>4. CASE VisitUse \/ VisitTokens
    BY <2>1, <2>4, LeafStep
  <2>5. CASE VisitMember \/ VisitConstruct
    BY <2>1, <2>5, ScopeStep
  <2>6. CASE Open \/ Close \/ LeavePosition \/ EnterMembers \/ Restore
    BY <2>1, <2>6, ReturnStep
  <2>7. CASE VisitPath
    BY <2>1, <2>7, PathStep
  <2>8. CASE BindIdent
    BY <2>1, <2>8, IdentStep
  <2>9. CASE BindParts
    BY <2>1, <2>9, PatternStep
  <2>10. CASE UNCHANGED vars
    BY <2>1, <2>10 DEF vars, Scoping, OnCourse, MarkedRight, MarkedAll, Right, Now, AtFirst
  <2> QED BY <2>1, <2>2, <2>3, <2>4, <2>5, <2>6, <2>7, <2>8, <2>9, <2>10 DEF Next
<1> QED BY <1>1, <1>2, PTL DEF Spec

(* The two stacks of scopes grow and shrink together, a pattern is bound     *)
(* with one open, and the walk of every file leaves everything as it found   *)
(* it (src/resolve.rs:2115-2137, 2289-2303).                                 *)
THEOREM TypeCorrect == Spec => []TypeOK
<1>1. Scoping => TypeOK
  <2>1. SUFFICES ASSUME Scoping PROVE TypeOK
    OBVIOUS
  <2>2. Now \in Env /\ (todo = <<>> => Now = AtFirst)
    BY <2>1, LeadsOn DEF Scoping, OnCourse
  <2>3. /\ Now.values = values /\ Now.types = types /\ Now.pos = pos /\ Now.self = self
        /\ Now.enclosing = enclosing /\ Now.module = module
        /\ pos \in Spaces /\ enclosing \in SUBSET Collected /\ Len(values) = Len(types)
    BY <2>2, NowIs
  <2>4. Doing("bind") => values # <<>>
    <3>1. SUFFICES ASSUME Doing("bind") PROVE values # <<>>
      OBVIOUS
    <3>2. /\ IsFile(file) /\ At \in DOMAIN file /\ Len(At) > 0 /\ Fits(file, Now, At)
          /\ Node.node \in Patterns
      BY <2>1, <3>1, Met DEF Scoping
    <3>3. file[At].node \notin Boundaries \cup {"use", "macro", "attribute"}
      BY <3>2 DEF Node, Boundaries, Patterns, Plain
    <3> QED BY <2>3, <3>2, <3>3, Deep
  <2>5. Done => values = <<>> /\ pos = "Other" /\ self = "" /\ enclosing = {} /\ module = "top"
    BY <2>2, <2>3, AtFirstIs DEF Done
  <2> QED BY <2>3, <2>4, <2>5 DEF TypeOK, Spaces
<1> QED BY <1>1, Invariance, PTL

(* What is recorded of a file is every name that RustScopes has for an       *)
(* item's, for the item it is written in (a root when directly in a module)  *)
(* and looked up in its module, and no name of a local, unless a pattern was *)
(* in doubt (src/resolve.rs:2139-2193, 2283-2515).                           *)
THEOREM MentionsAreExactAlways == Spec => []MentionsAreExact
<1>1. Scoping => MentionsAreExact
  <2>1. SUFFICES ASSUME Scoping, Done PROVE Mentions(file) \subseteq marked /\ \A r \in marked \ Mentions(file) : InDoubt(file, r)
    BY DEF MentionsAreExact
  <2>2. IsFile(file)
    BY <2>1, FilesAreRust DEF Scoping, OnCourse
  <2>3. \A r \in marked \ Mentions(file) : InDoubt(file, r)
    BY <2>1 DEF Scoping, MarkedRight, Right
  <2>4. ToSet(todo) = {}
    BY <2>1, NothingInEmpty DEF Done
  <2>5. ASSUME NEW b \in DOMAIN file PROVE MentionsAt(file, b) \subseteq marked
    <3>1. CASE Len(b) > 0
      BY <2>1, <2>4, <3>1 DEF Scoping, MarkedAll
    <3>2. CASE ~ (Len(b) > 0)
      <4>1. b \in Address
        BY <2>2, FileFacts
      <4>2. b = <<>>
        BY <3>2, <4>1 DEF Address
      <4>3. file[b].node = "file"
        BY <2>2, <4>2 DEF IsFile
      <4>4. MentionsAt(file, b) = {}
        BY <2>2, <4>3, OtherMentions
      <4> QED BY <4>4
    <3> QED BY <3>1, <3>2
  <2>6. Mentions(file) \subseteq marked
    BY <2>5 DEF Mentions
  <2> QED BY <2>3, <2>6
<1> QED BY <1>1, Invariance, PTL
==============================================================================
