------------------------------ MODULE RustScopes ------------------------------
(*****************************************************************************)
(* Which names of a Rust file are locals and which name items, and on whose  *)
(* behalf, told from where each stands.  A file is a tree, given as one      *)
(* function from the addresses of its nodes: the root is at <<>>, and the    *)
(* k-th part of the node at `at` is at Append(at, k), parts being counted in *)
(* the order src/resolve.rs visits them.  LexicalScopes walks such a file    *)
(* part by part.                                                             *)
(*                                                                           *)
(* The rules are Rust's but for three readings taken from the walk: a        *)
(* parameter is seen by the rest of its signature (SeesBefore), every path   *)
(* in `impl S` that starts with S is a self-reference (IsSelf), and names in *)
(* a module inside a function body are looked up in the module around the    *)
(* body (ModuleOf).                                                          *)
(*****************************************************************************)
EXTENDS Naturals, Sequences, SequencesExt

CONSTANTS Collected,  \* module and name of what the table has: items and imports
          MayName,    \* pattern_may_name_item, the modules and names it says yes to
          Constants,  \* of those, what a pattern does name
          Owners,     \* owner_defs, of the types and traits an impl spells
          BareMeans   \* bare_name_means: module, qualified path, last name

(* pattern_may_name_item is certain of the names it calls bindings. *)
ASSUME PatternsAreCautious == Constants \subseteq MayName

ASSUME OwnersAreCollected == \A path \in DOMAIN Owners : Owners[path] \subseteq Collected

-------------------------------------------------------------------------------
(* Nodes *)

Identifier == STRING \ {""}
Path       == Seq(Identifier) \ {<<>>}
Generics   == Seq([space : {"Value", "Type"}, name : Identifier])

Plain        == {"ident", "unpack", "either"}
Patterns     == Plain \cup {"typed", "guarded"}
Boundaries   == {"item", "impl", "mod"}
Constructs   == {"block", "arm", "closure", "while", "if", "for", "let", "case", "chain", "exprs"}
(* What hands the names below it on to what stands beside it. *)
Introducers  == Patterns \cup {"let", "case", "chain"}

(* An impl has its trait, self type and bounds first, `heads` of them; a     *)
(* pattern is `forced` to bind by `ref`, `mut` or `x @ p`.                   *)
Nodes ==
       [node : {"file"}, spliced : BOOLEAN, kids : Nat]
  \cup [node : {"item"}, name : Identifier, generics : Generics, kids : Nat]
  \cup [node : {"mod"}, name : Identifier, generics : {<<>>}, kids : Nat]
  \cup [node : {"impl"}, segments : DOMAIN Owners \cap Path, trait : DOMAIN Owners,
        generics : Generics, heads : Nat, kids : Nat]
  \cup [node : {"member"}, generics : Generics, kids : Nat]
  \cup [node : Constructs \cup {"typed", "either", "guarded"}, kids : Nat]
  \cup [node : {"path"}, space : {"Value", "Type", "Bare"}, segments : Path, kids : Nat]
  \cup [node : {"macro"}, segments : Path, tokens : Seq(Identifier), kids : {0}]
  \cup [node : {"attribute"}, tokens : Seq(Identifier), kids : {0}]
  \cup [node : {"use"}, name : Identifier, kids : {0}]
  \cup [node : {"ident"}, name : Identifier, forced : BOOLEAN, kids : Nat]
  \cup [node : {"unpack"}, segments : Path, kids : Nat]

Outward(at) == 0 .. Len(at) - 1
Above(t, at, i) == t[SubSeq(at, 1, i)]
Innermost(places) == CHOOSE i \in places : \A j \in places : j <= i

-------------------------------------------------------------------------------
(* Items *)

(* visit_generics: type parameters are types, const parameters values. *)
Params(n, space) == {g.name : g \in {p \in ToSet(n.generics) : p.space = space}}

(* The table has the items of a module, not of a body (collect_items); of a  *)
(* file that is only spliced in it has none.                                 *)
InTable(t, at) == ~ t[<<>>].spliced /\ \A i \in Outward(at) \ {0} : Above(t, at, i).node = "mod"

(* The module a name is looked up in: the innermost of the file that the     *)
(* table has, none of the others being at the path of one elsewhere.         *)
ModuleOf(t, at) ==
  LET mods == {i \in Outward(at) \ {0} : Above(t, at, i).node = "mod" /\ InTable(t, SubSeq(at, 1, i))}
  IN  IF mods = {} THEN "top" ELSE Above(t, at, Innermost(mods)).name

(* A path in the members of an impl that starts as its type does. *)
IsSelf(t, at, segments) ==
  LET impls == {i \in Outward(at) : Above(t, at, i).node = "impl" /\ at[i + 1] > Above(t, at, i).heads}
      type  == Above(t, at, Innermost(impls)).segments
  IN  /\ impls # {}
      /\ segments[1] = Last(type)
      /\ Len(type) = 1 \/ <<ModuleOf(t, at), type, segments[1]>> \in BareMeans

-------------------------------------------------------------------------------
(* Locals *)

(* The names a pattern or a condition introduces, each by its address. *)
Introduced(t, at) ==
  {b \in DOMAIN t : /\ t[b].node = "ident"
                    /\ IsPrefix(at, b)
                    /\ \A i \in Len(at) .. Len(b) - 1 : Above(t, b, i).node \in Introducers}

(* Which of its parts see what the parts before them introduce: the          *)
(* statements of a block after a `let`, what is right of a condition, what   *)
(* is right of or below a pattern; but not the `else` of an `if`.  Of a      *)
(* parameter the rest of the signature does too, as the walk has it.         *)
SeesBefore(n, k) ==
  \/ n.node \in {"block", "chain", "item", "member", "closure", "arm", "for", "guarded", "while"}
  \/ n.node = "if" /\ k = 2

Sees(t, at, k) ==
  IF SeesBefore(t[at], k) THEN UNION {Introduced(t, Append(at, j)) : j \in 1 .. k - 1} ELSE {}

(* A name is local if a construct around it, as far out as the nearest item, *)
(* has a local or a parameter of that name for the part it stands in.        *)
HasLocal(t, at, space, name) ==
  \E i \in Outward(at) :
     /\ \A j \in Outward(at) : j > i => Above(t, at, j).node \notin Boundaries
     /\ \/ /\ space = "Value"
           /\ <<ModuleOf(t, at), name>> \notin Constants
           /\ \E b \in Sees(t, SubSeq(at, 1, i), at[i + 1]) : t[b].name = name
        \/ /\ Above(t, at, i).node \in {"item", "impl", "member"}
           /\ name \in Params(Above(t, at, i), space)

IsLocal(t, at, space, segments) == Len(segments) = 1 /\ HasLocal(t, at, space, segments[1])

-------------------------------------------------------------------------------
(* Files *)

(* Among the generic arguments of a path, bodies written there included. *)
InArguments(t, at) ==
  \E i \in Outward(at) :
     /\ Above(t, at, i).node = "path" /\ Above(t, at, i).space # "Bare"
     /\ \A j \in Outward(at) : j > i => Above(t, at, j).node \notin Boundaries \cup Patterns

(* Where a node may stand: what the grammar of Rust has as k-th part of p.   *)
Stands(n, p, k) ==
  /\ n.node # "file"
  /\ p.node = "file" => n.node \in Boundaries \cup {"use", "macro", "attribute"}
  /\ n.node = "let" => p.node = "block"
  /\ n.node \in {"case", "chain"} => p.node = "chain" \/ (p.node \in {"if", "while"} /\ k = 1)
  /\ n.node = "guarded" => p.node = "arm"
  /\ n.node \in Patterns =>
       \/ p.node \in {"item", "member", "closure"} \cup Plain
       \/ p.node \in {"let", "case"} /\ k = p.kids
       \/ p.node \in {"arm", "guarded"} /\ k = 1
       \/ p.node \in {"for", "typed"} /\ k = 2
  /\ p.node \in Plain \/ (p.node = "typed" /\ k = 2) => n.node \in Plain

(* How many parts a node has. *)
HasItsParts(n) ==
  /\ n.node \in {"while", "typed", "guarded"} => n.kids = 2
  /\ n.node \in {"if", "for"} => n.kids >= 2
  /\ n.node \in {"let", "case"} => n.kids >= 1
  /\ n.node = "impl" => n.heads <= n.kids

(* Left out, as nodes the walk is known to read otherwise: a struct literal  *)
(* among the arguments of a path, and a macro named as the type of the impl  *)
(* around it.  That a name forced to bind is no constant's, rustc sees to.   *)
AsRead(t, at) ==
  LET n == t[at]
  IN  /\ n.node = "path" /\ n.space = "Bare" => ~ InArguments(t, at)
      /\ n.node = "macro" => ~ IsSelf(t, at, n.segments)
      /\ n.node = "ident" /\ n.forced => <<ModuleOf(t, at), n.name>> \notin Constants

IsFile(t) ==
  /\ <<>> \in DOMAIN t /\ t[<<>>].node = "file"
  /\ \A at \in DOMAIN t :
       /\ at \in Seq(Nat \ {0}) /\ t[at] \in Nodes /\ HasItsParts(t[at])
       /\ \A k \in 1 .. t[at].kids : Append(at, k) \in DOMAIN t /\ Stands(t[Append(at, k)], t[at], k)
       /\ \A i \in Outward(at) : SubSeq(at, 1, i) \in DOMAIN t /\ at[i + 1] \in 1 .. Above(t, at, i).kids
       /\ AsRead(t, at)

-------------------------------------------------------------------------------
(* What is named, and for whom *)

(* What keeps alive what a name keeps alive: the item it is written in, and  *)
(* for an impl its type or its trait, unless it is an impl of any type.  A   *)
(* `mod` is no such item: what is written directly in it counts on its own.  *)
Container(t, at) ==
  LET items == {i \in Outward(at) : Above(t, at, i).node \in Boundaries}
      i     == Innermost(items)
      n     == Above(t, at, i)
      here  == SubSeq(at, 1, i)
  IN  CASE items = {} -> {}
        [] items # {} /\ n.node = "impl" ->
             IF IsLocal(t, Append(here, 1), "Type", n.segments) \/ Owners[n.segments] = {} THEN {}
             ELSE Owners[n.segments] \cup Owners[n.trait]
        [] items # {} /\ n.node = "item" /\ InTable(t, here) -> {<<ModuleOf(t, here), n.name>>} \cap Collected
        [] OTHER -> {}

(* What a path or a token stands for is the table's to say; the walk records *)
(* where it stands, on whose behalf, and the module it is looked up in.  A   *)
(* `use` names on behalf of its alias, in spliced files too.                 *)
AsRoots(names, at) == {[at |-> Append(at, i), from |-> {}, module |-> "any"] : i \in DOMAIN names}

NamesAnItem(t, at) ==
  LET n == t[at]
  IN  CASE n.node = "path"   -> ~ IsSelf(t, at, n.segments) /\ ~ IsLocal(t, at, n.space, n.segments)
        [] n.node = "unpack" -> ~ IsSelf(t, at, n.segments)
        [] n.node = "ident"  -> <<ModuleOf(t, at), n.name>> \in Constants
        [] OTHER             -> n.node \in {"macro", "use"}

MentionsAt(t, at) ==
  LET n    == t[at]
      m    == ModuleOf(t, at)
      from == IF n.node = "use" THEN {<<m, n.name>>} \cap Collected ELSE Container(t, at)
  IN  (IF NamesAnItem(t, at) THEN {[at |-> at, from |-> from, module |-> m]} ELSE {})
        \cup (IF n.node \in {"macro", "attribute"} THEN AsRoots(n.tokens, at) ELSE {})

Mentions(t) == UNION {MentionsAt(t, at) : at \in DOMAIN t}

(* A name is in doubt where a pattern that binds it might have named an item *)
(* instead, and its later uses with it.                                      *)
InDoubt(t, r) ==
  LET n    == t[r.at]
      name == IF n.node = "ident" THEN n.name ELSE n.segments[1]
  IN  <<ModuleOf(t, r.at), name>> \in MayName \ Constants
===============================================================================
