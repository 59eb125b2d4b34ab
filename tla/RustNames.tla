------------------------------ MODULE RustNames ------------------------------
(*****************************************************************************)
(* What rustc takes the names of a workspace to mean, build by build: the    *)
(* rule the resolution of src/resolve.rs is measured against.  Namespaces    *)
(* are apart, what a module declares or imports by name comes before what    *)
(* its globs bring, and private names are seen from below only.              *)
(*                                                                           *)
(* A module is its crate followed by the names that lead to it; a path is    *)
(* [absolute, segments]; a `use` tree is written as the syntax has it.       *)
(*****************************************************************************)
EXTENDS Sequences, SequencesExt, FiniteSets, Naturals

CrateOf(m)  == <<m[1]>>
Under(m, n) == IsPrefix(m, n)          \* n is m or inside it

(* The leaves of a `use` tree: the names it binds and the globs.  `self`     *)
(* stands for the prefix, `as _` binds nothing.                              *)
RECURSIVE Leaves(_, _)
Leaves(tree, prefix) ==
  CASE tree.node = "path"   -> Leaves(tree.rest, Append(prefix, tree.name))
    [] tree.node = "group"  -> FlattenSeq([i \in DOMAIN tree.members |-> Leaves(tree.members[i], prefix)])
    [] tree.node = "glob"   -> <<[glob |-> TRUE, alias |-> "_", segments |-> prefix]>>
    [] tree.node = "name" /\ tree.name = "self" ->
         <<[glob |-> FALSE, alias |-> Last(prefix), segments |-> prefix]>>
    [] tree.node = "name"   ->
         <<[glob |-> FALSE, alias |-> tree.name, segments |-> Append(prefix, tree.name)]>>
    [] tree.node = "rename" ->
         <<[glob |-> FALSE, alias |-> tree.as,
            segments |-> IF tree.name = "self" THEN prefix ELSE Append(prefix, tree.name)]>>

PathOf(decl, leaf) == [absolute |-> decl.absolute, segments |-> leaf.segments]
LeavesOf(decl) == ToSet(Leaves(decl.tree, <<>>))

(* The namespaces an item binds its name in. *)
NamespacesOf(kind) ==
  CASE kind \in {"Fn", "Const", "Static"}   -> {"Value"}
    [] kind = "UnitStruct"                  -> {"Type", "Value"}
    [] OTHER                                -> {"Type"}

-------------------------------------------------------------------------------
(* One build: of the declarations behind a #[cfg], those it has.             *)
AllDecls(files) == UNION {ToSet(f.items) : f \in ToSet(files)}
RECURSIVE Exists(_, _)
Exists(present, m) ==
  Len(m) = 1 \/ /\ \E d \in present : d.form = "mod" /\ Append(d.in, d.name) = m
                /\ Exists(present, Front(m))
World(p, chosen) ==
  LET present == {d \in AllDecls(p.files \o p.spliced) : d.gated => d \in chosen}
  IN  [decls |-> {d \in present : Exists(present, d.in)}, prelude |-> p.prelude,
       rooted |-> p.edition = 2015, blind |-> FALSE]
Worlds(p) == {World(p, chosen) : chosen \in SUBSET {d \in AllDecls(p.files \o p.spliced) : d.gated}}

(* A binding: in module `in`, `name` means `to` in namespace ns; `via` are   *)
(* the imports by name it goes through.                                      *)
Site(decl, name) == <<decl.line, name>>
ToItem(d)   == [item |-> TRUE, at |-> Site(d, d.name)]
ToModule(m) == [item |-> FALSE, at |-> m]
Spaces == {"Type", "Value"}
Binding(m, name, ns, to, pub, via) == [in |-> m, name |-> name, ns |-> ns, to |-> to, pub |-> pub, via |-> via]
Meaning(to, via) == [to |-> to, via |-> via]
CrateNamed(w, m, name) == {<<e.crate>> : e \in {x \in w.prelude : x.in = m[1] /\ x.name = name}}

(* The segments from module `at` on, written in module m, under the bindings *)
(* known.  What follows an item is an associated item of it.                 *)
RECURSIVE Follow(_, _, _, _, _)
Follow(known, m, at, segments, ns) ==
  IF segments = <<>> THEN {Meaning(ToModule(at), {})}
  ELSE LET space == IF Len(segments) = 1 THEN ns ELSE "Type"
           seen  == {b \in known : b.in = at /\ b.name = segments[1] /\ b.ns = space /\ (b.pub \/ Under(at, m))}
       IN  IF Len(segments) = 1 THEN {Meaning(b.to, b.via) : b \in seen}
           ELSE UNION { IF b.to.item THEN {Meaning(b.to, b.via)}
                        ELSE {Meaning(e.to, e.via \cup b.via) :
                                e \in Follow(known, m, b.to.at, Tail(segments), ns)}
                        : b \in seen }

(* What a path written in module m names. *)
Means(w, known, m, path, ns, inUse) ==
  LET head == path.segments[1]
      tail == Tail(path.segments)
      ups  == Len(SelectSeq(path.segments, LAMBDA s : s = "super"))
      from(at, rest) == Follow(known, m, at, rest, ns)
      outer == UNION {from(c, tail) : c \in CrateNamed(w, m, head)}
  IN  CASE path.absolute /\ ~w.rooted -> outer
        [] head = "crate"  -> from(CrateOf(m), tail)
        [] head = "self" /\ ups = 0 -> from(m, tail)
        [] head \in {"self", "super"} ->
             IF ups >= Len(m) THEN {}
             ELSE from(SubSeq(m, 1, Len(m) - ups),
                       SelectSeq(path.segments, LAMBDA s : s \notin {"self", "super"}))
        [] head = "Self"   -> {}
        [] OTHER           ->
             LET start  == IF w.rooted /\ (inUse \/ path.absolute) THEN CrateOf(m) ELSE m
                 scoped == from(start, path.segments)
                 inScope(space) == \E b \in known : b.in = start /\ b.name = head /\ b.ns = space
             IN  IF inScope("Type") \/ (tail = <<>> /\ inScope(ns)) THEN scoped ELSE outer

TopUses(w) == {d \in w.decls : d.form = "use" /\ d.top}

(* What every module declares or imports by name. *)
Declared(w, known) ==
       UNION {{Binding(d.in, d.name, ns, ToItem(d), d.pub, {}) : ns \in NamespacesOf(d.kind)} :
              d \in {x \in w.decls : x.form = "item"}}
  \cup {Binding(d.in, d.name, "Type", ToModule(Append(d.in, d.name)), d.pub, {}) :
          d \in {x \in w.decls : x.form = "mod"}}
  \cup UNION {{Binding(d.in, d.name, "Type", ToModule(c), d.pub, {}) : c \in CrateNamed(w, d.in, d.crate)} :
              d \in {x \in w.decls : x.form = "extern"}}
  \cup UNION {UNION {UNION {{Binding(d.in, l.alias, ns, e.to, d.pub, e.via \cup {Site(d, l.alias)}) :
                               e \in Means(w, known, d.in, PathOf(d, l), ns, TRUE)} : ns \in Spaces}
                     : l \in {x \in LeavesOf(d) : ~x.glob /\ x.alias # "_"}} : d \in TopUses(w)}

(* The modules the globs of each name. *)
GlobLinks(w, known) ==
  UNION {UNION {{[in |-> d.in, from |-> e.to.at, pub |-> d.pub] :
                   e \in {x \in Means(w, known, d.in, PathOf(d, l), "Type", TRUE) : ~x.to.item}}
                : l \in {x \in LeavesOf(d) : x.glob}} : d \in TopUses(w)}

(* What one of them brings in: what may be seen from there, or with `blind`  *)
(* all.                                                                      *)
Brought(w, known, g) ==
  {[b EXCEPT !.in = g.in, !.pub = g.pub] :
     b \in {x \in known : x.in = g.from /\ (x.pub \/ w.blind \/ Under(g.from, g.in))}}

(* The bindings, from none at all until they are settled: what a module      *)
(* declares comes before what its globs bring.                               *)
Fuel == 12
OverGlobs(declared, brought) ==
  declared \cup {b \in brought : ~\E d \in declared : d.in = b.in /\ d.name = b.name /\ d.ns = b.ns}
RECURSIVE Settle(_, _, _, _)
Settle(w, known, next, fuel) ==
  IF next = known \/ fuel = 0 THEN known
  ELSE Settle(w, next, OverGlobs(Declared(w, next), UNION {Brought(w, next, g) : g \in GlobLinks(w, next)}),
              fuel - 1)
Bindings(w) == Settle(w, {}, Declared(w, {}), Fuel)

(* A name that two globs bring in different meanings is not one that         *)
(* compiles.                                                                 *)
OneMeaning(all) == IF Cardinality({e.to : e \in all}) = 1 THEN all ELSE {}
Named(w, known, m, path, ns, inUse) == OneMeaning(Means(w, known, m, path, ns, inUse))

-------------------------------------------------------------------------------
(* A workspace that compiles: every declaration is in some build, a name is  *)
(* declared twice only in different namespaces or under a #[cfg], and what   *)
(* is imported from the workspace is there in some build.                    *)
DeclaredIn(d) == IF d.form = "item" THEN NamespacesOf(d.kind) ELSE {"Type"}
Compiles(p, foreign) ==
  LET decls  == AllDecls(p.files \o p.spliced)
      builds == {<<w, Bindings(w)>> : w \in Worlds(p)}
  IN  /\ World(p, decls).decls = decls
      /\ \A d, e \in {x \in decls : x.form # "use"} :
           d # e /\ d.in = e.in /\ d.name = e.name /\ ~d.gated /\ ~e.gated => DeclaredIn(d) \cap DeclaredIn(e) = {}
      /\ \A d \in {x \in decls : x.form = "use"} : \A l \in {x \in LeavesOf(d) : x.segments[1] \notin foreign} :
           \E b \in builds, ns \in Spaces : d \in b[1].decls /\ Named(b[1], b[2], d.in, PathOf(d, l), ns, TRUE) # {}

(* Names kept apart: in no module does a name come from two places that mean *)
(* different things by it, private things included, except where what the    *)
(* module declares in every build takes the place of all its globs bring;    *)
(* and no glob brings the name of a crate.  Two bindings of a name are rivals*)
(* if their namespaces are a pair of `rivals`.                               *)
AnySpace  == Spaces \X Spaces
SameSpace == {<<ns, ns>> : ns \in Spaces}
NamesApart(w, known, declared, always, globs, crates, rivals) ==
  LET rival(b, d) == b.name = d.name /\ <<b.ns, d.ns>> \in rivals
      meant(g, b) == {<<d.ns, d.to>> : d \in {x \in Brought(w, known, g) : rival(b, x)}}
  IN  \A g \in globs : \A b \in Brought(w, known, g) :
        /\ (\E d \in declared : d.in = b.in /\ rival(b, d)) => <<b.in, b.name, b.ns>> \in always
        /\ \A h \in globs : g.in = h.in => meant(h, b) \in {{}, meant(g, b)}
        /\ \A e \in crates : b.in[1] = e.in => b.name # e.name
ApartIn(w, known, always, crates, rivals) ==
  NamesApart(w, known, Declared(w, known), always, GlobLinks(w, known), crates, rivals)
BoundIn(w) == {<<b.in, b.name, b.ns>> : b \in Declared(w, Bindings(w))}
(* Everything at once, private names included; with Lifted, a `use` in the   *)
(* body of a function as one of the module.                                  *)
Entire(p) == [World(p, AllDecls(p.files \o p.spliced)) EXCEPT !.blind = TRUE]
Lifted(w) == [w EXCEPT !.decls = {IF d.form = "use" THEN [d EXCEPT !.top = TRUE] ELSE d : d \in @}]
KeptApart(p, w, rivals) == ApartIn(w, Bindings(w), BoundIn(World(p, {})), p.prelude, rivals)
===============================================================================
