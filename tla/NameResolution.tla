--------------------------- MODULE NameResolution ---------------------------
(*****************************************************************************)
(* How src/resolve.rs finds out what a path names.  SymbolTable::build       *)
(* collects the declarations of every file, points the globs at modules in   *)
(* rounds, and then asks every import which namespaces it binds; the         *)
(* finished table answers every path the reference walk meets.               *)
(*                                                                           *)
(* A module is its crate followed by the names that lead to it (its key in   *)
(* by_path); a definition is its index.  What a path reaches and the names   *)
(* it loses are the `path` of a Mention in SymbolTables.                     *)
(*****************************************************************************)
EXTENDS RustNames

CONSTANTS Projects,        \* workspaces under analysis
          Mentions,        \* paths written in them, each in a module
          Consumers,       \* paths that code outside may write
          MaxAliasDepth,   \* MAX_ALIAS_DEPTH
          MaxFanoutDepth,  \* MAX_FANOUT_DEPTH
          None             \* no child, no target, no answer

VARIABLES project,   \* the files of every crate; fixed
          pc,
          toCollect, \* files not yet collected
          items,     \* what is left of the file being collected
          defs,      \* SymbolTable::defs
          modules,   \* SymbolTable::modules, in the order they were made
          publics,   \* Module::declared_pub
          gatedGlobs,\* Module::has_gated_glob
          opaques,   \* Module::opaque
          globs,     \* glob imports as written: Module::globs
          sources,   \* where they lead: Module::glob_sources
          pending,   \* resolve_globs: left to try in this round
          stuck,     \* not resolved in this round
          size       \* how many the round began with

collectVars == <<toCollect, items, defs, modules, publics, gatedGlobs, globs>>
globVars    == <<sources, pending, stuck, size, opaques>>
vars        == <<project, pc, collectVars, globVars>>

Kinds == {"Fn", "Const", "Static", "Struct", "UnitStruct", "Enum", "Trait", "TypeAlias", "Union",
          "Mod", "Import", "Reexport"}
IsAlias(d) == d.kind \in {"Import", "Reexport"}

(* DefKind::namespace, with the fields of a struct read as describe does. *)
NamespaceOf(kind) ==
  CASE kind \in {"Fn", "Const", "Static"}                  -> "Value"
    [] kind \in {"UnitStruct", "Import", "Reexport"}       -> "Both"
    [] OTHER                                               -> "Type"

(* The tiers of crate names: a name is a crate's if it alone claims it, as   *)
(* its own before as another name of it.                                     *)
Claimants(name) ==
  LET own == {c \in DOMAIN project.names : project.names[c] # <<>> /\ project.names[c][1] = name}
  IN  IF own # {} THEN own
      ELSE {c \in DOMAIN project.names : name \in ToSet(project.names[c])}
IsExtern(name)    == Cardinality(Claimants(name)) = 1
IsAmbiguous(name) == Cardinality(Claimants(name)) > 1
ExternRoot(name)  == <<CHOOSE c \in Claimants(name) : TRUE>>

Libraries == {c \in DOMAIN project.names : project.names[c] # <<>>}
Roots     == {<<c>> : c \in DOMAIN project.names}

Init ==
  /\ project \in Projects
  /\ pc = "collect"
  /\ toCollect = project.files \o project.spliced /\ items = <<>>
  /\ defs = <<>>
  /\ modules = SetToSeq(Roots)
  /\ publics = Roots
  /\ gatedGlobs = {} /\ opaques = {} /\ globs = <<>>
  /\ sources = <<>> /\ pending = <<>> /\ stuck = <<>> /\ size = 0

-------------------------------------------------------------------------------
(* Collection *)

(* A slip: a second declaration of a module makes a second module. *)
MadeAnew(m) == Append(modules, m)

(* module_for: the module and its ancestors, made if they are new. *)
Made(m) == modules \o SelectSeq([i \in 1 .. Len(m) |-> SubSeq(m, 1, i)],
                                LAMBDA n : n \notin ToSet(modules))

Def(d, name, kind, pub, child, target) ==
  [name |-> name, kind |-> kind, namespace |-> NamespaceOf(kind), line |-> d.line,
   module |-> d.in, pub |-> pub, child |-> child, target |-> target, rooted |-> "rooted" \in DOMAIN d]

(* Of a spliced file only the `use`s are collected, as imports of the module *)
(* guessed for it wherever in the file they stand, and each is a root.       *)
Spliced(f) == LET written == SelectSeq(f.items, LAMBDA d : d.form = "use")
              IN  [i \in DOMAIN written |->
                     [written[i] EXCEPT !.in = f.module, !.top = FALSE] @@ [rooted |-> TRUE]]

(* The files of the targets first, those spliced by a macro last: what is    *)
(* not known of their module is not claimed absent from it.                  *)
OpenFile ==
  /\ pc = "collect" /\ items = <<>> /\ toCollect # <<>>
  /\ toCollect' = Tail(toCollect)
  /\ LET f == Head(toCollect)
         guessed == f \in ToSet(project.spliced)
     IN  /\ items' = IF guessed THEN Spliced(f) ELSE f.items
         /\ modules' = Made(f.module)
         /\ opaques' = IF guessed THEN opaques \cup {f.module} ELSE opaques
  /\ UNCHANGED <<project, pc, defs, publics, gatedGlobs, globs, sources, pending, stuck, size>>

Collecting(form) ==
  /\ pc = "collect" /\ items # <<>> /\ Head(items).form = form
  /\ items' = Tail(items)
  /\ UNCHANGED <<project, pc, toCollect, globVars>>

(* add_module; the items of an inline module follow it. *)
AddModule ==
  /\ Collecting("mod")
  /\ LET d == Head(items)
         child == Append(d.in, d.name)
     IN  /\ modules' = Made(child)
         /\ publics' = IF d.pub THEN publics \cup {child} ELSE publics \ {child}
         /\ defs' = Append(defs, Def(d, d.name, "Mod", FALSE, child, None))
  /\ UNCHANGED <<gatedGlobs, globs>>

(* add_extern_crate *)
AddExternCrate ==
  /\ Collecting("extern")
  /\ LET d == Head(items)
     IN  defs' = IF IsExtern(d.crate)
                   THEN Append(defs, Def(d, d.name, "Mod", FALSE, ExternRoot(d.crate), None))
                   ELSE defs
  /\ UNCHANGED <<modules, publics, gatedGlobs, globs>>

(* add_item; the `use`s of its body follow it. *)
AddItem ==
  /\ Collecting("item")
  /\ LET d == Head(items) IN defs' = Append(defs, Def(d, d.name, d.kind, d.pub, None, None))
  /\ UNCHANGED <<modules, publics, gatedGlobs, globs>>

(* add_use: a definition for each name a leaf binds, a glob for each `*`. *)
AddUse ==
  /\ Collecting("use")
  /\ LET d == Head(items)
         leaves == Leaves(d.tree, <<>>)
         kind == IF d.pub /\ d.top THEN "Reexport" ELSE "Import"
         named == SelectSeq(leaves, LAMBDA l : ~l.glob /\ l.alias # "_")
         stars == SelectSeq(leaves, LAMBDA l : l.glob)
     IN  /\ defs' = defs \o [i \in DOMAIN named |->
                      Def(d, named[i].alias, kind, kind = "Reexport", None, PathOf(d, named[i]))]
         /\ globs' = globs \o [i \in DOMAIN stars |->
                      [in |-> d.in, path |-> PathOf(d, stars[i]), exported |-> d.pub /\ d.top]]
         /\ gatedGlobs' = IF d.gated /\ stars # <<>> THEN gatedGlobs \cup {d.in} ELSE gatedGlobs
  /\ UNCHANGED <<modules, publics>>

-------------------------------------------------------------------------------
(* Resolution: the table answers, in whatever state it is.                   *)

Ids          == 1 .. Len(defs)
Own(m, name) == SelectSeq([i \in Ids |-> i], LAMBDA i : defs[i].module = m /\ defs[i].name = name)
SourcesOf(m) == LET mine == SelectSeq(sources, LAMBDA s : s.in = m)
                IN  [i \in DOMAIN mine |-> mine[i].from]

(* Step: the definitions found, or whether some might be where we cannot see.*)
Answer(found, unknown, visited) == [defs |-> found, unknown |-> unknown, visited |-> visited]

(* lookup_in: the modules visited are those of every branch tried before.    *)
(* Past a gated glob every source answers, otherwise the first that does.    *)
RECURSIVE LookupIn(_, _, _), Ask(_, _, _, _)
Ask(m, name, from, sofar) ==
  IF from = <<>> \/ (sofar.defs # <<>> /\ m \notin gatedGlobs)
    THEN Answer(sofar.defs, sofar.unknown /\ sofar.defs = <<>>, sofar.visited)
  ELSE LET a == LookupIn(Head(from), name, sofar.visited)
       IN  Ask(m, name, Tail(from), Answer(sofar.defs \o a.defs, sofar.unknown \/ a.unknown, a.visited))
LookupIn(m, name, visited) ==
  IF m \in visited THEN Answer(<<>>, FALSE, visited)
  ELSE IF Own(m, name) # <<>> THEN Answer(Own(m, name), FALSE, visited \cup {m})
  ELSE Ask(m, name, SourcesOf(m), Answer(<<>>, m \in opaques, visited \cup {m}))

(* lookup and without: an import is not in scope for its own target. *)
Lookup(m, name, skip) ==
  LET a    == LookupIn(m, name, {})
      left == SelectSeq(a.defs, LAMBDA i : i # skip)
  IN  [defs |-> left, unknown |-> a.unknown]

Outcome(kind, module, index, reached) ==
  [kind |-> kind, module |-> module, index |-> index, reached |-> reached]

(* path_start: where the segments after the qualifiers are looked up. *)
PathStart(m, path) ==
  LET s  == path.segments
      up == Len(SelectSeq(s, LAMBDA n : n = "super"))   \* they come first
  IN  CASE path.absolute /\ IsAmbiguous(s[1]) -> Outcome("Opaque", None, 1, <<>>)
        [] path.absolute -> IF IsExtern(s[1]) THEN Outcome("Module", ExternRoot(s[1]), 2, <<>>)
                            ELSE Outcome("Foreign", None, 0, <<>>)
        [] s[1] = "crate" -> Outcome("Module", CrateOf(m), 2, <<>>)
        [] s[1] = "self"  -> Outcome("Module", m, 2, <<>>)
        [] s[1] = "super" -> IF up >= Len(m) THEN Outcome("Foreign", None, 0, <<>>)
                             ELSE Outcome("Module", SubSeq(m, 1, Len(m) - up), up + 1, <<>>)
        [] s[1] = "Self"  -> Outcome("Foreign", None, 0, <<>>)
        [] OTHER          -> Outcome("Module", m, 1, <<>>)
IsHead(path) == ~path.absolute /\ path.segments[1] \notin {"crate", "self", "super", "Self"}

RECURSIVE WalkPath(_, _, _, _, _), WalkFrom(_, _, _, _, _)

Into(found, depth, ends) ==
  LET into == {defs[i].child : i \in {j \in ToSet(found) : defs[j].kind = "Mod"}}
                \cup {e.module : e \in {x \in ends : x.kind = "Module"}}
  IN  CASE \/ Len(found) > 1 /\ depth > MaxFanoutDepth
           \/ \E e \in ends : e.kind = "Opaque"
           \/ Cardinality(into) > 1 -> [kind |-> "Unknown"]
        [] OTHER -> IF into = {} THEN [kind |-> "Item"]
                    ELSE [kind |-> "Module", module |-> CHOOSE n \in into : TRUE]

(* step_into: the module the definitions of a segment lead into, if one. *)
StepInto(found, depth) ==
  Into(found, depth, {WalkPath(defs[i].module, defs[i].target, TRUE, depth + 1, i) :
                        i \in {j \in ToSet(found) : IsAlias(defs[j])}})

(* The loop of walk_path: from segment `index`, looked up in `current`. *)
Beyond(w, index, reached, into) ==
  CASE into.kind = "Module" -> WalkFrom(w, into.module, index + 1, FALSE, reached)
    [] into.kind = "Item"   -> Outcome("Item", None, index + 1, reached)
    [] OTHER                -> Outcome(IF index < Len(w.segments) \/ w.depth > 0 THEN "Opaque" ELSE "Item",
                                       None, index + 1, reached)
Past(w, index, reached, step) ==
  IF step.defs # <<>>
    THEN Beyond(w, index, Append(reached, step.defs), StepInto(step.defs, w.depth))
  ELSE Outcome(IF step.unknown THEN "Opaque" ELSE "Foreign", None, index, reached)
AtSegment(w, index, head, reached, name, here) ==
  LET absent == head /\ here.defs = <<>> /\ ~here.unknown
  IN  IF absent /\ IsAmbiguous(name) THEN Outcome("Opaque", None, index, reached)
      ELSE IF absent /\ IsExtern(name) THEN WalkFrom(w, ExternRoot(name), index + 1, FALSE, reached)
      ELSE Past(w, index, reached,
                IF absent /\ w.inUse THEN Lookup(CrateOf(w.from), name, w.skip) ELSE here)
WalkFrom(w, current, index, head, reached) ==
  IF index > Len(w.segments) THEN Outcome("Module", current, index, reached)
  ELSE AtSegment(w, index, head, reached, w.segments[index], Lookup(current, w.segments[index], w.skip))

Onward(w, start, head) ==
  IF start.kind # "Module" THEN start ELSE WalkFrom(w, start.module, start.index, head, <<>>)
Walking(m, path, inUse, depth, skip) ==
  [from |-> m, segments |-> path.segments, inUse |-> inUse, depth |-> depth, skip |-> skip]

(* A slip: a chain too long to follow leads outside. *)
WalkPathGivesUp(m, path, inUse, depth, skip) ==
  IF depth > MaxAliasDepth \/ path.segments = <<>> THEN Outcome("Foreign", None, 0, <<>>)
  ELSE Onward(Walking(m, path, inUse, depth, skip), PathStart(m, path), IsHead(path))

(* walk_path *)
WalkPath(m, path, inUse, depth, skip) ==
  IF depth > MaxAliasDepth THEN Outcome("Opaque", None, 1, <<>>)
  ELSE IF path.segments = <<>> THEN Outcome("Foreign", None, 0, <<>>)
  ELSE Onward(Walking(m, path, inUse, depth, skip), PathStart(m, path), IsHead(path))

Walk(m, path, inUse) == WalkPath(m, path, inUse, 0, None)
(* What the last segment of a walk that got there names. *)
EndOf(w) == IF w.kind \in {"Item", "Module"} /\ w.reached # <<>> THEN Last(w.reached) ELSE <<>>

-------------------------------------------------------------------------------
(* resolve_globs: what is pending in the order of the modules, tried in      *)
(* rounds over a table that each answer extends.                             *)
EndCollect ==
  /\ pc = "collect" /\ toCollect = <<>> /\ items = <<>>
  /\ pc' = "globs"
  /\ pending' = FlattenSeq([i \in DOMAIN modules |-> SelectSeq(globs, LAMBDA g : g.in = modules[i])])
  /\ size' = Len(globs)
  /\ UNCHANGED <<project, collectVars, sources, stuck, opaques>>

TryGlob ==
  /\ pc = "globs" /\ pending # <<>>
  /\ LET g == Head(pending)
         w == Walk(g.in, g.path, TRUE)
     IN  IF w.kind = "Module"
           THEN /\ sources' = Append(sources, [in |-> g.in, from |-> w.module, exported |-> g.exported])
                /\ UNCHANGED stuck
           ELSE stuck' = Append(stuck, g) /\ UNCHANGED sources
  /\ pending' = Tail(pending)
  /\ UNCHANGED <<project, pc, collectVars, size, opaques>>

(* A slip: another round whatever the last one found. *)
NextRoundAlways ==
  /\ pc = "globs" /\ pending = <<>> /\ (Len(stuck) # size \/ stuck # <<>>)
  /\ pending' = stuck /\ stuck' = <<>> /\ size' = Len(stuck)
  /\ UNCHANGED <<project, pc, collectVars, sources, opaques>>

NextRound ==
  /\ pc = "globs" /\ pending = <<>> /\ Len(stuck) # size
  /\ pending' = stuck /\ stuck' = <<>> /\ size' = Len(stuck)
  /\ UNCHANGED <<project, pc, collectVars, sources, opaques>>

(* A slip: what is left is taken to refer outside. *)
EndGlobsQuietly ==
  /\ pc = "globs" /\ pending = <<>> /\ Len(stuck) = size
  /\ pc' = "namespaces"
  /\ UNCHANGED <<project, collectVars, sources, pending, stuck, size, opaques>>

(* Whatever is left refers outside, or to what cannot be pinned down. *)
EndGlobs ==
  /\ pc = "globs" /\ pending = <<>> /\ Len(stuck) = size
  /\ pc' = "namespaces"
  /\ opaques' = opaques \cup {g.in : g \in ToSet(stuck)}
  /\ UNCHANGED <<project, collectVars, sources, pending, stuck, size>>

-------------------------------------------------------------------------------
(* resolve_alias_namespaces: all are read before any is written. *)
RECURSIVE NamespaceAt(_, _, _)
AliasNamespaceOf(i, depth) ==
  IF IsAlias(defs[i]) THEN NamespaceAt(defs[i].module, defs[i].target, depth + 1)
  ELSE defs[i].namespace

Common(each) == IF each = {} \/ None \in each THEN None
                ELSE IF Cardinality(each) = 1 THEN CHOOSE n \in each : TRUE ELSE "Both"

(* A slip: of the last of them. *)
NamespaceAtLast(m, path, depth) ==
  LET end == EndOf(Walk(m, path, TRUE))
  IN  IF depth > MaxAliasDepth \/ end = <<>> THEN None ELSE AliasNamespaceOf(Last(end), depth)

(* alias_namespace_at: of everything the last segment names. *)
NamespaceAt(m, path, depth) ==
  IF depth > MaxAliasDepth THEN None
  ELSE Common({AliasNamespaceOf(i, depth) : i \in ToSet(EndOf(Walk(m, path, TRUE)))})

ResolveAliasNamespaces ==
  /\ pc = "namespaces"
  /\ pc' = "done"
  /\ defs' = [i \in Ids |-> LET n == AliasNamespaceOf(i, 0)
                            IN  IF n = None THEN defs[i] ELSE [defs[i] EXCEPT !.namespace = n]]
  /\ UNCHANGED <<project, toCollect, items, modules, publics, gatedGlobs, globs, globVars>>

Next ==
  \/ OpenFile \/ AddModule \/ AddExternCrate \/ AddItem \/ AddUse
  \/ EndCollect \/ TryGlob \/ NextRound \/ EndGlobs
  \/ ResolveAliasNamespaces

Finished == pc = "done" /\ UNCHANGED vars

Spec == Init /\ [][Next \/ Finished]_vars

-------------------------------------------------------------------------------
(* What is asked of the finished table.                                      *)

(* mark_path_used: the definitions the path reached, and every one that has  *)
(* the name of a segment it could not account for.                           *)
WithNames(names) == {i \in Ids : defs[i].name \in names}
Lost(path, w) == IF w.kind = "Opaque" THEN ToSet(SubSeq(path.segments, w.index, Len(path.segments))) ELSE {}
PathDefs(m, path, inUse) ==
  LET w == Walk(m, path, inUse) IN UNION {ToSet(g) : g \in ToSet(w.reached)} \cup WithNames(Lost(path, w))

(* mark_def_used: an alias marks what it imports. *)
RECURSIVE Marked(_)
Marked(set) ==
  LET more == set \cup UNION {PathDefs(defs[i].module, defs[i].target, TRUE) : i \in {j \in set : IsAlias(defs[j])}}
  IN  IF more = set THEN set ELSE Marked(more)

(* nearest_collected_module *)
RECURSIVE Nearest(_)
Nearest(m) == IF m \in ToSet(modules) THEN m ELSE Nearest(Front(m))

(* terminal_def, terminal_def_of *)
RECURSIVE TerminalOf(_, _)
Terminal(m, path, depth) ==
  LET end == EndOf(Walk(m, path, FALSE))
  IN  IF depth > MaxAliasDepth \/ end = <<>> THEN None ELSE TerminalOf(Last(end), depth)
TerminalOf(i, depth) ==
  IF depth > MaxAliasDepth THEN None
  ELSE IF IsAlias(defs[i]) THEN Terminal(defs[i].module, defs[i].target, depth + 1)
  ELSE i

(* owner_defs: what an impl block of the type `path` hangs off. *)
IfSure(owners) == IF owners = {} \/ None \in owners THEN None ELSE owners
OwnerDefs(m, path) == IfSure({TerminalOf(i, 0) : i \in ToSet(EndOf(Walk(m, path, FALSE)))})

(* bare_name_means *)
BareNameMeans(m, path, name) ==
  LET bare == Lookup(m, name, None).defs
  IN  /\ Len(bare) = 1
      /\ Terminal(m, path, 0) # None /\ Terminal(m, path, 0) = TerminalOf(bare[1], 0)

(* pattern_may_name_item *)
PatternMayNameItem(m, name) ==
  LET a == Lookup(m, name, None)
  IN  a.unknown \/ \E i \in ToSet(a.defs) :
        defs[i].kind \in {"Struct", "UnitStruct", "Const", "TypeAlias", "Import", "Reexport"}

(* externally_reachable_modules *)
PubToTheCrateRoot(m) == m[1] \in Libraries /\ \A i \in 1 .. Len(m) : SubSeq(m, 1, i) \in publics
ReexportedModules(m) ==
  LET ends == {WalkPath(m, defs[i].target, TRUE, 0, i) :
                 i \in {j \in Ids : defs[j].kind = "Reexport" /\ defs[j].module = m}}
  IN  {e.module : e \in {x \in ends : x.kind = "Module"}}
(* A slip: a glob carries names out, but not the modules below. *)
OnTheWayByName(m) ==
       {s.from : s \in {x \in ToSet(sources) : x.in = m /\ x.exported}} \cup ReexportedModules(m)

OnTheWayFrom(m) ==
       {s.from : s \in {x \in ToSet(sources) : x.in = m /\ x.exported}}
  \cup {c \in ToSet(modules) \cap publics : Len(c) > 1 /\ Front(c) = m}
  \cup ReexportedModules(m)
(* The closure of the public modules under what they carry out. *)
RECURSIVE Closure(_)
Closure(set) == LET more == set \cup UNION {OnTheWayFrom(m) : m \in set}
                IN  IF more = set THEN set ELSE Closure(more)
Surface == Closure({m \in ToSet(modules) : PubToTheCrateRoot(m)})

-------------------------------------------------------------------------------
(* The decls of which a name is a definition, for comparison with RustNames; *)
(* what the table does not hold is never reported.                           *)
Sites(ids)  == {<<defs[i].line, defs[i].name>> : i \in ids}
Required(e) == ((IF e.to.item THEN {e.to.at} ELSE {}) \cup e.via) \cap Sites(Ids)
(* No way to what is meant has everything it goes through. *)
Unkept(meanings, marked) == meanings # {} /\ \A e \in meanings : ~(Required(e) \subseteq marked)

(* The table never refers to a module it does not have, has each module once *)
(* with its ancestors, and a round tries no more globs than it began with.   *)
TypeOK ==
  /\ pc \in {"collect", "globs", "namespaces", "done"}
  /\ Roots \subseteq ToSet(modules) /\ publics \subseteq ToSet(modules)
  /\ opaques \cup gatedGlobs \subseteq ToSet(modules)
  /\ Cardinality(ToSet(modules)) = Len(modules)
  /\ \A m \in ToSet(modules) : Len(m) = 1 \/ Front(m) \in ToSet(modules)
  /\ \A i \in Ids : /\ defs[i].kind \in Kinds /\ defs[i].namespace \in {"Type", "Value", "Both"}
                    /\ defs[i].module \in ToSet(modules)
                    /\ defs[i].kind = "Mod" => defs[i].child \in ToSet(modules)
                    /\ IsAlias(defs[i]) => defs[i].target # None
  /\ \A s \in ToSet(sources) : {s.in, s.from} \subseteq ToSet(modules)
  /\ pc = "globs" => Len(pending) + Len(stuck) <= size

(* The premises of what follows, each of which the code needs: names are     *)
(* kept apart (lookup_in merges the namespaces and lets the first module     *)
(* that has a name answer for all; an import of an inline module in a        *)
(* spliced file is read as one of the file's module); the declarations of    *)
(* one module agree on whether it is public (the last one collected decides  *)
(* declared_pub); no spliced file re-exports by a glob (it is read as a      *)
(* plain import).                                                            *)
Apart == /\ KeptApart(project, Lifted(Entire(project)), AnySpace)
         /\ \A f \in ToSet(project.spliced) : \A d \in ToSet(f.items) : d.form = "use" => d.in = f.module
OneVisibility == \A d, e \in AllDecls(project.files \o project.spliced) :
  d.form = "mod" /\ e.form = "mod" /\ d.in = e.in /\ d.name = e.name => d.pub = e.pub
NoSplicedReexport == \A d \in AllDecls(project.spliced) : d.form = "use" /\ d.pub => \A l \in LeavesOf(d) : ~l.glob
(* Edition 2015's `::x` is a path of the crate; path_start reads a crate.    *)
OfTheCrate(path) == path.absolute /\ project.edition = 2015

Marks(path, m) == Sites(Marked(PathDefs(Nearest(m), path, FALSE)))
Missed(q, w, known, marked) ==
  \E ns \in Spaces : Unkept(Named(w, known, q.in, q.path, ns, FALSE), marked)
NoneMissed(w, known) ==
  \A q \in {x \in Mentions : ~OfTheCrate(x.path)} : ~Missed(q, w, known, Marks(q.path, q.in))

(* What a path names in any build, and every import it names it through, is  *)
(* marked: by the walk, or by the names the walk lost.  So no chain of       *)
(* imports, ring of globs, gated alternative, crate known by several names   *)
(* or file spliced in makes a live item look unused.                         *)
NothingNamedIsMissed ==
  pc = "done" /\ Apart => \A w \in Worlds(project) : NoneMissed(w, Bindings(w))

(* The public items that are reported though q, written where it is live,    *)
(* names them: neither the surface, nor a spliced file, nor q keeps them.    *)
IsRooted(i) == defs[i].rooted \/ (defs[i].pub /\ defs[i].module \in Surface)
ReportedDespite(q, w, known) ==
  LET named      == UNION {Named(w, known, q.in, q.path, ns, FALSE) : ns \in Spaces}
      reportable == Sites({i \in Ids : defs[i].pub /\ ~IsAlias(defs[i])})
      kept       == Marks(q.path, q.in) \cup Sites(Marked({i \in Ids : IsRooted(i)}))
  IN  {e.to.at : e \in {x \in named : x.to.item}} \cap (reportable \ kept)
NothingNamedIsReported ==
  \A w \in Worlds(project), q \in Mentions : ReportedDespite(q, w, Bindings(w)) = {}

(* The comment on Module::items: that namespaces are merged "can only hide   *)
(* findings" (src/resolve.rs:409-410).  Here names are kept apart but for    *)
(* those that only a merger of the namespaces brings together, and no `use`  *)
(* is in a body.                                                             *)
MergingOnlyHides ==
  pc = "done" /\ KeptApart(project, Entire(project), SameSpace)
              /\ (\A d \in AllDecls(project.files) : d.form = "use" => d.top) => NothingNamedIsReported

GlobsLeadIn(w, known) ==
  \A g \in ToSet(globs) : \A e \in Named(w, known, g.in, g.path, "Type", TRUE) :
    e.to.item \/ e.to.at \in ToSet(SourcesOf(g.in)) \/ g.in \in opaques

(* However the rounds fall, a module that a glob of m names is one of m's    *)
(* sources, or m is opaque and no name is absent from it.                    *)
GlobsLeadWhereTheyName ==
  pc = "done" /\ Apart => \A w \in Worlds(project) : GlobsLeadIn(w, Bindings(w))

Outsider == <<"outside">>
SeenFromOutside(w) ==
  [w EXCEPT !.prelude = {[in |-> "outside", name |-> c, crate |-> c] : c \in Libraries}]
Covers(marked, w, known) ==
  \A ns \in Spaces, path \in Consumers : ~Unkept(Named(w, known, Outsider, path, ns, FALSE), marked)
CoversAll(marked) ==
  \A w \in Worlds(project) : Covers(marked, SeenFromOutside(w), Bindings(w))

(* Whatever a crate outside can name of a library, by any path and in any    *)
(* build, is among the public items of externally_reachable_modules or kept  *)
(* by one of them.                                                           *)
SurfaceCoversConsumers ==
  pc = "done" /\ Apart /\ OneVisibility /\ NoSplicedReexport =>
    CoversAll(Sites(Marked({i \in Ids : defs[i].pub /\ defs[i].module \in Surface})))

NamespacesAreSole(w, known) ==
  \A i \in {j \in Ids : IsAlias(defs[j]) /\ defs[j].namespace # "Both"} :
    \A ns \in Spaces \ {defs[i].namespace} : Named(w, known, defs[i].module, defs[i].target, ns, TRUE) = {}
OwnersInclude(owners, types) ==
  owners # None => \A t \in {x \in types : x.item} : \E o \in owners, j \in Ids :
                      /\ t.at \in Sites({j})
                      /\ defs[o].module = defs[j].module /\ defs[o].name = defs[j].name
BareNames(w, known, m, name, ns) ==
  {e.to : e \in Named(w, known, m, [absolute |-> FALSE, segments |-> <<name>>], ns, FALSE)}
CertainOf(w, known, m, path, name, types) ==
  /\ OwnersInclude(OwnerDefs(m, path), types)
  /\ BareNameMeans(m, path, name) /\ types # {} => BareNames(w, known, m, name, "Type") \subseteq types
  /\ (\E to \in BareNames(w, known, m, name, "Value") :
         to.at \in Sites({i \in Ids : defs[i].kind \in {"Const", "UnitStruct"}})) =>
       PatternMayNameItem(m, name)
CertainIn(w, known) ==
  /\ NamespacesAreSole(w, known)
  /\ \A q \in {x \in Mentions : ~OfTheCrate(x.path)} :
       CertainOf(w, known, q.in, q.path, Last(q.path.segments),
                 {e.to : e \in Named(w, known, q.in, q.path, "Type", FALSE)})

(* Where the code acts only on certainty, the certainty is real:             *)
(*  - an import said to bind one namespace binds nothing in the other;       *)
(*  - the owners of an impl block include the type it is for in each build,  *)
(*    or its alternative of the same name, which no path names without it;   *)
(*  - a bare name taken for a self-reference of an impl is its type wherever *)
(*    it is anything;                                                        *)
(*  - a pattern that may name a constant is not taken for a binding.         *)
CertainAnswersHold ==
  pc = "done" /\ Apart => \A w \in Worlds(project) : CertainIn(w, Bindings(w))

(* The rounds come to an end whatever globs lead through one another: a step *)
(* uses up a glob of the round, or begins a shorter one.                     *)
RoundsEnd ==
  [][pc = "globs" /\ pc' = "globs" =>
       size' < size \/ (size' = size /\ Len(pending') < Len(pending))]_vars
==============================================================================
