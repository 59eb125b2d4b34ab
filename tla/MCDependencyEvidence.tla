-------------------------- MODULE MCDependencyEvidence --------------------------
(*****************************************************************************)
(* Renames: a library of two files, a test target and a file nothing         *)
(* declares, with two renames at a time of three crates that spell them.     *)
(*                                                                           *)
(* Tables: one library file, one test file and a build script that mention   *)
(* two crates in every combination of contexts, under manifests that declare *)
(* them once or twice.                                                       *)
(*****************************************************************************)
EXTENDS DependencyEvidence

CONSTANTS core, serde, derive, feature

Says(word, shift) == [word |-> word, shift |-> shift, inner |-> FALSE]
Inside(word) == [word |-> word, shift |-> "none", inner |-> TRUE]
Rename(real, alias, prelude) == [alias |-> alias, real |-> real, prelude |-> prelude]
FileOf(site, says, renames) == [site |-> site, mentions |-> says, aliases |-> renames]
TargetOf(kind, files) == [kind |-> kind, files |-> files]

Declared(word, table) ==
  [word |-> word, table |-> table, optional |-> FALSE, features |-> {}, judgeable |-> TRUE, featured |-> FALSE]

RootRenames == {{}, {Rename(core, serde, TRUE)}, {Rename(core, serde, FALSE)},
                {Rename(core, serde, TRUE), Rename(derive, core, TRUE)},
                {Rename(serde, derive, FALSE), Rename(core, serde, TRUE)}}
ModuleRenames == {{}, {Rename(serde, derive, FALSE)}, {Rename(core, serde, FALSE)}}
RootMentions == {{}, {Says(serde, "none")}, {Says(serde, "docs")}, {Inside(serde)}, {Says(derive, "test")}}
ModuleMentions == {{}, {Says(serde, "none")}, {Says(derive, "macro"), Says(serde, "input")}, {Says(core, "none")}}
TestMentions == {{}, {Says(serde, "none")}, {Says(derive, "none")}}

Renamed ==
  {[targets |-> <<TargetOf("runtime", <<FileOf("none", mine, root), FileOf(site, theirs, module)>>),
                  TargetOf("dev", <<FileOf("none", tests, {})>>),
                  TargetOf("opaque", <<FileOf("none", loose, {})>>)>>,
    entries |-> {Declared(core, "normal"), Declared(serde, table), Declared(derive, "normal")},
    companions |-> companions, hidden |-> FALSE] :
     mine \in RootMentions, root \in RootRenames, site \in {"none", "test"}, theirs \in ModuleMentions,
     module \in ModuleRenames, tests \in TestMentions, loose \in {{}, {Says(core, "none")}},
     table \in {"normal", "dev"}, companions \in {{}, {<<serde, derive>>}}}

Copies ==
  {{[Declared(serde, "normal") EXCEPT !.optional = o, !.featured = f], Declared(core, "dev")} : o, f \in BOOLEAN}
  \cup {{[Declared(serde, "normal") EXCEPT !.optional = o, !.features = {feature}, !.judgeable = j],
         [Declared(serde, "dev") EXCEPT !.features = e, !.featured = f]} :
           o, j, f \in BOOLEAN, e \in SUBSET {feature}}
  \cup {{[Declared(serde, "normal") EXCEPT !.features = e],
         [Declared(serde, table) EXCEPT !.features = {feature}]} :
           e \in SUBSET {feature}, table \in {"dev", "build"}}
  \cup {{Declared(serde, "dev"), Declared(serde, "build")}, {Declared(serde, "build"), Declared(core, "build")}}

Placed ==
  {[targets |-> <<TargetOf("runtime", <<FileOf("none", mine, {})>>),
                  TargetOf("dev", <<FileOf("none", tests, {})>>),
                  TargetOf("build", <<FileOf("none", script, {})>>)>>,
    entries |-> entries, companions |-> {<<serde, derive>>}, hidden |-> hidden] :
     mine \in SUBSET {Says(serde, "none"), Says(serde, "test"), Says(serde, "macro"), Says(core, "test")},
     tests \in SUBSET {Says(serde, "none")}, script \in SUBSET {Says(serde, "test")},
     entries \in Copies, hidden \in BOOLEAN}

MCSources == Renamed \cup Placed
=================================================================================
