--------------------------- MODULE DependencyEvidence ---------------------------
(*****************************************************************************)
(* The dependency checks of one package (src/deps.rs): what its files name   *)
(* is gathered file by file and target by target, renames are folded onto    *)
(* the crates they stand for, and every manifest entry is then judged by the *)
(* contexts its crate is named in.                                           *)
(*                                                                           *)
(* The files a target's files include are files of it, `site` saying what    *)
(* the `include!` is written in; the files no target reaches are the ones of *)
(* a last target that can attribute nothing.  A crate name, the word code    *)
(* spells it by, is a model value; an entry's manifest name is not apart     *)
(* from it.  A manifest declares a crate once per table.                     *)
(*****************************************************************************)
EXTENDS Integers, Sequences, SequencesExt

CONSTANTS Words,     \* the names code may spell
          Features,  \* a crate's features, `default` one of them
          Sources    \* the packages: [targets, entries, companions, hidden]

Contexts == {"runtime", "dev", "build", "opaque"}
Tables   == {"normal", "dev", "build"}

(* What an item's attributes make of its mentions: a test gate, an attribute *)
(* macro nobody can expand; or a mention that names no place at all, in what *)
(* a macro is given or in a doc comment, whose examples are a crate of their *)
(* own.  An inner mention is inside a `mod { }` block.                       *)
Shifts  == {"none", "test", "macro", "input", "docs"}
Mention == [word: Words, shift: Shifts, inner: BOOLEAN]

(* `extern crate real as alias;` or `use real as alias;` at a file's top     *)
(* level; `prelude` for the first one written in the crate root.             *)
Alias == [alias: Words, real: Words, prelude: BOOLEAN]

File   == [site: {"none", "test", "macro"}, mentions: SUBSET Mention, aliases: SUBSET Alias]
Target == [kind: Contexts, files: Seq(File)]
Entry  == [word: Words, table: Tables, optional: BOOLEAN, features: SUBSET Features,
           judgeable: BOOLEAN,  \* not exempt, and some analysed build enables it
           featured: BOOLEAN]   \* named by the [features] table

(* What is renamed in the crate root is renamed in all of the target.        *)
Preludes(target) == {a \in UNION {target.files[j].aliases : j \in 1..Len(target.files)} : a.prelude}

(* A hash map has one crate for an alias.                                    *)
StandForOne(renames) == \A a, b \in renames : a.alias = b.alias => a = b

(* One file of a target is its crate root.                                   *)
ASSUME SourcesAreTyped ==
  \A s \in Sources :
    /\ s.targets \in Seq(Target)
    /\ \A k \in 1..Len(s.targets) :
         /\ StandForOne(Preludes(s.targets[k]))
         /\ \A j \in 1..Len(s.targets[k].files) : StandForOne(s.targets[k].files[j].aliases)
    /\ s.entries \subseteq Entry
    /\ \A d, e \in s.entries : d.word = e.word /\ d.table = e.table => d = e
    /\ s.companions \subseteq Words \X Words  \* base, and its derive crate
    /\ s.hidden \in BOOLEAN                   \* something could not be read

VARIABLES package,
          at,           \* the target and the file being read
          pc,
          names,        \* CrateReferences::names
          targetNames, fileNames,      \* the same of one target, of one file
          aliases,      \* the prelude aliases of the target
          folding,      \* aliases not folded yet, in no particular order
          unused, misplaced

vars == <<package, at, pc, names, targetNames, fileNames, aliases, folding, unused, misplaced>>

Nowhere == [w \in Words |-> {}]

Merged(some, more) == [w \in Words |-> some[w] \cup more[w]]

-------------------------------------------------------------------------------
(* A slip: a macro-owned item attributed where nothing is. *)
ShiftedLeaking(context, shift) ==
  IF context # "runtime" THEN context
  ELSE CASE shift = "test" -> "dev"
         [] shift = "macro" -> "macro"
         [] OTHER -> context

(* shifted: only runtime code moves. *)
Shifted(context, shift) ==
  IF context # "runtime" THEN context
  ELSE CASE shift = "test" -> "dev"
         [] shift = "macro" -> "opaque"
         [] OTHER -> context

ContextOf(target, file, shift) ==
  IF shift \in {"input", "docs"} THEN "opaque" ELSE Shifted(Shifted(target.kind, file.site), shift)

(* The Collector over one file; a rename is itself a mention of the crate.   *)
Collected(target, file) ==
  [w \in Words |->
     {ContextOf(target, file, m.shift) : m \in {n \in file.mentions : n.word = w}}
       \cup {ContextOf(target, file, "none") : a \in {b \in file.aliases : b.real = w}}]

Init ==
  /\ package \in Sources
  /\ at = <<1, 1>>
  /\ pc = "read"
  /\ names = Nowhere /\ targetNames = Nowhere /\ fileNames = Nowhere
  /\ aliases = {} /\ folding = {}
  /\ unused = {} /\ misplaced = {}

CurrentTarget == package.targets[at[1]]
CurrentFile   == CurrentTarget.files[at[2]]

(* A slip: a rename in any file taken for one of the whole crate. *)
ReadFileWide ==
  /\ pc = "read" /\ at[1] <= Len(package.targets) /\ at[2] <= Len(CurrentTarget.files)
  /\ fileNames' = Collected(CurrentTarget, CurrentFile)
  /\ aliases' = aliases \cup CurrentFile.aliases
  /\ folding' = {}
  /\ pc' = "fold file"
  /\ UNCHANGED <<package, at, names, targetNames, unused, misplaced>>

(* A name aliased twice in the crate root keeps its last real crate; there   *)
(* is one crate root, so that is within one file.                            *)
ReadFile ==
  /\ pc = "read" /\ at[1] <= Len(package.targets) /\ at[2] <= Len(CurrentTarget.files)
  /\ fileNames' = Collected(CurrentTarget, CurrentFile)
  /\ aliases' = aliases \cup {a \in CurrentFile.aliases : a.prelude}
  /\ folding' = {a \in CurrentFile.aliases : ~ a.prelude}
  /\ pc' = "fold file"
  /\ UNCHANGED <<package, at, names, targetNames, unused, misplaced>>

(* One step of fold_aliases: the alias's key is removed and its contexts go  *)
(* to the crate it names.                                                    *)
Folded(some, a) ==
  [w \in Words |-> (IF w = a.alias THEN {} ELSE some[w])
                     \cup (IF w = a.real THEN some[a.alias] ELSE {})]

FoldFile(a) ==
  /\ pc = "fold file" /\ a \in folding
  /\ fileNames' = Folded(fileNames, a)
  /\ folding' = folding \ {a}
  /\ UNCHANGED <<package, at, pc, names, targetNames, aliases, unused, misplaced>>

EndFile ==
  /\ pc = "fold file" /\ folding = {}
  /\ targetNames' = Merged(targetNames, fileNames)
  /\ at' = <<at[1], at[2] + 1>>
  /\ pc' = "read"
  /\ UNCHANGED <<package, names, fileNames, aliases, folding, unused, misplaced>>

BeginTargetFold ==
  /\ pc = "read" /\ at[1] <= Len(package.targets) /\ at[2] > Len(CurrentTarget.files)
  /\ folding' = aliases
  /\ pc' = "fold target"
  /\ UNCHANGED <<package, at, names, targetNames, fileNames, aliases, unused, misplaced>>

FoldTarget(a) ==
  /\ pc = "fold target" /\ a \in folding
  /\ targetNames' = Folded(targetNames, a)
  /\ folding' = folding \ {a}
  /\ UNCHANGED <<package, at, pc, names, fileNames, aliases, unused, misplaced>>

EndTarget ==
  /\ pc = "fold target" /\ folding = {}
  /\ names' = Merged(names, targetNames)
  /\ targetNames' = Nowhere /\ aliases' = {}
  /\ at' = <<at[1] + 1, 1>>
  /\ pc' = "read"
  /\ UNCHANGED <<package, fileNames, folding, unused, misplaced>>

-------------------------------------------------------------------------------
(* find_unused *)
Unused(e) ==
  /\ e.judgeable /\ ~ e.featured
  /\ names[e.word] = {}
  /\ ~ \E c \in package.companions : /\ c[1] = e.word /\ names[c[2]] # {}
                                     /\ \E other \in package.entries : other.word = c[2]

NormalCopies(e) == {n \in package.entries : n.table = "normal" /\ n.word = e.word}

(* doubled: what an entry turns on beyond the [dependencies] one.            *)
LoadBearing(e, normal) == normal.optional \/ ~ e.features \subseteq normal.features

Stays == "stays"

(* A slip: one test mention enough to move an entry. *)
PlacementOnMention(e, found, normal) ==
  IF found = {} \/ "opaque" \in found THEN Stays
  ELSE CASE e.table = "normal" /\ "dev" \in found -> "dev"
         [] e.table = "dev" /\ "runtime" \in found ->
              IF normal = {} THEN "normal"
              ELSE IF "dev" \in found \/ \E n \in normal : LoadBearing(e, n) THEN Stays
              ELSE "stale duplicate"
         [] e.table = "build" /\ "build" \notin found -> IF "runtime" \in found THEN "normal" ELSE "dev"
         [] OTHER -> Stays

(* misplacement; `normal` holds the [dependencies] copy, if there is one.    *)
Placement(e, found, normal) ==
  IF found = {} \/ "opaque" \in found THEN Stays
  ELSE CASE e.table = "normal" /\ found = {"dev"} -> "dev"
         [] e.table = "dev" /\ "runtime" \in found ->
              IF normal = {} THEN "normal"
              ELSE IF "dev" \in found \/ \E n \in normal : LoadBearing(e, n) THEN Stays
              ELSE "stale duplicate"
         [] e.table = "build" /\ "build" \notin found -> IF "runtime" \in found THEN "normal" ELSE "dev"
         [] OTHER -> Stays

(* find_misplaced *)
Misplaced(e) ==
  IF ~ e.judgeable \/ (e.featured /\ e.table # "dev") THEN Stays
  ELSE Placement(e, names[e.word], NormalCopies(e) \ {e})

(* Hidden code and both checks are skipped. *)
Judge ==
  /\ pc = "read" /\ at[1] > Len(package.targets)
  /\ unused' = IF package.hidden THEN {} ELSE {e \in package.entries : Unused(e)}
  /\ misplaced' = IF package.hidden THEN {}
                  ELSE {[entry |-> e, to |-> Misplaced(e)] :
                          e \in {d \in package.entries : Misplaced(d) # Stays}}
  /\ pc' = "done"
  /\ UNCHANGED <<package, at, names, targetNames, fileNames, aliases, folding>>

Next ==
  \/ ReadFile \/ EndFile
  \/ BeginTargetFold \/ EndTarget
  \/ \E a \in folding : FoldFile(a) \/ FoldTarget(a)
  \/ Judge

Spec == Init /\ [][Next]_vars

-------------------------------------------------------------------------------
(* What the mentions mean. *)

Through(renames, word) ==
  IF \E a \in renames : a.alias = word
  THEN (CHOOSE a \in renames : a.alias = word).real ELSE word

(* The crate a mention stands for: a `use` binds in its module, an `extern   *)
(* crate` of the crate root in every module of its target, and neither in a  *)
(* doctest.                                                                  *)
Meant(target, file, m) ==
  LET here == IF m.inner THEN m.word ELSE Through({a \in file.aliases : ~ a.prelude}, m.word)
  IN  IF m.shift = "docs" THEN m.word ELSE Through(Preludes(target), here)

(* A `use` reads the renames of the crate root, an `extern crate` none. *)
MeantByAlias(target, a) == IF a.prelude THEN a.real ELSE Through(Preludes(target), a.real)

Meanings(crate) ==
  UNION {UNION {{ContextOf(t, f, m.shift) : m \in {n \in f.mentions : Meant(t, f, n) = crate}}
                  \cup {ContextOf(t, f, "none") : a \in {b \in f.aliases : MeantByAlias(t, b) = crate}} :
                f \in {t.files[j] : j \in 1..Len(t.files)}} :
         t \in {package.targets[k] : k \in 1..Len(package.targets)}}

(* Packages in which no rename is of another's name, ...                     *)
Chained ==
  \E k \in 1..Len(package.targets) :
    LET t == package.targets[k]
    IN  \E j \in 1..Len(t.files) : \E a, b \in t.files[j].aliases \cup Preludes(t) :
          a # b /\ b.alias = a.real /\ (b.prelude => a.prelude)

(* ... no doc comment spells a renamed one, ... *)
RespelledInDocs ==
  \E k \in 1..Len(package.targets) :
    LET t == package.targets[k]
    IN  \E j \in 1..Len(t.files) : \E m \in t.files[j].mentions :
          m.shift = "docs" /\ \E a \in t.files[j].aliases \cup Preludes(t) : a.alias = m.word

(* ... and no inner module one a `use` around it renames. *)
RespelledInside ==
  \E k \in 1..Len(package.targets) : \E j \in 1..Len(package.targets[k].files) :
    LET f == package.targets[k].files[j]
    IN  \E m \in f.mentions, a \in f.aliases : m.inner /\ ~ a.prelude /\ a.alias = m.word

Plain == ~ Chained /\ ~ RespelledInDocs /\ ~ RespelledInside

-------------------------------------------------------------------------------
(* Every name is mapped to places a target can have. *)
TypeOK ==
  /\ pc \in {"read", "fold file", "fold target", "done"}
  /\ \A w \in Words : names[w] \cup targetNames[w] \cup fileNames[w] \subseteq Contexts
  /\ unused \subseteq package.entries
  /\ \A m \in misplaced : m.entry \in package.entries

(* Once everything is read, every mention is charged to the crate it stands  *)
(* for and to no other, whatever the renames of its file, of its target and  *)
(* of the other targets (add_target, fold_aliases); and an entry reported    *)
(* unused is one no code, no feature and no derive crate declared beside it  *)
(* means (find_unused).                                                      *)
AttributionIsExact ==
  Plain =>
    /\ pc = "read" /\ at[1] > Len(package.targets) => \A w \in Words : names[w] = Meanings(w)
    /\ \A e \in unused :
         /\ Meanings(e.word) = {} /\ ~ e.featured
         /\ \A c \in package.companions :
              c[1] = e.word /\ (\E d \in package.entries : d.word = c[2]) => Meanings(c[2]) = {}

(* The tables the code of a context links; code that cannot be placed may be *)
(* any.                                                                      *)
Linked(context) ==
  CASE context = "runtime" -> {{"normal"}}
    [] context = "dev" -> {{"normal", "dev"}}
    [] context = "build" -> {{"build"}}
    [] OTHER -> {{"normal"}, {"normal", "dev"}, {"build"}}

Retabled(e, table) ==
  [word |-> e.word, table |-> table, optional |-> e.optional, features |-> e.features,
   judgeable |-> e.judgeable, featured |-> e.featured]

(* The manifest with every report acted on. *)
Edited ==
  LET kept == package.entries \ unused
  IN  (kept \ {m.entry : m \in misplaced})
        \cup {Retabled(m.entry, m.to) :
                m \in {n \in misplaced : n.entry \in kept /\ n.to # "stale duplicate"}}

Provides(entries, tables, word, optionals) ==
  \E e \in entries : e.table \in tables /\ e.word = word /\ (e.optional => optionals)

(* Whoever deletes what is reported unused, moves what is reported misplaced *)
(* and removes the duplicates takes no crate from code that could link it,   *)
(* be the optional ones on or off (find_unused with find_misplaced).         *)
EditsKeepEveryUse ==
  pc = "done" /\ Plain =>
    \A w \in Words, optionals \in BOOLEAN : \A c \in Meanings(w) : \A tables \in Linked(c) :
      Provides(package.entries, tables, w, optionals) => Provides(Edited, tables, w, optionals)

Enabled(entries, word, optionals) ==
  UNION {e.features : e \in {d \in entries : d.word = word /\ d.table \in {"normal", "dev"}
                                              /\ (d.optional => optionals)}}

(* ... and removing what is called a stale duplicate leaves the tests the features   *)
(* they are built with (doubled).                                            *)
DuplicatesEnableNothing ==
  \A m \in misplaced : m.to = "stale duplicate" =>
    \A optionals \in BOOLEAN :
      Enabled(package.entries, m.entry.word, optionals)
        = Enabled(package.entries \ {m.entry}, m.entry.word, optionals)

(* Acting on every report takes neither a crate nor a feature from code that *)
(* has it.                                                                   *)
EditsLoseNothing == EditsKeepEveryUse /\ DuplicatesEnableNothing
===============================================================================
