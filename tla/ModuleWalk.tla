------------------------------- MODULE ModuleWalk -------------------------------
(*****************************************************************************)
(* modtree::resolve (src/modtree.rs): the walk that follows one crate's      *)
(* `mod` declarations from its root, then its `include!`s and what its       *)
(* macros' tokens claim, and says of every file which module it is, whether  *)
(* only splicing reaches it and whether only tests compile it.               *)
(*                                                                           *)
(* A file is the sequence of its items that can lead to another file, inline *)
(* blocks flattened: `within` is the blocks an item sits in, `confined`      *)
(* whether a gate on it or on one of them limits it to a test build, and     *)
(* at[r] the file it names when its own file resolves children by rule r.    *)
(*****************************************************************************)
EXTENDS Integers, FiniteSets, Sequences, SequencesExt

CONSTANTS Files,           \* the source files on disk
          Root,            \* the crate root
          Missing,         \* what an item names when no file is there
          Ignored,         \* the same, where an ignore pattern expects it
          Macros,          \* the names of macros whose rules may say `mod`
          Crates,          \* the crates walked
          MaxIncludeDepth  \* deps::MAX_INCLUDE_DEPTH

ASSUME RootIsAFile == Root \in Files
ASSUME DepthIsANumber == MaxIncludeDepth \in Nat

Healths == {"sound",        \* parses, and in this build
            "broken",       \* cannot be parsed: a file without items
            "unreadable",
            "ruled out"}    \* an inner `#![cfg]` keeps it out of this build

Kinds == {"mod", "ruled out mod", "include", "claim", "inline", "define", "invoke"}
Item  == [kind: Kinds, name: STRING, within: Seq(STRING), at: [BOOLEAN -> Files \cup {Missing, Ignored}],
          childRule: BOOLEAN, confined: BOOLEAN, macro: Macros]
Crate == [items: [Files -> Seq(Item)], health: [Files -> Healths]]

ASSUME CratesAreTyped == Crates \subseteq Crate
ASSUME IncludesNameAFile ==  \* one that is not on disk is an unreadable one
  \A c \in Crates : \A f \in Files : \A i \in ToSet(c.items[f]) :
    i.kind = "include" => \A r \in BOOLEAN : i.at[r] \in Files

VARIABLES crate,
          queue,        \* declarations to follow, last first
          deferred,     \* what waits for the queue to drain
          visited,      \* files popped, whatever became of them
          loaded,       \* Resolved::files, in the order loaded
          splicedFrom,  \* where the `mod` walk stopped; 0 while it runs
          emitting,     \* MacroScan::emitting
          invocations,  \* MacroScan::invocations
          excluded,     \* Resolved::excluded, by what rules each out:
          warnings,     \* a file, and its item or 0; and so the warnings
          remounted,    \* Resolved::remounted
          done

vars == <<crate, queue, deferred, visited, loaded, splicedFrom, emitting, invocations,
          excluded, remounted, warnings, done>>

-------------------------------------------------------------------------------
IsOnDisk(target) == target \in Files

(* A loop over items, or over invocations, stops at these positions. *)
InOrder(positions) ==
  CHOOSE s \in [1..Cardinality(positions) -> positions] :
    \A i, j \in DOMAIN s : i < j => s[i] < s[j]

Where(items, Test(_)) == InOrder({k \in 1..Len(items) : Test(items[k])})

(* An item, read at a site: the rule its file resolves children by, the      *)
(* module it is, whether it is confined and how deep in `include!`s.         *)
Following(item, site) ==
  [file      |-> item.at[site.isModRoot],
   isModRoot |-> item.childRule,
   module    |-> IF item.kind = "include" THEN site.module \o item.within
                 ELSE site.module \o item.within \o <<item.name>>,
   testOnly  |-> site.testOnly \/ item.confined,
   depth     |-> IF item.kind = "include" THEN site.depth + 1 ELSE site.depth]

Follow(file, site, at) ==
  [k \in 1..Len(at) |-> Following(crate.items[file][at[k]], site)]

(* Where something is told of: a file, and one of its items. *)
Tell(file, at) == [k \in 1..Len(at) |-> <<file, at[k]>>]

(* collect_mod_decls: an out-of-line `mod` whose file is there. *)
ModDecls(file, site) ==
  LET Named(i) == i.kind = "mod" /\ IsOnDisk(i.at[site.isModRoot])
  IN  Follow(file, site, Where(crate.items[file], Named))

(* A slip: one include further. *)
SplicesTooDeep(file, site) ==
  LET Waits(i) == \/ i.kind = "include" /\ site.depth <= MaxIncludeDepth
                  \/ i.kind = "claim" /\ IsOnDisk(i.at[site.isModRoot])
  IN  Follow(file, site, Where(crate.items[file], Waits))

(* queue_include and the literal claims of scan_macro_item.  An `include!`   *)
(* is queued whether its file is there or not, unless it is too deep.        *)
Splices(file, site) ==
  LET Waits(i) == \/ i.kind = "include" /\ site.depth < MaxIncludeDepth
                  \/ i.kind = "claim" /\ IsOnDisk(i.at[site.isModRoot])
  IN  Follow(file, site, Where(crate.items[file], Waits))

(* A missing module is a warning, unless an ignore pattern expects the file. *)
Unresolved(file, site) ==
  LET Lost(i) == i.kind = "mod" /\ i.at[site.isModRoot] = Missing
  IN  Tell(file, Where(crate.items[file], Lost))

(* exclude_subtree: what a `mod` ruled out by the matrix names. *)
LeftOut(file, site) ==
  LET RuledOut(i) == i.kind = "ruled out mod" /\ IsOnDisk(i.at[site.isModRoot])
  IN  Tell(file, Where(crate.items[file], RuledOut))

Defined(file) ==
  {i.macro : i \in {j \in ToSet(crate.items[file]) : j.kind = "define"}}

Invoked(file, site) ==
  LET items == crate.items[file]
      Invokes(i) == i.kind = "invoke"
      calls == Where(items, Invokes)
  IN  [k \in 1..Len(calls) |->
         [macro |-> items[calls[k]].macro, probe |-> IsOnDisk(items[calls[k]].at[site.isModRoot]),
          pending |-> Following(items[calls[k]], site)]]

(* confined_inline_mods: a path two blocks share is confined when both are. *)
ConfinedInlineMods(file, site) ==
  LET inline == {i \in ToSet(crate.items[file]) : i.kind = "inline"}
      PathOf(i) == site.module \o i.within \o <<i.name>>
      Confines(i) == site.testOnly \/ i.confined
  IN  {PathOf(i) : i \in {j \in inline : \A k \in inline : PathOf(k) = PathOf(j) => Confines(k)}}

(* A file as loaded at a site; one that does not parse has no items.         *)
LoadedAs(file, site) ==
  [file |-> file, isModRoot |-> site.isModRoot, module |-> site.module, testOnly |-> site.testOnly,
   testOnlyMods |-> IF crate.health[file] = "sound" THEN ConfinedInlineMods(file, site) ELSE {}]

-------------------------------------------------------------------------------
Start == [file |-> Root, isModRoot |-> TRUE, module |-> <<>>, testOnly |-> FALSE, depth |-> 0]

Init ==
  /\ crate \in Crates
  /\ queue = <<Start>>
  /\ deferred = <<>>
  /\ visited = {}
  /\ loaded = <<>>
  /\ splicedFrom = 0
  /\ emitting = {}
  /\ invocations = <<>>
  /\ excluded = <<>> /\ remounted = {} /\ warnings = <<>>
  /\ done = FALSE

Popped == Last(queue)
Rest   == Front(queue)

(* A slip: the file not remembered. *)
PopAbsentUnmarked ==
  /\ queue # <<>>
  /\ Popped.file \notin visited
  /\ crate.health[Popped.file] \in {"unreadable", "ruled out"}
  /\ queue' = Rest
  /\ IF crate.health[Popped.file] = "ruled out"
     THEN excluded' = Append(excluded, <<Popped.file, 0>>) /\ UNCHANGED warnings
     ELSE warnings' = Append(warnings, <<Popped.file, 0>>) /\ UNCHANGED excluded
  /\ UNCHANGED <<crate, deferred, visited, loaded, splicedFrom, emitting, invocations, remounted, done>>

(* A file that could not be read, or that this build does not contain, is    *)
(* not looked at again.                                                      *)
PopAbsent ==
  /\ queue # <<>>
  /\ Popped.file \notin visited
  /\ crate.health[Popped.file] \in {"unreadable", "ruled out"}
  /\ queue' = Rest
  /\ visited' = visited \cup {Popped.file}
  /\ IF crate.health[Popped.file] = "ruled out"
     THEN excluded' = Append(excluded, <<Popped.file, 0>>) /\ UNCHANGED warnings
     ELSE warnings' = Append(warnings, <<Popped.file, 0>>) /\ UNCHANGED excluded
  /\ UNCHANGED <<crate, deferred, loaded, splicedFrom, emitting, invocations, remounted, done>>

(* A slip: includes followed as they are met. *)
PopNewEager ==
  LET f == Popped.file
      parses == crate.health[f] = "sound"
  IN  /\ queue # <<>>
      /\ f \notin visited /\ parses
      /\ visited' = visited \cup {f}
      /\ loaded' = Append(loaded, LoadedAs(f, Popped))
      /\ queue' = Rest \o ModDecls(f, Popped) \o Splices(f, Popped)
      /\ excluded' = excluded \o LeftOut(f, Popped)
      /\ warnings' = warnings \o Unresolved(f, Popped)
      /\ emitting' = emitting \cup Defined(f)
      /\ invocations' = invocations \o Invoked(f, Popped)
      /\ UNCHANGED <<crate, deferred, splicedFrom, remounted, done>>

(* A file popped for the first time is loaded, and its items are walked if   *)
(* it parses.                                                                *)
PopNew ==
  LET f == Popped.file
      parses == crate.health[f] = "sound"
  IN  /\ queue # <<>>
      /\ f \notin visited /\ crate.health[f] \in {"sound", "broken"}
      /\ visited' = visited \cup {f}
      /\ loaded' = Append(loaded, LoadedAs(f, Popped))
      /\ IF parses
         THEN /\ queue' = Rest \o ModDecls(f, Popped)
              /\ deferred' = deferred \o Splices(f, Popped)
              /\ excluded' = excluded \o LeftOut(f, Popped)
              /\ warnings' = warnings \o Unresolved(f, Popped)
              /\ emitting' = emitting \cup Defined(f)
              /\ invocations' = invocations \o Invoked(f, Popped)
         ELSE /\ queue' = Rest
              /\ warnings' = Append(warnings, <<f, 0>>)
              /\ UNCHANGED <<deferred, excluded, emitting, invocations>>
      /\ UNCHANGED <<crate, splicedFrom, remounted, done>>

IndexOf(f) == CHOOSE k \in 1..Len(loaded) : loaded[k].file = f
IsSeen(f)  == \E k \in 1..Len(loaded) : loaded[k].file = f

(* Another mount of a file the `mod` walk loaded; the root has no other.     *)
Remounts(k) ==
  splicedFrom = 0 /\ Popped.module # loaded[k].module /\ loaded[k].module # <<>>

(* A slip: a file cleared before walked once more. *)
LiftsAlways(k) == ~ Popped.testOnly

Lifts(k) == ~ Popped.testOnly /\ loaded[k].testOnly

(* A slip: the includes of a lifted file left as they were. *)
LiftedSplicesLost(file, site) == <<>>

LiftedSplices(file, site) == Splices(file, site)

(* Popped again: the file is the same, but a declaration nothing confines    *)
(* clears it, and its items are walked again so that theirs are cleared too. *)
(* That walk only queues: what the first one excluded, warned about and      *)
(* recorded of macros stands.                                                *)
PopAgain ==
  /\ queue # <<>>
  /\ Popped.file \in visited
  /\ IF ~ IsSeen(Popped.file)
     THEN queue' = Rest /\ UNCHANGED <<deferred, loaded, remounted>>
     ELSE LET k == IndexOf(Popped.file)
              f == loaded[k].file
              site == [isModRoot |-> loaded[k].isModRoot, module |-> loaded[k].module,
                       testOnly |-> FALSE, depth |-> Popped.depth]
              parses == crate.health[f] = "sound"
          IN  /\ remounted' = IF Remounts(k)
                              THEN remounted \cup {<<loaded[k].module, Popped.module>>}
                              ELSE remounted
              /\ IF Lifts(k)
                 THEN loaded' = [loaded EXCEPT ![k] = LoadedAs(f, site)]
                 ELSE UNCHANGED loaded
              /\ queue' = IF Lifts(k) /\ parses THEN Rest \o ModDecls(f, site) ELSE Rest
              /\ deferred' = IF Lifts(k) /\ parses THEN deferred \o LiftedSplices(f, site) ELSE deferred
  /\ UNCHANGED <<crate, visited, splicedFrom, emitting, invocations, excluded, warnings, done>>

(* The queue has drained.  Invocations of macros now known to declare        *)
(* modules are resolved where they were written, the others kept, and what   *)
(* was held back becomes the queue; nothing held back, and the walk is over. *)
Settle ==
  LET Unknown(i) == i.macro \notin emitting
      Hits(i) == i.macro \in emitting /\ i.probe
      hits == Where(invocations, Hits)
      kept == Where(invocations, Unknown)
      held == deferred \o [k \in 1..Len(hits) |-> invocations[hits[k]].pending]
  IN  /\ queue = <<>> /\ ~ done
      /\ splicedFrom' = IF splicedFrom = 0 THEN Len(loaded) + 1 ELSE splicedFrom
      /\ invocations' = [k \in 1..Len(kept) |-> invocations[kept[k]]]
      /\ queue' = held
      /\ deferred' = <<>>
      /\ done' = (held = <<>>)
      /\ UNCHANGED <<crate, visited, loaded, emitting, excluded, remounted, warnings>>

Next == PopAbsent \/ PopNew \/ PopAgain \/ Settle

Spec == Init /\ [][Next]_vars /\ WF_vars(Next)
-------------------------------------------------------------------------------
TypeOK ==
  /\ visited \subseteq Files
  /\ \A p \in ToSet(queue) \cup ToSet(deferred) :
       /\ p.file \in Files /\ p.depth \in 0..MaxIncludeDepth
       /\ p.isModRoot \in BOOLEAN /\ p.testOnly \in BOOLEAN
  /\ IsInjective([k \in 1..Len(loaded) |-> loaded[k].file])
  /\ {loaded[k].file : k \in 1..Len(loaded)} \subseteq visited
  /\ splicedFrom \in 0..Len(loaded) + 1
  /\ emitting \subseteq Macros
  /\ done => queue = <<>> /\ deferred = <<>>

(* What the finished walk is compared with: files reached by closing a set   *)
(* of edges, an edge being an item of a file that was parsed, by the rule    *)
(* the file was loaded with, to a file of this build.                        *)

Loaded  == {loaded[k].file : k \in 1..Len(loaded)}
Modules == {loaded[k].file : k \in {j \in 1..Len(loaded) : splicedFrom = 0 \/ j < splicedFrom}}
Cleared == {loaded[k].file : k \in {j \in 1..Len(loaded) : ~ loaded[j].testOnly}}

Leads(item, f) ==
  LET target == item.at[loaded[IndexOf(f)].isModRoot]
  IN  IF IsOnDisk(target) /\ crate.health[target] \in {"sound", "broken"} THEN {target} ELSE {}

ModuleOf(f)  == loaded[IndexOf(f)].module
PathIn(f, i) == ModuleOf(f) \o i.within \o <<i.name>>

ItemsOf(f, kinds) ==
  IF crate.health[f] = "sound" THEN {i \in ToSet(crate.items[f]) : i.kind \in kinds} ELSE {}

DefinedAnywhere == {i.macro : i \in UNION {ItemsOf(f, {"define"}) : f \in Loaded}}

(* The edges of these kinds of items; of the ones nothing confines if free. *)
Edges(kinds, free) ==
  UNION {UNION {{<<f, t>> : t \in Leads(i, f)} :
                i \in {j \in ItemsOf(f, kinds) : /\ free => ~ j.confined
                                                 /\ j.kind = "invoke" => j.macro \in DefinedAnywhere}} :
         f \in Loaded}

Mods    == {"mod"}
Spliced == {"include", "claim"}
Emitted == {"invoke"}

Closure(start, edges) ==
  LET IsClosed(S) == start \subseteq S /\ \A e \in edges : e[1] \in S => e[2] \in S
  IN  {f \in Files : \A S \in SUBSET Files : IsClosed(S) => f \in S}

Onward(S, edges) == S \cup {e[2] : e \in {d \in edges : d[1] \in S}}

(* The files within so many splices of the root. *)
Within(n, free) ==
  LET reach[k \in 0..n] ==
        IF k = 0 THEN Closure({Root}, Edges(Mods, free))
        ELSE Closure(Onward(reach[k - 1], Edges(Spliced, free)), Edges(Mods, free))
  IN  reach[n]

(* Everything reported as reached is, and everything within MaxIncludeDepth  *)
(* splices of the root is reached, the files a macro's invocations claim     *)
(* too, wherever in the walk its definition was parsed                       *)
(* (src/modtree.rs:500-558).                                                 *)
ReachIsExact ==
  done =>
    /\ Loaded \subseteq Closure({Root}, Edges(Mods \cup Spliced \cup Emitted, FALSE))
    /\ crate.health[Root] \in {"sound", "broken"} => Within(MaxIncludeDepth, FALSE) \subseteq Loaded
    /\ \A e \in Edges(Emitted, FALSE) : e[2] \in Loaded

(* The boundary between files and spliced: a file `mod` declarations reach   *)
(* is analyzed however many includes reach it too, and one they do not reach *)
(* is not (src/modtree.rs:282-286).                                          *)
ModulesAreReachedByMods ==
  done /\ Loaded # {} => Modules = Closure({Root}, Edges(Mods, FALSE))

(* test_only is cleared only where some chain of declarations, none of them  *)
(* confined, leads.                                                          *)
ClearedIsDeserved ==
  Cleared \subseteq Closure({Root}, Edges(Mods \cup Spliced \cup Emitted, TRUE))

(* Any declaration no gate confines to a test build clears the flag, however *)
(* late it arrives, in the file and in what it leads to                      *)
(* (src/modtree.rs:265-275).                                                 *)
LateDeclarationsClear ==
  done /\ Loaded # {} => Within(MaxIncludeDepth, TRUE) \subseteq Cleared

(* Inline blocks are confined by their own gates once their file is not.     *)
InlineModsFollowTheirFile ==
  \A k \in 1..Len(loaded) :
    LET f == loaded[k]
        blocks == ItemsOf(f.file, {"inline"})
        Paths(which) == {PathIn(f.file, i) : i \in which}
    IN  f.testOnlyMods =
          IF f.testOnly THEN Paths(blocks)
          ELSE Paths(blocks) \ Paths({i \in blocks : ~ i.confined})

(* The walk's answer: what it reaches, on which side of the boundary, and    *)
(* which of it only tests compile, whatever order the declarations come in.  *)
WalkIsExact     == ReachIsExact /\ ModulesAreReachedByMods
TestOnlyIsExact == ClearedIsDeserved /\ LateDeclarationsClear /\ InlineModsFollowTheirFile

(* Walking a file again repeats no warning and no exclusion. *)
NothingIsSaidTwice ==
  /\ \A j, k \in 1..Len(warnings) : warnings[j] = warnings[k] => j = k
  /\ \A j, k \in 1..Len(excluded) : excluded[j] = excluded[k] => j = k

(* A module mounted under two paths is known to be: every `mod` of a walked  *)
(* module that names a file loaded under another path is in `remounted`, and *)
(* nothing else is (src/modtree.rs:169-172).                                 *)
RemountsAreKnown ==
  LET Mounts == UNION {UNION {{<<t, PathIn(f, i)>> : t \in Leads(i, f)} :
                              i \in ItemsOf(f, {"mod"})} : f \in Modules}
  IN  done => remounted = {<<ModuleOf(m[1]), m[2]>> :
                           m \in {n \in Mounts : ModuleOf(n[1]) \notin {<<>>, n[2]}}}

(* A file met again, by whatever way, is settled without a second account of *)
(* it and without losing the path it was met at (src/modtree.rs:334-404).    *)
SecondMeetingsAreSettled == NothingIsSaidTwice /\ RemountsAreKnown

(* Declarations that lead back to a file above them do not keep the walk     *)
(* going.                                                                    *)
Terminates == <>done
===============================================================================
