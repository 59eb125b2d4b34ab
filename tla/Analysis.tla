-------------------------------- MODULE Analysis --------------------------------
(*****************************************************************************)
(* analyze_with (src/lib.rs): one run over a workspace.  The packages are    *)
(* walked one after another; what they reach is put together, the packages   *)
(* that could not be walked completely drop out of the checks that need it,  *)
(* and then each check is made on what all of them left behind.              *)
(*                                                                           *)
(* Each walk is the closure ModuleWalk shows it to be.  A package's truth -  *)
(* what its build compiles - is the same closure taken through the files     *)
(* Deadwood cannot parse.  An item, a gate and a dependency name stand for   *)
(* all of a file's: `uses` says which files name the items of which.         *)
(*****************************************************************************)
EXTENDS Integers, Sequences, SequencesExt

CONSTANTS Packages, Files, Deps,
          Workspaces,  \* the workspaces analysed
          Off          \* the kinds whose severity is `off`

Kinds == {"dead_file", "unused_pub_item", "unused_dependency", "unsatisfiable_cfg"}

(* A declaration that leads from one file to another: `mod`, `include!`, or  *)
(* a `mod` claimed by macro tokens.  `ruledOut` is the packages whose matrix *)
(* its gate does not hold under.                                             *)
Edge == [from: Files, to: Files, kind: {"mod", "include", "claim"}, ruledOut: SUBSET Packages]

ASSUME WorkspacesAreTyped ==
  \A w \in Workspaces :
    /\ w.order \in Seq(Packages) /\ ToSet(w.order) = Packages /\ IsInjective(w.order)
    /\ DOMAIN w.targets = Packages
    /\ \A p \in Packages : w.targets[p] \in Seq(Files)  \* its crate roots
    /\ w.edges \subseteq Edge
    /\ w.broken \subseteq Files            \* cannot be parsed
    /\ w.lost \subseteq Files              \* declare a module that is not there
    /\ w.swept \in [Packages -> SUBSET Files]  \* below a package's own crate roots
    /\ w.dir \in [Packages -> SUBSET Files]    \* in a package's directory
    /\ DOMAIN w.real = Files               \* a file's identity, links resolved
    /\ w.uses \subseteq Files \X Files
    /\ w.gated \subseteq Files             \* hold a `#[cfg]` gate
    /\ w.holds \subseteq Files \X Packages \* which some build of a package satisfies
    /\ w.names \in [Files -> SUBSET Deps]
    /\ w.deps \in [Packages -> SUBSET Deps]
    /\ w.ignored \subseteq Files \cup Packages  \* a package stands for its manifest

ASSUME FilesAreFinite == IsFiniteSet(Files)
ASSUME OffAreKinds == Off \subseteq Kinds

VARIABLES workspace,
          pc,          \* which check is being made
          next,        \* the target to walk, as <<package, target>> positions
          before,      \* warnings.len() when the package was begun
          own,         \* package_reachable, package_excluded, package_spliced
          seen,        \* the same, kept of every package once it is done
          reachable, excluded, spliced,   \* the same of all packages
          crates,      \* a CrateUnit for every target walked
          impossible,  \* GateSites::impossible, as <<file, package>> pairs
          satisfiable, \* GateSites::satisfiable
          complete,    \* packages left in dead_file_scans and references
          judged,      \* how many of them the dependency check has done
          warnings, findings

vars == <<workspace, pc, next, before, own, seen, reachable, excluded, spliced, crates, impossible,
          satisfiable, complete, judged, warnings, findings>>

gateVars  == <<impossible, satisfiable>>
unionVars == <<reachable, excluded, spliced>>

-------------------------------------------------------------------------------
Closure(start, edges) ==
  LET IsClosed(S) == start \subseteq S /\ \A e \in edges : e.from \in S => e.to \in S
  IN  {f \in Files : \A S \in SUBSET Files : IsClosed(S) => f \in S}

(* What a walk can follow: the declarations of files that parse. *)
Followed(p) ==
  {e \in workspace.edges : p \notin e.ruledOut /\ e.from \notin workspace.broken}

(* Resolved: the module files of one crate, the ones only splicing reaches,  *)
(* and the ones its gates keep out of the build.                             *)
Resolved(p, root) ==
  LET mods == {e \in Followed(p) : e.kind = "mod"}
      files == Closure({root}, mods)
      all == Closure({root}, Followed(p))
  IN  [files |-> files, spliced |-> all \ files,
       excluded |-> {e.to : e \in {d \in workspace.edges :
                                    /\ d.from \in all \ workspace.broken
                                    /\ d.kind = "mod" /\ p \in d.ruledOut}}]

Nobody == [files |-> {}, spliced |-> {}, excluded |-> {}]

(* The modules of a crate that the table has: not those a second `mod`       *)
(* mounts too (Resolved::remounted; the root is none of them), nor what lies *)
(* below those.  They are read like spliced files, from each of the mounts.  *)
Owned(root, mods) ==
  LET files == Closure({root}, mods)
      twice == {f \in files \ {root} :
                  \E d, e \in mods : /\ d.to = f /\ e.to = f /\ d.from # e.from
                                    /\ {d.from, e.from} \subseteq files}
  IN  files \ Closure(twice, {e \in mods : e.to # root})

(* A slip: what the table has of a crate is read with the rest as well. *)
DividedTwice(r, owned) == [files |-> owned, spliced |-> r.files \cup r.spliced]

(* The CrateUnit of a walk: what the table has, and what it only reads.      *)
Divided(r, owned) == [files |-> owned, spliced |-> (r.files \cup r.spliced) \ owned]

Init ==
  /\ workspace \in Workspaces
  /\ pc = "walk"
  /\ next = <<1, 1>> /\ before = 0 /\ own = Nobody
  /\ seen = [p \in Packages |-> Nobody]
  /\ reachable = {} /\ excluded = {} /\ spliced = {}
  /\ crates = <<>>
  /\ impossible = {} /\ satisfiable = {}
  /\ complete = <<>> /\ judged = 0
  /\ warnings = <<>> /\ findings = {}

Package == workspace.order[next[1]]

(* GateSites::record: the first package to condemn a site is named, and any  *)
(* package that can compile it overrules, in whatever order they come.       *)
Record(p, files) ==
  LET sites == {f \in files \cap workspace.gated : f \notin workspace.broken}
      condemned == {f \in sites : <<f, p>> \notin workspace.holds}
      Named(f) == \E q \in Packages : <<f, q>> \in impossible
  IN  /\ satisfiable' = satisfiable \cup (sites \ condemned)
      /\ impossible' = impossible \cup {<<f, p>> : f \in {g \in condemned : ~ Named(g)}}

(* The warnings of one walk; a file two walks meet is warned about by each. *)
Troubles(files) == SetToSeq(files \cap (workspace.broken \cup workspace.lost))

Walking == next[1] <= Len(workspace.order)

WalkTarget ==
  /\ Walking /\ next[2] <= Len(workspace.targets[Package])
  /\ LET root  == workspace.targets[Package][next[2]]
         r     == Resolved(Package, root)
         owned == Owned(root, {e \in Followed(Package) : e.kind = "mod"})
     IN  /\ own' = [files    |-> own.files \cup r.files,
                    spliced  |-> own.spliced \cup r.spliced,
                    excluded |-> own.excluded \cup r.excluded]
         /\ crates' = Append(crates, Divided(r, owned))
         /\ Record(Package, r.files)
         /\ warnings' = warnings \o Troubles(r.files \cup r.spliced)
  /\ next' = <<next[1], next[2] + 1>>
  /\ UNCHANGED <<workspace, pc, before, seen, unionVars, complete, judged, findings>>

IsIncomplete == Len(warnings) > before

(* A slip: only the packages that were walked completely are put together. *)
UniteIfComplete ==
  /\ reachable' = IF IsIncomplete THEN reachable ELSE reachable \cup own.files
  /\ excluded' = excluded \cup own.excluded
  /\ spliced' = spliced \cup own.spliced

(* What a package reached counts for the others whatever went wrong in it.   *)
Unite ==
  /\ reachable' = reachable \cup own.files
  /\ excluded' = excluded \cup own.excluded
  /\ spliced' = spliced \cup own.spliced

(* Its own dead-file and dependency checks are skipped then, out loud.       *)
EndPackage ==
  /\ Walking /\ next[2] > Len(workspace.targets[Package])
  /\ Unite
  /\ IF IsIncomplete
     THEN warnings' = Append(warnings, Package) /\ UNCHANGED complete
     ELSE complete' = Append(complete, Package) /\ UNCHANGED warnings
  /\ before' = Len(warnings')
  /\ seen' = [seen EXCEPT ![Package] = own]
  /\ own' = Nobody
  /\ next' = <<next[1] + 1, 1>>
  /\ UNCHANGED <<workspace, pc, crates, gateVars, judged, findings>>

Say(kind, file, about) == [kind |-> kind, file |-> file, about |-> about]

(* A slip: only the spelling a file was reached by excuses it. *)
ExcusedAsSpelled(f) == f \in reachable \cup excluded \cup spliced

(* Under whichever spelling it was reached. *)
Excused(f) ==
  \E g \in reachable \cup excluded \cup spliced : workspace.real[g] = workspace.real[f]

DeadFiles ==
  UNION {{Say("dead_file", f, p) : f \in {g \in workspace.swept[p] : ~ Excused(g)}} :
         p \in ToSet(complete)}

FindDeadFiles ==
  /\ pc = "walk" /\ ~ Walking
  /\ findings' = DeadFiles
  /\ pc' = "items"
  /\ UNCHANGED <<workspace, next, before, own, seen, unionVars, crates, gateVars, complete,
                 judged, warnings>>

(* find_items asks for files without a syntax tree as well. *)
ItemsCanBeJudged ==
  warnings = <<>> /\ \A c \in ToSet(crates) : c.files \cap workspace.broken = {}

(* The table holds the items of the files of its units; the others are read  *)
(* for what they name.                                                       *)
Table   == UNION {c.files : c \in ToSet(crates)}
Readers == Table \cup (UNION {c.spliced : c \in ToSet(crates)})

UnusedItems ==
  {Say("unused_pub_item", f, f) : f \in {i \in Table : \A g \in Readers : <<g, i>> \notin workspace.uses}}

FindItems ==
  /\ pc = "items"
  /\ IF ItemsCanBeJudged
     THEN findings' = findings \cup UnusedItems /\ UNCHANGED warnings
     ELSE warnings' = Append(warnings, "items") /\ UNCHANGED findings
  /\ pc' = "dependencies"
  /\ UNCHANGED <<workspace, next, before, own, seen, unionVars, crates, gateVars, complete, judged>>

(* The dependency check's own reading of `include!`s, from a parsed file.    *)
Including(files) ==
  Closure(files, {e \in workspace.edges : e.kind = "include" /\ e.from \notin workspace.broken})

(* add_target, then add_unreached_sources: the module files, the rest of the *)
(* package's directory, and what either includes.                            *)
ReadForNames(p) ==
  Including(seen[p].files \cup (workspace.dir[p] \ seen[p].excluded))

UnusedDependencies(p) ==
  {Say("unused_dependency", p, d) :
     d \in {c \in workspace.deps[p] : \A f \in ReadForNames(p) : c \notin workspace.names[f]}}

JudgeDependencies ==
  /\ pc = "dependencies" /\ judged < Len(complete)
  /\ LET p == complete[judged + 1]
     IN  IF ReadForNames(p) \cap workspace.broken # {}
         THEN warnings' = warnings \o <<p, p>> /\ UNCHANGED findings
         ELSE findings' = findings \cup UnusedDependencies(p) /\ UNCHANGED warnings
  /\ judged' = judged + 1
  /\ UNCHANGED <<workspace, pc, next, before, own, seen, unionVars, crates, gateVars, complete>>

(* GateSites::into_findings *)
GateFindings ==
  {Say("unsatisfiable_cfg", s[1], s[2]) : s \in {c \in impossible : c[1] \notin satisfiable}}

(* apply_config: findings are dropped, never the evidence for others. *)
Configured(found) ==
  {f \in found : f.file \notin workspace.ignored /\ f.kind \notin Off}

Finish ==
  /\ pc = "dependencies" /\ judged = Len(complete)
  /\ findings' = Configured(findings \cup GateFindings)
  /\ pc' = "done"
  /\ UNCHANGED <<workspace, next, before, own, seen, unionVars, crates, gateVars, complete,
                 judged, warnings>>

Next ==
  WalkTarget \/ EndPackage \/ FindDeadFiles \/ FindItems \/ JudgeDependencies \/ Finish

Spec == Init /\ [][Next]_vars

-------------------------------------------------------------------------------
Reach == [files: SUBSET Files, spliced: SUBSET Files, excluded: SUBSET Files]

TypeOK ==
  /\ pc \in {"walk", "items", "dependencies", "done"}
  /\ own \in Reach /\ seen \in [Packages -> Reach]
  /\ reachable \cup excluded \cup spliced \subseteq Files
  /\ \A c \in ToSet(crates) : c.files \subseteq Files /\ c.spliced \cap c.files = {}
  /\ IsInjective(complete) /\ ToSet(complete) \subseteq Packages
  /\ judged \in 0..Len(complete) /\ before \in 0..Len(warnings)
  /\ \A f \in findings : f.kind \in Kinds

(* What a package's build really contains. *)
Built(p) == {e \in workspace.edges : p \notin e.ruledOut}
Roots(p) == ToSet(workspace.targets[p])
Compiled(p) == Closure(Roots(p), Built(p))
BuiltMods(p) == {e \in Built(p) : e.kind = "mod"}
Modules(p)  == Closure(Roots(p), BuiltMods(p))
LeftOut(p)  == {e.to : e \in {d \in workspace.edges : d.kind = "mod" /\ p \in d.ruledOut
                                                        /\ d.from \in Compiled(p)}}

Done == pc = "done"
Found(kind) == {f \in findings : f.kind = kind}

(* A file is reported dead only if no package was seen to compile it or to   *)
(* leave it out, under any spelling, the packages whose own check was        *)
(* skipped included, and only for a package whose walk missed nothing        *)
(* (src/lib.rs:340-346, 438-440).                                            *)
DeadFilesAreSeenByNobody ==
  \A f \in Found("dead_file") :
    /\ seen[f.about].files \cup seen[f.about].spliced = Compiled(f.about)
    /\ \A p \in Packages : \A g \in seen[p].files \cup seen[p].spliced \cup seen[p].excluded :
         workspace.real[g] # workspace.real[f.file]

(* An item is reported unused only if no package compiles a file that names  *)
(* it, whatever Deadwood saw of it (src/lib.rs:566-569).                     *)
ItemsAreNamedByNobody ==
  \A f \in Found("unused_pub_item") : \A p \in Packages : \A g \in Compiled(p) :
    <<g, f.file>> \notin workspace.uses

(* The sources of a package: its modules, what else is in its directory and  *)
(* not left out by its matrix, and what either includes.                     *)
Sources(p) ==
  Closure(Modules(p) \cup (workspace.dir[p] \ LeftOut(p)), {e \in workspace.edges : e.kind = "include"})

(* A dependency is reported only if no source of the package names it, and   *)
(* one that could not be read might (src/lib.rs:456-478, src/deps.rs:84-97). *)
DependenciesAreNamedByNobody ==
  \A f \in Found("unused_dependency") : \A g \in Sources(f.file) : f.about \notin workspace.names[g]

(* A gate is reported only if every package seen to have it in a module      *)
(* finds it impossible, in whatever order the packages come, and the package *)
(* named in the message is one of them (src/lib.rs:779-786).                 *)
GatesAreImpossibleWhereSeen ==
  \A f \in Found("unsatisfiable_cfg") :
    /\ f.file \in seen[f.about].files
    /\ \A p \in Packages : f.file \in seen[p].files => <<f.file, p>> \notin workspace.holds

(* What is reported is denied by nothing that was seen, by whichever package *)
(* and whatever went wrong in it; and no item or dependency is reported that *)
(* any file names, seen or not.  A file or a gate that only an unseen        *)
(* declaration reaches may be reported (README, known limits).               *)
ReportsFitWhatWasSeen ==
  DeadFilesAreSeenByNobody /\ ItemsAreNamedByNobody /\ DependenciesAreNamedByNobody
    /\ GatesAreImpossibleWhereSeen

(* The modules of a crate that one chain of `mod`s leads to: only those have *)
(* a module path of their own to judge their items by.                       *)
MountedOnce(root, mods) ==
  LET files == Closure({root}, mods)
      Alone(e) == \A d \in mods : d.to = e.to /\ d.from \in files => d.from = e.from
  IN  Closure({root}, {e \in mods : Alone(e)})

(* A run without warnings has the whole answer: the file a prune or a write  *)
(* makes of it loses nothing that was skipped (src/lib.rs:748-758).          *)
CleanRunIsExact ==
  Done /\ warnings = <<>> =>
    LET modules == UNION {Modules(p) : p \in Packages}
        once == UNION {UNION {MountedOnce(r, BuiltMods(p)) : r \in Roots(p)} : p \in Packages}
        compiled == UNION {Compiled(p) : p \in Packages}
        known == compiled \cup UNION {LeftOut(p) : p \in Packages}
        Dead(f) == \A g \in known : workspace.real[g] # workspace.real[f]
        Unnamed(f) == \A g \in compiled : <<g, f>> \notin workspace.uses
        Impossible(f) == \A p \in Packages : f \in Modules(p) => <<f, p>> \notin workspace.holds
        Reported(kind) == {f.file : f \in Found(kind)}
        Kept(kind, files) == IF kind \in Off THEN {} ELSE files \ workspace.ignored
    IN  /\ Reported("dead_file") =
             Kept("dead_file", {f \in UNION {workspace.swept[p] : p \in Packages} : Dead(f)})
        /\ Reported("unused_pub_item") = Kept("unused_pub_item", {f \in once : Unnamed(f)})
        /\ Reported("unsatisfiable_cfg") =
             Kept("unsatisfiable_cfg", {f \in modules \cap workspace.gated : Impossible(f)})
        /\ {<<f.file, f.about>> : f \in Found("unused_dependency")} =
             IF "unused_dependency" \in Off THEN {}
             ELSE UNION {{<<p, d>> : d \in {c \in workspace.deps[p] : \A f \in Sources(p) : c \notin workspace.names[f]}} :
                         p \in Packages \ workspace.ignored}
===============================================================================
