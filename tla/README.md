# TLA+ models and proofs of Deadwood

Deadwood (`src/`) reads a cargo workspace and reports what nothing uses: files no
`mod` reaches, `pub` items nothing live names, dependencies nobody spells,
dependencies in the wrong table, `#[cfg]` gates that can never hold. Its contract
is stated over and over in its comments: it may miss a finding, it may not invent
one. Most of the work behind that contract is bookkeeping: lists that several
packages share, walks that run again from another starting point, flags cleared by
a late arrival, checks skipped because an earlier one was incomplete, a baseline
file that outlives the run. This directory models that bookkeeping, checks it with
TLC and proves part of it with TLAPS.

Paths in the modules' comments are those of the repository (`src/lib.rs`,
`docs/BASELINE.md`).

## The system

One run of `deadwood check` is sequential and has one thread. It goes through the
packages in the order `cargo metadata` lists them, and through each package's
targets. The exceptions are the file system, which two runs may share (the baseline
file is the one thing Deadwood writes), and Rust's hash maps and hash sets, whose
order differs from run to run.

| component | code | state it keeps | operations | what makes it correct |
|---|---|---|---|---|
| module walk | `modtree.rs` | two queues, the files loaded so far, who was cleared of `test_only`, macro claims, re-mounts | pop a declaration, parse, queue its `mod`s and `include!`s, lift a file, splice, settle claims | reaches what the build compiles, and marks test-only only what nothing else reaches |
| symbol table, name resolution | `resolve.rs` (`build`, `resolve_globs`, `walk_path`, `lookup`) | modules, definitions, imports, globs | collect, resolve globs in rounds, walk a path | what is not known is *unknown* and never *absent*; an answer acted on as certain is certain |
| reference walk | `resolve.rs` (`RefWalker`) | stacks of value and type scopes, namespace of the position, self type, enclosing item | visit an item, a construct, a path; bind a pattern | a name is recorded unless a local takes it, on behalf of the item it is written in |
| usage pass | `resolve.rs` (`record_references`, `mark_*`, `reachable`, the two lists) | `used`, `rooted`, `edges` | visit a mention, mark a definition, expand an alias, walk | the lists are those of the least live set, in every order |
| analysis pipeline | `lib.rs` (`analyze_with`) | `reachable`, `excluded`, `spliced`, crate units, warnings, findings | walk a package, skip or make each check, apply the configuration | no report is denied by what any package saw; without warnings the answer is whole |
| impossible gates | `lib.rs` (`GateSites`) | condemned and satisfiable sites | record a package's verdicts, report | a site is reported only if every package that has it condemns it |
| cfg evaluation | `cfg.rs` | the closed features, what was pruned, the gate sites | close the configured features, evaluate a predicate in three worlds, prune a file, name its gates | *Never* and *Always* only where no build of that world disagrees; narrowing takes nothing that is built |
| dependency checks | `deps.rs` | crate names with the contexts they are named in, renames | read a file, fold renames, judge an entry | a mention is charged to the crate it means; edits made on the reports lose no crate |
| baseline matching | `baseline.rs` (`Key`, `covers`, `relocations`, `apply`) | none | cover, relocate, find stale entries | suppression and staleness are one relation |
| baseline lifecycle | `baseline.rs` (`run`), `lib.rs` | the baseline file | check, `--write-baseline`, `--prune-baseline` | accepted findings stay quiet; nothing is dropped on partial evidence |
| baseline file | `baseline.rs` (`save`, `load`) | the file and `<file>.tmp` | create, write, rename, clean up; open, read, parse | a reader sees one whole baseline |
| configuration | `config.rs`, `glob.rs` | none | parse, match patterns, severities | reports are dropped, evidence never |
| metadata, command line, reports | `metadata.rs`, `main.rs`, `report.rs` | none | run cargo, print | pure input and output |
| packaging | `action.yml`, `scripts/` | none | | |

How they meet: the pipeline runs the module walk once per target and shares its
three file sets over all packages; the dead-file check reads the sets, the usage
pass reads the crate units, the dependency checks read one package's files again
and the rest of its directory besides, the gates are collected during the walk, the
warnings of any stage decide whether later stages, and the baseline's rewriting,
take place.

What is hard about it: order (of packages, of declarations, of queues, of hash
sets), partial failure (one file that does not parse among thousands), state gathered
for one purpose and read for another, second walks that must repeat the first, and on
the file system crashes and overlapping runs. `PROJECT.json` lists each hazard at its
line with the properties aimed at it, or with why there is none.

## Modules

### Usage pass: `SymbolTables`, `LiveCode`, `Reachability`

`SymbolTables` holds what the pass reads: the definitions, and the mentions, each
with what resolution answered (`reached`, and `opaque` for the names of the segments
it could not account for). The answers are a parameter, so everything shown about
the pass holds however names are resolved.

`Reachability` is the pass. `Visit` is the reference walker meeting a mention,
`MarkDef` one call of `mark_def_used`: the edge or root is recorded always, the
alias expanded the first time. `Expand` is the loop of `reachable`, `ListUnused`,
`EndFullWalk` and `ListTestOnly` the three walks' ends with the lists they yield.
The recursion is a set of pending calls and the stack is a set, because the code
starts both from hash sets.

`LiveCode` is the promise without an order in it: *live* is the least set that holds
the roots and what live definitions name. `Reachability` implements it by the
identity mapping: the code's `table`, `unused` and `testOnly` are the promise's.

### Baseline: `BaselineMatch`, `BaselineRuns`, `BaselineStore`, `BaselineSave`

`BaselineMatch` has the operators (coverage, `relocations`, the split of findings,
staleness, pruning). A finding's qualifiers may be missing on either side, which is
why coverage is symmetric and not transitive.

`BaselineRuns` is a project over time. Developers introduce and fix findings, move
files, shorten entries by hand, lose or break the file, and break the analysis for a
set of kinds; `check` runs in its three modes in between. `Refuses` is
`rewrites_on_partial_evidence`. That the findings of an analysis without warnings are
all there is, which makes refusing enough, is `CleanRunIsExact` of the next group.

`BaselineSave` is `save` and `load` as system calls over inodes, in any number of runs
that fail or are killed between any two. `BaselineStore` is the promise: the file is
replaced in one step. The mapping reads the owner of the text in the inode.

### Module walk: `ModuleWalk`

`modtree::resolve`, one action per turn of the two queues: a declaration that leads
nowhere (`PopAbsent`), to a file not met yet (`PopNew`), to one already loaded
(`PopAgain`, which may lift it), then the deferred splices and claims (`Settle`).
A file is the sequence of its items that can lead to another file; a warning and an
exclusion are the file and the item they are told of, 0 for the file as a whole.

Abstractions: inline `mod` blocks are flattened into the fields `within` and
`confined` of their items; an invocation that may name several files is several items;
`remounted` is a set; the sweep of an excluded module's directory is the file the
declaration names; an `include!` of a file that is not there is one of an unreadable
file; whether a file resolves children beside itself or in its own directory is the
argument of `at`.

### Pipeline: `Analysis`

`analyze_with` from the first walk to `apply_config`, for packages in any order. `WalkTarget`
takes what a walk returns as a closure of edges (what `ModuleWalk` shows of the walk itself)
and divides it into a crate unit: a module that a second `mod` mounts, and all below it, is
read for what it names and leaves the table (`Owned`). `EndPackage` unites the sets, whatever
the package's own checks do; `FindDeadFiles`, `FindItems`, `JudgeDependencies` and `Finish`
are the checks with their skips, `DeadFiles`, `UnusedItems` and `UnusedDependencies` what each
would report. A workspace fixes what is on disk: who mounts, includes or claims whom and under
which matrix, which files do not parse or are not there, who names what, which directory holds
what, which path is a link to which.

Abstractions: one item, at most one gate and one set of crate names per file; a package
in `ignored` stands for its manifest; include
depth and the renamed dependencies of other packages (`add_dependency_aliases`) are left out.

### Dependency checks: `DependencyEvidence`

One package. `ReadFile` is the collector over a file, `FoldFile` one step of `fold_aliases`
over that file's `use` renames, `EndFile` the merge into the target, `FoldTarget` one step
over the crate root's `extern crate` renames, `EndTarget` the merge into the package, `Judge`
the two checks. The steps of one fold come in any order: the code iterates a hash map. A hash
map has one crate for an alias, which is what `StandForOne` says of a file's renames and of a
target's. `Placement` is `misplacement` with `doubled`.

Abstractions: the files a target includes are files of it, `site` being the context
of the `include!`; which channel a mention came through is its `shift`; whether the
matrix or the allowlist takes an entry out of judgement is a field of the entry; a
manifest declares a crate at most once per table (platform tables are left out).

### Name resolution: `RustNames`, `NameResolution`

`NameResolution` is `SymbolTable::build` and the questions asked of the finished table.
`OpenFile` takes the next file of a target, or one spliced by a macro, of which only the
`use`s are collected, as roots of the module guessed for it, which becomes opaque.
`AddModule`, `AddExternCrate`, `AddItem` and `AddUse` are the arms of `collect_items`;
`EndCollect`, `TryGlob`, `NextRound` and `EndGlobs` are `resolve_globs`, with the table
answering each glob in the state it is in; `ResolveAliasNamespaces` asks every import what
it binds before it writes any answer. The walk (`WalkPath`, with `StepInto` and `LookupIn`)
is an operator over the table, recursive as the code is, both caps included. What the
callers do with it is `Marked` (`mark_path_used`, `mark_def_used`), `OwnerDefs`,
`BareNameMeans`, `PatternMayNameItem` and `Surface` (`externally_reachable_modules`). The
definitions a path reaches and the names it loses are the `path` of a mention in
`SymbolTables`, so what is shown here is the premise `Reachability` starts from.

`RustNames` is what the code is measured against: the names of a workspace as the compiler
binds them, namespace by namespace and build by build, declared names before glob names,
privacy and the extern prelude as the edition has them. It is external and shares with the
code only the way a `use` tree is flattened.

Abstractions: a module is the list of names that lead to it; an item of a body, associated
items and macros are no declarations; a mention is a path in a module.

### Reference walk: `RustScopes`, `LexicalScopes`

`LexicalScopes` is `RefWalker`, which makes mentions of a file's syntax tree. What the
recursion has yet to do is the list `todo`, with a task at the end of everything `in_scope`,
`with_pos`, `within` and `visit_item` set. `VisitItem`, `VisitMod`, `VisitUse`, `VisitImpl` and
`VisitMember` are the visitors of items; `VisitConstruct` those of blocks, `let`, `if`, `while`,
`for`, arms and closures, which differ in the parts they have in a scope of their own
(`OfConstruct`); `VisitPath` and `VisitTokens` record; `BindIdent` and `BindParts` are
`bind_pat_inner`.

`RustScopes` has the files and what Rust makes of their names. A file is one function from the
addresses of its nodes, a node's parts being counted in the order they are visited: nothing in
either module is recursive, which is what makes the walk provable. `IsFile` is the grammar,
which node may be which part of which (`Stands`). The rest reads a file by the binding rules
of Rust, but for three readings it takes from the walk (Known limits), from where a name
stands and not from the order it is met in: which constructs around it have a local of its
name for the part it stands in (`HasLocal`), which `impl` it is a self-reference in, and on
whose behalf it counts: the definitions the table has where it is written (`Container`). A
`mod` is nobody's edge, so what stands in one directly is the root's, while a `use` is on
behalf of its own alias, in a spliced file too. `MentionsAreExact` compares.

Abstractions: structs, enums, functions, consts and traits are one node with generics and
parts; what `pattern_may_name_item`, `owner_defs` and `bare_name_means` answer is given
(`NameResolution` checks those answers); an identifier in a macro's or an attribute's input
is a root, however it is read from the tokens. A pattern has no attributes, and a path in it
neither generic arguments nor a place in a range or a literal.

### cfg evaluation: `CfgEval`

`Gates` over one file. `Enable` is one turn of `close_over`, `Evaluate` is `eval` for all
predicates whose arguments are answered, in the three worlds at once (the configured matrix,
every build, every build but the test builds), `Prune` and `Name` each take one list of
items of `prune` and `gate_sites`. `IsPossible` and `TargetVerdict` are the two questions
asked for entries of the manifest. A build is what cargo and rustc decide by (features,
operating system, test, and freely what the code does not read), and `Holds` is rustc's
verdict; `Follows` is cargo's rule for features. Both are external.

Abstractions: a predicate is a node of a syntax graph, and what `cfg_predicate` cannot read
is *unknown*; wording (`render`, the undeclared names) is left out.

## What the runs check

All bounds are in the `.cfg` and MC modules; the sizes are those of a complete search.

| run | shows | bounds |
|---|---|---|
| `usage_pass` | lists right in every order; promise implemented; the pass ends | 3 definitions, of which two share a name and may share a site; at most 2 mentions beside the aliases' own; alias cycles, opaque paths, attribute strings, test, surface and API roots |
| `baseline_runs` | accepted findings stay quiet, a prune settles, the ledger is exact, runs only drop | 5 findings that share a name over 3 files in 2 packages, at most 2 at once, 1 kind that may be skipped |
| `baseline_save` | whole file, whole reads, promise implemented | 3 runs, one saver at a time, a text of 2 writes |
| `module_walk` | reach, boundary and `test_only` exact whatever the order of declarations; nothing is said twice; the walk ends | 6 files, includes 2 deep, one macro |
| `analysis` | no report is denied by what any package saw; a run without warnings is exact | 2 packages in both orders, 8 files, 8 shapes, one with files mounted twice, 7 kinds of trouble: 3360 workspaces |
| `dependencies` | mentions reach their crates; edits lose no crate and duplicates enable nothing | 3 crates, 3 targets with 4 files, two renames at a time; manifests with one crate twice |
| `cfg` | each answer holds in every concrete build it speaks for; nothing built is left out; every impossible gate is named once; the feature closure is cargo's | 4 names, 4 systems with one `family_of` does not know, 20 predicates, 4 feature tables, 40 matrices, 16 ways to gate a file, a module, an item in it and one beside it |
| `scopes` | every name of a body that means an item is recorded, on behalf of what the table has there, and no local is; what is set for a body is put back | 4591 files: 12 constructs with 10 patterns and 8 uses, one after another and one within another; generics, impls of 5 kinds of self type, traits, modules, nested items, spliced files |
| `resolution` | whatever a path means in some build is marked; globs lead where they name; the surface covers what consumers can write; certain answers are certain; the rounds end | 3212 workspaces of 3 crates, each in all its builds, and over 100 paths asked of each |

Why these are enough to meet the cases: three definitions are the smallest graph in
which a dead cycle hangs beside a live one and two copies share a site; two findings at
once are enough for two entries that compete for one, and one that could answer for
two; a save needs two pieces for a file to be half written; six files hold a file
mounted twice with something below it, and includes in a cycle one deeper than the cap;
two packages in both orders are enough for one to fail before or after the other needs
its evidence. The depth cap of `include!` is 8 in the code and 2 in `MCModuleWalk`; both
cut a chain that is longer. Predicates nest two connectives deep, and each connective is
proved for any depth. The workspaces of `resolution` are all choices of a few
declarations (3 of 19 around globs, 4 of 15 behind gates, 3 of 10 across crates with 2 of
6 in a spliced file, and the same in edition 2015) that compile in some build, with chains
of imports up to one longer than the cap (`MAX_ALIAS_DEPTH` is 8 in the code and 3 here;
`MAX_FANOUT_DEPTH` is the code's 1). Three globs make a ring of three modules, two
gated declarations make two builds disagree about a name. In `scopes` one name `h` is both
the module's function and every local, so that each use of it is one or the other; two
constructs are enough for a scope to leak out of the first or into the second.

Each property is paired in `PROJECT.json` with a plausible slip in the code (an operator
labelled *a slip* beside the definition it alters) under which TLC finds it violated.

Deadlock is not checked where a program ends: a finished pass, walk, analysis, save or
evaluation has no next step. `baseline_runs` never ends and is checked for it, and
`resolution` is checked for it too: its only idle step is `Finished`.

### Disagreements the runs exhibit

Each of these runs checks what a comment or document says and finds a counterexample in
what the code does. `PROJECT.json` quotes the lines.

- `baseline_overlap`: two runs that save at once share `<file>.tmp`; one renames the
  text the other is half way through.
- `cfg_closure`: a row `d/x`, where `d` is an optional dependency and so a feature, turns
  the feature `d` on for cargo and not for `close_over`; code behind it is left out.
- `resolution_namespaces`: a module's own function `T` hides a public struct `T` that a glob of
  the module brings: a type path is marked on the function, and the struct is reported. Names
  are kept apart in each namespace here (`KeptApart` of `RustNames`), and no body imports
  anything; the workspaces are a family made for the question (`MCMerging`).

### Known limits

Places where the code's answer is not the exact one, met while modelling, that the
properties exclude by a premise or a wording. They are listed so that a reader knows what a
property does not say.

Walk, pipeline and dependencies:
- Of dead files and gates `ReportsFitWhatWasSeen` asks only what was seen. When the walk of
  package Q is incomplete, its own dead-file check is skipped and the others' are not: a file of
  P's directory that only Q mounts, from a file that does not parse, is reported for P
  (`src/lib.rs:452`, against "Whether a file is compiled at all is a question about the
  workspace" at `src/lib.rs:340-346`). A file that does not parse can likewise hide the package
  that would have spared a gate (`src/lib.rs:383`, against "a sibling file that failed to parse
  says nothing about it, and cannot turn a non-finding into a finding" at `src/lib.rs:377-382`).
  Both happen in the states of `analysis`.
- A file cleared of `test_only` late does not clear what its macro invocations, recorded
  before, lead to (`src/modtree.rs:394`).
- A file reached only by `include!` keeps other items alive, which
  `docs/LIMITATIONS.md:100-104` says it does not.
- Renames of renames are folded in the order of a hash map, so which crate a mention is
  charged to can differ from run to run (`src/deps.rs:608`, `src/deps.rs:628`).
- A file's `use` rename is folded over inline modules and doc examples that never saw it
  (`src/deps.rs:1204-1210`).
- What the dependency check must have read (`Sources`) has the files of modules and of the
  package's directory but not the modules of an included file outside it: those are compiled
  and never read for crate names.

Resolution (`Apart`, `OneVisibility`, `NoSplicedReexport` in `NameResolution`):
- Namespaces are merged and the first module that has a name answers for all of them
  (`resolution_namespaces`); a private item of a globbed module answers like a public one.
- A name that only a glob not resolved yet will provide is taken for a crate, or in
  edition 2015 for a name of the crate root, in the round before.
- A `use` in a function body is an import of the module and hides what a glob of the module
  brings under that name, so that a live public item is reported, though the comment at
  `src/resolve.rs:1509-1512` has it "only make resolution more forgiving". The same holds
  for a `use` in an inline module of a spliced file, which is read as one of the file's module,
  `super::` included (`src/resolve.rs:646-652`).
- A `pub use` glob in a spliced file is read as a plain import, so what consumers reach through
  it is off the surface.
- Of two `mod` declarations of one module under different gates the last one collected decides
  whether it is public (`src/resolve.rs:1425`).
- `terminal_def` follows the last of several gated definitions.
- `self::super::x` and edition 2015's `::x` into the own crate are taken to lead outside.
- A dependency renamed to the name of another workspace crate is taken for that crate.

Scopes. `RustScopes` reads as the walk does, and not as Rust, in the first three; the grammar
leaves the others out (`AsRead`):
- A function's parameters are seen by the rest of its signature too: in
  `fn f(len: usize, b: [u8; len()])` the second `len` is taken for the first
  (`src/resolve.rs:2336-2337`).
- Inside `impl S` every path that starts with `S` is a self-reference, be it a function of that
  name or, in a module written in a method, another `S` (`src/resolve.rs:2526-2528`).
- The names in a module written in a function body are looked up in the module around it.
- Inside `impl S` a macro `S!` is a self-reference too.
- A `mod` in a body or in a spliced file whose path is that of a module elsewhere is looked up
  there (`by_path`, `src/resolve.rs:2481-2487`); here none has such a path (`ModuleOf`).
- A struct literal inside a const generic argument (`g::<{ S {} }>`) is looked up in the
  namespace of the path it stands in (`src/resolve.rs:2523`).

Gates are judged predicate by predicate: one that contradicts itself (`all(f, not(f))`) is
not seen as impossible, and with `test` in it is called test-only though no build has it.

### Fairness

The usage pass and the module walk are single function calls on one thread, so
`WF_vars(Next)` (the call is not abandoned) is all that is assumed, and `Terminates` is
what it gives: neither alias cycles nor declarations that lead back up keep the loops
going. No other specification states fairness and none has a liveness property: a save
may be killed, a project may be left alone. That glob resolution ends is a safety property
instead: `RoundsEnd` has each of its steps use up a glob or begin a shorter round, and with
no deadlock before `Finished` there is no other way it could go on. `CfgEval`'s loops run
over finite sets that only grow.

## What is proved

TLAPS checks these for every value of the constants, under the assumptions named in the
modules, which the runs evaluate too: `TablesAreTyped`, `NotYetIsNoList` (usage pass);
`UniverseAreFindings`, `OutagesAreKinds`, `PathsAreSequences`, `PackagesAreDirs`,
`NoneIsNoValue` (baseline); `RunsAreDistinct`, `PiecesArePositive`, `OverlapIsAChoice`
(its file); `SyntaxIsTyped`, `FamiliesAreTyped`, `PackagesAreTyped`, `UnnarrowedIsNoSet`,
`HoldsIsRustcs`, `ItemsNest` (cfg); `WorkspacesAreTyped`, `FilesAreFinite`, `OffAreKinds`
(pipeline); `SourcesAreTyped` (dependency checks); `RootIsAFile`, `DepthIsANumber`,
`CratesAreTyped`, `IncludesNameAFile` (module walk); `PatternsAreCautious`,
`OwnersAreCollected`, `FilesAreRust` (reference walk). Most say of which type a constant is, and
that what stands for nothing is no value. `HoldsIsRustcs` says what predicates mean,
`ItemsNest` that the items of a file are a tree, `FilesAreRust` that files are of the grammar,
`PatternsAreCautious` that what a pattern does name `pattern_may_name_item` says it may (a
certain answer of `NameResolution`), and `IncludesNameAFile` that an `include!` of
a file that is not there is modelled as one of an unreadable file.

`ReachabilityProofs`, for every set of definitions and every symbol table: type correctness;
the invariant `IInv`; every safety property of `usage_pass`; and `Refinement`: each step is a
step of `LiveCode` or a stutter. The properties speak of finished lists and are not inductive.
`IInv` adds why the lists come out right. `MarkingComplete`: what was met is recorded or still
pending. `MarkingSound`: nothing is recorded that was not met. `WalkInProgress`: what is off
the stack has its successors in `seen`, and `seen` lies in every set closed under the edges
that holds the roots, which is what makes a finished walk the *least* such set and two walks
equal (`WalksAgreeAlways`). `WalksFinished`: each list is the one its walk gives. The
refinement then needs only that the least closed set of recorded edges is the least live set,
which is one lemma in each direction.

`BaselineSaveProofs`, for any number of runs and pieces: with one saver at a time the
file always stands for one whole baseline, a read to the end is of one baseline, and
every system call implements `BaselineStore`. `IInv` is needed because `FileIsWhole`
alone does not survive a rename: the inode under `<file>.tmp` must have no other name and
no reader (`WritingApart`), its first `put` pieces must be the writer's, and an inode not
created yet must be nobody's (`Uncreated`). `TypeCorrect` holds with overlapping savers
too. That one saver at a time is needed is what `baseline_overlap` shows.

`BaselineRunsProofs`, first for every set of entries and findings: coverage is reflexive and
symmetric, a written baseline covers all it was written for, pruning uncovers nothing that
an exact key covered, pruning settles, and the ledger balances. These are statements about
operators, with no state. That a write settles (nothing reported, nothing stale, right after
it) is `WrittenCoversAll` and needs no run.

`BaselineRunsProofs`, then over any history of runs, edits, moves, losses of the file and
partial analyses: the four properties of `baseline_runs` and type correctness.
`AcceptedStaysQuiet` speaks of the reports, which come and go; what survives every step is
`AcceptedIsCovered`: an accepted finding is in the code, and while the file is there an entry
covers it by its key alone. The moved match cannot be in it: what it matches depends on what
else is found. Shortening an entry keeps what it covers (`AbbreviatingKeepsCoverage`), a prune
drops only what covers nothing found, and a rewrite on partial evidence is refused.
`LedgerIsExact` needs that a file's move is one item and not one fixed and one found
(`MovedIsOneItem`).

`CfgEvalProofs`, for every file, manifest, matrix and set of operating systems: whatever
`eval` answers holds in every build of the world asked about (`AnswersAreSound`), nothing
built is left out (`NarrowingIsSafe`), what is called test-only is in test builds only
(`ConfinementIsReal`), and the closure of the features is the least set cargo's rows allow
(`ClosureIsTheLeast`, where no `x/feature` row enables a feature `x`, which is where
`cfg_closure` begins). The induction is over the predicates answered and not over their
syntax: each leaf is right by itself (`LeavesAreSound`), each connective where its arguments
are (`ConnectivesAreSound`), and `IInv` adds that nothing is answered while the features may
still change (`Untouched`) and that what was pruned was pruned on answers that stand
(`PrunedRight`). `ClosedSoFar` is the invariant of the work list: features and queue together
are closed but for the queue and lie in every closed set. `NamingIsComplete` (one site for every
impossible gate) has `NamedSoFar`: a list of items waits only below items that are not dead,
and every item with nothing dead around it has its sites or a list waiting above it. That the
site is one rests on what an item is written in being a chain (`EnclosingIsAChain`) that ends
(`ItemsNest`), and so has an outermost dead item (`OneIsOutermost`). `TypeCorrect` is used by
all of them.

`AnalysisProofs`, for any number of packages in any order and any files: nothing is reported
that the walk of any package contradicts, complete or not, and no item or dependency that any
file names (`ReportsFitWhatWasSeenAlways`), and a run without warnings has the whole answer
(`CleanRunIsExactAlways`). Both follow from `RunInv`. Its `WalkInv` says what the lists hold
while the walk is under way: `EachIsWalked`, a package done was seen as the closure of its
roots; `ListsAreUnions` and `CratesAreUnions`, the shared lists are what the packages so far
contributed and no less; `SilenceIsClear`, a walk that raised no warning went through files
that all parse, so what it saw is what the build compiles; `GatesAreTold`, every package's
verdict on a gate is in one of the two lists. `Stages` says what each check began with and
left, and `ReportsAreTrue` that a finding, once made, is true of the workspace. That targets
may be walked one by one rests on `ClosureOfUnion`. That the table has the modules one chain
of mounts leads to, though the code takes away those mounted twice and all below them, is
`OwnedAreMountedOnce`.

`DependencyEvidenceProofs`, for any files, targets, renames and manifest:
`AttributionIsExactAlways`, `EditsLoseNothingAlways` and type correctness. A fold in the order
of a hash map is right because each state of it is the fold of the renames taken so far
(`FoldOneMore`), which is where it matters that no rename is of another's name: `EvidenceInv`
claims the charges only of packages whose renames are not `Chained`, as the property does.
`AttributedIsMeant` then equates what was folded, file by file and target by target, with what
each mention means. `EditsLoseNothing` is a statement about the manifest and the charges at
the end, whatever the charges are.

`ModuleWalkProofs`, for any crate with items in any order, any number of files and any depth
of includes: type correctness, `WalkIsExactAlways`, `TestOnlyIsExactAlways` and
`SecondMeetingsAlways`. Every turn of the loop takes one declaration off the queue and puts
on what its file says (`Walks`), so the parts of the invariant `Walked` are shown once for all
actions:
- `Deserved`: whatever waits, is loaded or is cleared of `test_only` is led to by items.
- `Ranked`: every file within the cap is reached, though the walk may meet it first by a chain
  longer than the shortest, at a depth that says nothing of the shortest. What can be said at
  every step is that a file has a round that reached it, that nothing waiting is deeper in
  includes than its round, and that what a file leads to is met in the right round or waits for it.
  That the finished walk has all files within the cap follows by induction over rounds
  (`RoundsReach`), which the prover does as the least number of a set (`LeastNumber`).
  `Deserved` and `Ranked` are claimed twice: of loaded files and all items, and of cleared
  files and the items nothing confines.
- `Called`: every invocation met waits or was answered, for macros whose definition came
  before and after.
- `Mounted`: before the first round ends only `mod`s were followed, which is the boundary;
  the root is a module and keeps its place, and a second path of a module is in `remounted`.

`Fresh` adds, for `TestOnlyIsExact`, that a loaded file's record is what loading it afresh at
its place would give, so a file cleared late has nothing left of its first walk; `Accounts`
adds, for `SecondMeetingsAreSettled`, that warnings and exclusions are those of the files
visited, each once. What each operator makes of a file's items is a lemma (`FollowIs`,
`ModDeclsAre`, `SplicesAre` and the rest), cited by name.

`LexicalScopesProofs`, for every file of the grammar, of any size and depth:
`MentionsAreExactAlways` and type correctness. Both speak of a walk that is over; what holds
while it goes on is `Scoping`, in three parts.
- `OnCourse`: what is left to do leads from the present scopes back to those of the beginning
  (`Leads`), through states in each of which the next node is met as it should be (`Fits`):
  a name is in a frame if and only if `RustScopes` has a local of that name for the node, a
  pattern in doubt apart, and module, owner, self type and namespace are those of the place it stands in.
- `MarkedRight`: what is recorded names an item, or a pattern was in doubt.
- `MarkedAll`: what is not recorded stands in a node that is yet to be visited.

`OnCourse` has to speak of the rest of the walk because the scopes do not say how they came
about: that a frame is gone again when its block is over is in the tasks waiting behind the
block and nowhere in the stacks. A visited node is replaced by its parts, so the step lemmas
show for each kind of node that its parts, met in order with what it sets for them, lead where
the node as a whole does (`ConstructLeads`, `PositionedLeads`, `ItemLeads`, `ImplLeads`), from
what `RustScopes` says of a part given its whole (`PartHasLocal`, `PartContainer`, `PartIsSelf`,
`PartModule`). No induction over syntax is needed: each node answers for its parts only, and
what a pattern introduces from any depth is what its parts do and itself (`IntroducedIs`, from
`PrefixSteps` on addresses). That there is an innermost place around a node is the least
number of a set (`InnermostExists`).

## Only model-checked

Liveness (`Terminates`) is out of the prover's reach. `NameResolution` and `RustNames` are
recursive as the code is: a path is walked through aliases of aliases, to a depth. What such an
operator computes would need induction over data, so their properties, `RoundsEnd`
included, are checked and not proved. Every other property of a passing run is a theorem.

## Not modelled

- Reading macro input by tokens, parsing, path normalisation: what an item or mention *is* is
  given to the models.
- `add_dependency_aliases`.
- Globs, configuration files, metadata, command line, reports, packaging: functions of their
  input without state, covered by unit tests.

## Plan

Written, in this order: the usage pass with its promise and proofs, because every item
report depends on it; the baseline, which is the only persistent state; the module walk;
the pipeline that ties the checks together; the dependency checks; name resolution, which
feeds the usage pass; the evaluation of gates, with its proofs; the reference walk.

Next:
1. `Analysis`: `add_dependency_aliases`.
2. Proofs: the walk of `NameResolution` as a function of depth and path instead of recursive
   operators, as was done for `LexicalScopes`, so that its safety can be stated to TLAPS.
