-------------------------------- MODULE CfgEval --------------------------------
(*****************************************************************************)
(* How src/cfg.rs decides which builds a gate holds in.  Gates::new closes   *)
(* the configured features (close_over); eval answers every predicate of a   *)
(* file in three worlds; prune takes out what the configured matrix leaves   *)
(* out, and gate_sites names the gates that no build satisfies.              *)
(*                                                                           *)
(* A predicate is a node with its arguments below it, so the recursion of    *)
(* eval is a set of nodes whose arguments have been answered.  The three     *)
(* worlds are answered in one step: their evaluations do not meet.           *)
(*****************************************************************************)
EXTENDS Naturals, FiniteSets

CONSTANTS Names,       \* features and dependencies: cargo keeps them in one table
          OSes,        \* values of target_os
          Listed,      \* those family_of knows
          Windows,     \* the value "windows"
          FamilyOf,    \* what rustc says of each
          Preds,       \* the predicates of a file
          Syntax,      \* what each is
          Items,       \* the items of a file, and the file itself
          Outside,     \* where the file itself is
          Packages,    \* manifests, matrices and files under analysis
          Unnarrowed   \* an axis of the matrix that was not configured

Truth   == {"Always", "Never", "Either"}
Family  == {"unix", "windows", "neither"}
(* Against what a gate is judged: the configured matrix, every build there   *)
(* could be, and those of them that are not test builds.                     *)
Worlds  == {"configured", "maximal", "nonTest"}

(* What a feature enables: `x`, `dep:x`, `x/feature` or `x?/feature`. *)
Row == [feature: Names, form: {"feature", "dep", "slash", "weak"}, name: Names]

(* syn::Meta, read.  What the code does not evaluate is "unknown", a `not`   *)
(* of anything but one predicate included.                                   *)
Predicate ==
       [op: {"feature"}, name: Names]
  \cup [op: {"os"}, name: OSes]
  \cup [op: {"family"}, name: {"unix", "windows"}]
  \cup [op: {"test", "unknown"}]
  \cup [op: {"not"}, arg: Preds]
  \cup [op: {"all", "any"}, args: SUBSET Preds]

Package ==
  [ keys:      SUBSET Names,                       \* of the feature table
    rows:      SUBSET Row,
    optional:  SUBSET Names,                       \* optional dependencies
    requested: (SUBSET Names) \cup {Unnarrowed},     \* [cfg] features
    os:        (SUBSET OSes) \cup {Unnarrowed},      \* [cfg] target_os
    test:      BOOLEAN,                            \* [cfg] test
    within:    [Items -> Items \cup {Outside}],     \* what an item is written in
    gates:     [Items -> SUBSET Preds],            \* its #[cfg] attributes
    tests:     SUBSET Items,                       \* free fns with #[test] or #[bench]
    entries:   SUBSET [key: Names, gate: Preds] ]  \* optional dependencies, each
                                                   \* under its platform's cfg

ArgsOf(p) ==
  CASE Syntax[p].op = "not"            -> {Syntax[p].arg}
    [] Syntax[p].op \in {"all", "any"} -> Syntax[p].args
    [] OTHER                           -> {}

ASSUME SyntaxIsTyped == Syntax \in [Preds -> Predicate]
ASSUME FamiliesAreTyped ==
  /\ FamilyOf \in [OSes -> Family]
  /\ \A o \in OSes : FamilyOf[o] = "windows" <=> o = Windows
  /\ Listed \subseteq OSes
ASSUME PackagesAreTyped == Packages \subseteq Package
ASSUME UnnarrowedIsNoSet == \A s \in SUBSET (Names \cup OSes) : s # Unnarrowed
ASSUME ItemsNest ==  \* of any items of a file, one is in none of the others
  /\ Outside \notin Items
  /\ \A p \in Packages : \A set \in SUBSET Items : set # {} => \E i \in set : p.within[i] \notin set

-------------------------------------------------------------------------------
(* One build: what rustc decides cfgs by.  External: cargo and the compiler. *)
Unread == {p \in Preds : Syntax[p].op = "unknown"}
Builds == [features: SUBSET Names, os: OSes, test: BOOLEAN, others: SUBSET Unread]

CONSTANT Holds   \* Holds[b][p]: the gate p is satisfied in the build b

ASSUME HoldsIsRustcs ==
  /\ Holds \in [Builds -> [Preds -> BOOLEAN]]
  /\ \A b \in Builds, p \in Preds :
       LET s == Syntax[p]
       IN  /\ s.op = "feature" => (Holds[b][p] <=> s.name \in b.features)
           /\ s.op = "os"      => (Holds[b][p] <=> b.os = s.name)
           /\ s.op = "family"  => (Holds[b][p] <=> FamilyOf[b.os] = s.name)
           /\ s.op = "test"    => (Holds[b][p] <=> b.test)
           /\ s.op = "unknown" => (Holds[b][p] <=> p \in b.others)
           /\ s.op = "not"     => (Holds[b][p] <=> ~Holds[b][s.arg])
           /\ s.op = "all"     => (Holds[b][p] <=> \A q \in s.args : Holds[b][q])
           /\ s.op = "any"     => (Holds[b][p] <=> \E q \in s.args : Holds[b][q])

-------------------------------------------------------------------------------
VARIABLES package,       \* what is analysed; fixed
          pc,
          queue,         \* close_over: features to enable
          features,      \* close_over: features enabled
          dependencies,  \* close_over: optional dependencies activated
          answered,      \* predicates evaluated
          truth,         \* what eval answered, per world
          toPrune,       \* lists of items prune has yet to filter
          pruned,        \* items it took out
          toName,        \* lists of items gate_sites has yet to walk
          sites          \* the sites it recorded, per item and attribute

closeVars == <<queue, features, dependencies>>
evalVars  == <<answered, truth>>
pruneVars == <<toPrune, pruned>>
siteVars  == <<toName, sites>>
vars      == <<package, pc, closeVars, evalVars, pruneVars, siteVars>>

Verdicts == {"CanHold", "Impossible"}
Site == [item: Items, gate: Preds, verdict: Verdicts]

(* A matrix that narrows no feature closes over nothing. *)
Init ==
  /\ package \in Packages
  /\ pc = "close"
  /\ queue = IF package.requested = Unnarrowed THEN {} ELSE package.requested
  /\ features = {} /\ dependencies = {}
  /\ answered = {} /\ truth = [p \in Preds |-> [w \in Worlds |-> "Either"]]
  /\ toPrune = {Outside} /\ pruned = {}
  /\ toName = {Outside} /\ sites = {}

-------------------------------------------------------------------------------
(* close_over *)
Named(f, forms) == {r.name : r \in {e \in package.rows : e.feature = f /\ e.form \in forms}}

(* A slip: `dep?/feature` taken for what turns the dependency on. *)
EnableWeakly(f) ==
  /\ pc = "close" /\ f \in queue
  /\ features' = features \cup {f}
  /\ IF f \in features
       THEN queue' = queue \ {f} /\ UNCHANGED dependencies
       ELSE /\ queue' = (queue \ {f}) \cup Named(f, {"feature"})
            /\ dependencies' = dependencies \cup Named(f, {"dep", "slash", "weak"})
  /\ UNCHANGED <<package, pc, evalVars, pruneVars, siteVars>>

(* The row of a feature, the first time it is enabled. *)
Enable(f) ==
  /\ pc = "close" /\ f \in queue
  /\ features' = features \cup {f}
  /\ IF f \in features
       THEN queue' = queue \ {f} /\ UNCHANGED dependencies
       ELSE /\ queue' = (queue \ {f}) \cup Named(f, {"feature"})
            /\ dependencies' = dependencies \cup Named(f, {"dep", "slash"})
  /\ UNCHANGED <<package, pc, evalVars, pruneVars, siteVars>>

EndClose ==
  /\ pc = "close" /\ queue = {}
  /\ pc' = "eval"
  /\ UNCHANGED <<package, closeVars, evalVars, pruneVars, siteVars>>

-------------------------------------------------------------------------------
(* World: the axes evaluation reads, in each of the three. *)
Declared == package.keys \cup package.optional
EnabledIn(w) ==
  IF w = "configured" /\ package.requested # Unnarrowed THEN features ELSE Unnarrowed
OSesIn(w)  == IF w = "configured" THEN package.os ELSE Unnarrowed
TestsIn(w) == IF w = "configured" THEN package.test ELSE w = "maximal"

Not(t) == CASE t = "Always" -> "Never" [] t = "Never" -> "Always" [] OTHER -> "Either"
And(ts) == IF "Never" \in ts THEN "Never"
           ELSE IF "Either" \in ts THEN "Either" ELSE "Always"
Or(ts)  == IF "Always" \in ts THEN "Always"
           ELSE IF "Either" \in ts THEN "Either" ELSE "Never"

FeatureTruth(w, name) ==
  IF name \notin Declared THEN "Never"
  ELSE IF EnabledIn(w) = Unnarrowed THEN "Either"
  ELSE IF name \in EnabledIn(w) THEN "Always" ELSE "Never"

OsTruth(w, name) ==
  IF OSesIn(w) = Unnarrowed THEN "Either"
  ELSE IF name \notin OSesIn(w) THEN "Never"
  ELSE IF OSesIn(w) = {name} THEN "Always" ELSE "Either"

(* belongs_to: the windows family is never a guess, the others are for a     *)
(* name family_of does not know.                                             *)
IsGuess(o, family) == family # "windows" /\ o \notin Listed /\ o # Windows

(* A slip: an unknown OS read as outside the family. *)
FamilyTruthGuessing(w, family) ==
  LET selected == OSesIn(w)
      inside   == {o \in selected : FamilyOf[o] = family /\ ~IsGuess(o, family)}
  IN  IF selected = Unnarrowed THEN "Either"
      ELSE IF inside = {} THEN "Never"
      ELSE IF inside = selected THEN "Always" ELSE "Either"

(* family_truth *)
FamilyTruth(w, family) ==
  LET selected == OSesIn(w)
      inside   == {o \in selected : FamilyOf[o] = family}
  IN  IF selected = Unnarrowed THEN "Either"
      ELSE IF \E o \in selected : IsGuess(o, family) THEN "Either"
      ELSE IF inside = {} THEN "Never"
      ELSE IF inside = selected THEN "Always" ELSE "Either"

(* eval, the arguments' answers given. *)
Evaluated(w, p) ==
  LET s     == Syntax[p]
      below == {truth[q][w] : q \in ArgsOf(p)}
  IN  CASE s.op = "feature" -> FeatureTruth(w, s.name)
        [] s.op = "os"      -> OsTruth(w, s.name)
        [] s.op = "family"  -> FamilyTruth(w, s.name)
        [] s.op = "test"    -> IF TestsIn(w) THEN "Either" ELSE "Never"
        [] s.op = "not"     -> Not(truth[s.arg][w])
        [] s.op = "all"     -> And(below)
        [] s.op = "any"     -> Or(below)
        [] OTHER            -> "Either"

(* A slip: answered as soon as one argument is, as a short circuit would. *)
ReadyEarly == {p \in Preds \ answered :
                 ArgsOf(p) = {} \/ ArgsOf(p) \cap answered # {}}

(* The predicates whose arguments are answered, in the three worlds: eval    *)
(* goes down to the leaves and answers on the way back.                      *)
Ready == {p \in Preds \ answered : ArgsOf(p) \subseteq answered}

Evaluate ==
  /\ pc = "eval" /\ Ready # {}
  /\ answered' = answered \cup Ready
  /\ truth' = [p \in Preds |->
                 IF p \in Ready THEN [w \in Worlds |-> Evaluated(w, p)] ELSE truth[p]]
  /\ UNCHANGED <<package, pc, closeVars, pruneVars, siteVars>>

EndEval ==
  /\ pc = "eval" /\ Ready = {}
  /\ pc' = "prune"
  /\ UNCHANGED <<package, closeVars, evalVars, pruneVars, siteVars>>

-------------------------------------------------------------------------------
(* eval_attrs: the #[cfg] attributes of an item together. *)
AttrsTruth(w, i) == And({truth[p][w] : p \in package.gates[i]})

(* A slip: whatever the configured matrix rules out is left out. *)
CompiledAsConfigured(i) == AttrsTruth("configured", i) # "Never"

(* Gates::compiled: what no build has is reported, not left out. *)
Compiled(i) == \/ AttrsTruth("configured", i) # "Never"
               \/ AttrsTruth("maximal", i) = "Never"

(* A slip: a test attribute read as confining whatever the gate says. *)
TestOnlyByAttribute(i) == \/ i \in package.tests
                          \/ /\ AttrsTruth("nonTest", i) = "Never"
                             /\ AttrsTruth("maximal", i) # "Never"

(* Gates::test_only *)
TestOnly(i) == /\ AttrsTruth("nonTest", i) = "Never" \/ i \in package.tests
               /\ AttrsTruth("maximal", i) # "Never"

ItemsIn(l) == {i \in Items : package.within[i] = l}

(* prune: one list of items at a time, the file first; what is kept may hold *)
(* a list of its own.                                                        *)
Prune(l) ==
  /\ pc = "prune" /\ l \in toPrune
  /\ LET kept == {i \in ItemsIn(l) : Compiled(i)}
     IN  /\ pruned' = pruned \cup (ItemsIn(l) \ kept)
         /\ toPrune' = (toPrune \ {l}) \cup kept
  /\ UNCHANGED <<package, pc, closeVars, evalVars, siteVars>>

EndPrune ==
  /\ pc = "prune" /\ toPrune = {}
  /\ pc' = "name"
  /\ UNCHANGED <<package, closeVars, evalVars, pruneVars, siteVars>>

-------------------------------------------------------------------------------
(* walk_attrs: a site per attribute; does any of them make the item dead? *)
Verdict(p) == IF truth[p]["maximal"] = "Never" THEN "Impossible" ELSE "CanHold"
SitesOf(i) == {[item |-> i, gate |-> p, verdict |-> Verdict(p)] : p \in package.gates[i]}
IsDead(i)  == \E p \in package.gates[i] : Verdict(p) = "Impossible"

(* What prune left of a list; of the file it takes the items only. *)
Left(l) == IF l = Outside THEN ItemsIn(l) ELSE ItemsIn(l) \ pruned

(* A slip: the items behind an impossible gate walked too. *)
NameThrough(l) ==
  /\ pc = "name" /\ l \in toName
  /\ sites' = sites \cup UNION {SitesOf(i) : i \in Left(l)}
  /\ toName' = (toName \ {l}) \cup (Left(l) \ pruned)
  /\ UNCHANGED <<package, pc, closeVars, evalVars, pruneVars>>

(* gate_sites, on what prune left: one list at a time, the file first, and   *)
(* nothing below an impossible gate.                                         *)
Name(l) ==
  /\ pc = "name" /\ l \in toName
  /\ sites' = sites \cup UNION {SitesOf(i) : i \in Left(l)}
  /\ toName' = (toName \ {l}) \cup {i \in Left(l) \ pruned : ~IsDead(i)}
  /\ UNCHANGED <<package, pc, closeVars, evalVars, pruneVars>>

EndName ==
  /\ pc = "name" /\ toName = {}
  /\ pc' = "done"
  /\ UNCHANGED <<package, closeVars, evalVars, pruneVars, siteVars>>

Next ==
  \/ \E f \in Names : Enable(f)
  \/ EndClose \/ Evaluate \/ EndEval
  \/ \E l \in Items \cup {Outside} : Prune(l)
  \/ EndPrune
  \/ \E l \in Items \cup {Outside} : Name(l)
  \/ EndName

Spec == Init /\ [][Next]_vars

-------------------------------------------------------------------------------
(* What the entries of the manifest mean to the dependency checks:           *)
(* optional_dependency_possible and target_expression.                       *)
IsPossible(key) == package.requested = Unnarrowed \/ key \in dependencies
TargetVerdict(gate) ==
  IF truth[gate]["configured"] # "Never" THEN "Possible"
  ELSE IF truth[gate]["maximal"] = "Never" THEN "NeverBuilt"
  ELSE "RuledOutByMatrix"

-------------------------------------------------------------------------------
(* The builds a world stands for, as cargo and rustc make them.  A feature   *)
(* that is not declared is on in no build.                                   *)
Admits(w, b) ==
  /\ b.features \subseteq Declared
  /\ EnabledIn(w) # Unnarrowed => b.features = EnabledIn(w) \cap Declared
  /\ OSesIn(w) # Unnarrowed => b.os \in OSesIn(w)
  /\ b.test => TestsIn(w)

AdmittedIn(w) == {b \in Builds : Admits(w, b)}

(* An item and what it is written in: the least set with it that goes up. *)
Encloses(set) == \A j \in set : package.within[j] # Outside => package.within[j] \in set
Enclosing(i) == {j \in Items : \A set \in SUBSET Items : i \in set /\ Encloses(set) => j \in set}

GatesHold(b, i)  == \A p \in package.gates[i] : Holds[b][p]
IsBuilt(b, i) == \A j \in Enclosing(i) : GatesHold(b, j)

-------------------------------------------------------------------------------
TypeOK ==
  /\ package \in Package
  /\ pc \in {"close", "eval", "prune", "name", "done"}
  /\ queue \subseteq Names /\ features \subseteq Names /\ dependencies \subseteq Names
  /\ answered \subseteq Preds /\ \A p \in answered : ArgsOf(p) \subseteq answered
  /\ truth \in [Preds -> [Worlds -> Truth]]
  /\ toPrune \subseteq Items \cup {Outside} /\ pruned \subseteq Items
  /\ toName \subseteq Items \cup {Outside} /\ sites \subseteq Site

(* Whatever eval answers of a predicate is so in every build of the world it *)
(* was asked about: Never in none, Always in all, for any nesting of not,    *)
(* all and any, unknown operating systems and undeclared features included.  *)
TruthIsSound ==
  pc # "close" =>
    \A w \in Worlds : \A b \in AdmittedIn(w) : \A p \in Preds :
      /\ truth[p][w] = "Never"  => ~Holds[b][p]
      /\ truth[p][w] = "Always" => Holds[b][p]

(* Narrowing is the user's doing and takes nothing that is built: an item    *)
(* left out of the file, and a dependency left out of the judgment for its   *)
(* platform, are in no build of the configured matrix.  What no build at all *)
(* has is left where it is, to be reported.                                  *)
LeftOutIsNeverBuilt ==
  pc \in {"name", "done"} =>
    /\ \A i \in pruned : /\ \A b \in AdmittedIn("configured") : ~IsBuilt(b, i)
                         /\ ~IsDead(i)
    /\ \A e \in package.entries : LET verdict == TargetVerdict(e.gate) IN
         /\ verdict # "Possible" => \A b \in AdmittedIn("configured") : ~Holds[b][e.gate]
         /\ verdict = "NeverBuilt" => \A b \in AdmittedIn("maximal") : ~Holds[b][e.gate]

(* Every impossible gate that was left in the file is accounted for by one   *)
(* site: its own or that of the outermost dead item around it; and a site is *)
(* called impossible only where no build has the item.                       *)
ImpossibleGatesAreNamed ==
  pc = "done" =>
    /\ \A i \in Items : IsDead(i) /\ Enclosing(i) \cap pruned = {} =>
         Cardinality({j \in Enclosing(i) :
           \E s \in sites : s.item = j /\ s.verdict = "Impossible"}) = 1
    /\ \A s \in sites : s.verdict = "Impossible" => 
         \A b \in AdmittedIn("maximal") : ~IsBuilt(b, s.item)

(* What is called test-only is in no build but a test build, however the     *)
(* confinement is written, and no gate of its own is impossible: calling one *)
(* with such a gate test-only would charge its mentions to no build.  Gates  *)
(* that only together cannot hold are not judged.                            *)
TestOnlyIsConfined ==
  pc \in {"prune", "name", "done"} =>
    \A i \in Items : TestOnly(i) =>
      /\ \A b \in AdmittedIn("nonTest") : GatesHold(b, i) => i \in package.tests
      /\ ~IsDead(i)

(* cargo's closure of the requested features: the least set that follows     *)
(* `x` rows, and `x/feature` where x is an optional dependency that is also  *)
(* a feature.  External.                                                     *)
Follows(set) ==
  package.requested \cup (UNION {Named(f, {"feature"}) : f \in set})
    \cup ((UNION {Named(f, {"slash"}) : f \in set})
             \cap package.optional \cap package.keys)
CargoFeatures ==
  {f \in Names : \A set \in SUBSET Names : Follows(set) \subseteq set => f \in set}
CargoDependencies ==
  UNION {Named(f, {"dep", "slash"}) : f \in CargoFeatures}

SlashesNameNoFeature ==
  \A f \in Names : Named(f, {"slash"}) \cap package.optional \cap package.keys = {}

(* The closure of the configured features is the one cargo builds with, so a *)
(* dependency that is not judged for want of a feature is one the analysed   *)
(* build does not have; up to `x/feature` rows that enable a feature `x`.    *)
ClosureIsCargos ==
  pc # "close" /\ package.requested # Unnarrowed /\ SlashesNameNoFeature =>
    /\ features = CargoFeatures
    /\ \A e \in package.entries : IsPossible(e.key) <=> e.key \in CargoDependencies

(* ... and it misses none, as close_over's comment has it ("everything       *)
(* `default` pulls in").                                                     *)
ClosureTurnsOnAll ==
  pc # "close" /\ package.requested # Unnarrowed => CargoFeatures \subseteq features
===============================================================================
