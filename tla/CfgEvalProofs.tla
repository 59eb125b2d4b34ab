----------------------------- MODULE CfgEvalProofs -----------------------------
(*****************************************************************************)
(* The answers of eval hold in every build they speak for, for every nesting *)
(* of predicates and every matrix, and with them what is left out of a file  *)
(* and what is called test-only; the closure of the features is cargo's; and *)
(* every impossible gate of a file is named once.                            *)
(*****************************************************************************)
EXTENDS CfgEval, FiniteSetTheorems, TLAPS

(* A predicate is a leaf or a connective over predicates (SyntaxIsTyped).    *)
LEMMA SyntaxShape ==
  ASSUME NEW p \in Preds
  PROVE  /\ Syntax[p].op \in {"feature", "os", "family", "test", "unknown", "not", "all", "any"}
         /\ Syntax[p].op = "not" => Syntax[p].arg \in Preds
         /\ Syntax[p].op \in {"all", "any"} => Syntax[p].args \subseteq Preds
         /\ ArgsOf(p) \subseteq Preds
<1> DEFINE s == Syntax[p]
<1>1. s \in Predicate
  BY SyntaxIsTyped
<1>2. /\ s.op \in {"feature", "os", "family", "test", "unknown", "not", "all", "any"}
      /\ s.op = "not" => s.arg \in Preds
      /\ s.op \in {"all", "any"} => s.args \subseteq Preds
  BY <1>1 DEF Predicate
<1> QED
  BY <1>2 DEF ArgsOf

(* What the manifest and the config give a package has its type.             *)
LEMMA PackageShape ==
  ASSUME package \in Packages
  PROVE  /\ package \in Package
         /\ package.requested # Unnarrowed => package.requested \subseteq Names
         /\ package.os # Unnarrowed => package.os \subseteq OSes
         /\ package.optional \subseteq Names
         /\ package.rows \subseteq Row
         /\ package.test \in BOOLEAN
         /\ \A i \in Items : package.gates[i] \subseteq Preds
         /\ package.within \in [Items -> Items \cup {Outside}]
         /\ package.entries \subseteq [key: Names, gate: Preds]
<1>1. package \in Package
  BY PackagesAreTyped
<1>2. /\ package.requested \in (SUBSET Names) \cup {Unnarrowed}
      /\ package.os \in (SUBSET OSes) \cup {Unnarrowed}
      /\ package.optional \in SUBSET Names
      /\ package.rows \in SUBSET Row
      /\ package.test \in BOOLEAN
      /\ package.gates \in [Items -> SUBSET Preds]
      /\ package.within \in [Items -> Items \cup {Outside}]
      /\ package.entries \in SUBSET [key: Names, gate: Preds]
  BY <1>1 DEF Package
<1>3. package.requested # Unnarrowed => package.requested \subseteq Names
  BY <1>2
<1>4. package.os # Unnarrowed => package.os \subseteq OSes
  BY <1>2
<1>5. \A i \in Items : package.gates[i] \subseteq Preds
  BY <1>2
<1> QED
  BY <1>1, <1>2, <1>3, <1>4, <1>5

(* What a row of [features] names are features.                              *)
LEMMA NamedAreNames ==
  ASSUME package \in Packages, NEW f, NEW forms
  PROVE  Named(f, forms) \subseteq Names
<1>1. package.rows \subseteq Row
  BY PackageShape
<1>2. \A r \in Row : r.name \in Names
  BY DEF Row
<1> QED
  BY <1>1, <1>2 DEF Named

(* A predicate is evaluated to one of the three answers.                     *)
LEMMA EvaluatedIsTruth ==
  ASSUME NEW w, NEW p
  PROVE  Evaluated(w, p) \in Truth
<1> USE DEF Truth
<1>1. \A t : Not(t) \in Truth
  BY DEF Not
<1>2. \A ts : And(ts) \in Truth /\ Or(ts) \in Truth
  BY DEF And, Or
<1>3. \A n : FeatureTruth(w, n) \in Truth /\ OsTruth(w, n) \in Truth
  BY DEF FeatureTruth, OsTruth
<1>4. \A family : FamilyTruth(w, family) \in Truth
  BY DEF FamilyTruth
<1> QED
  BY <1>1, <1>2, <1>3, <1>4 DEF Evaluated

-------------------------------------------------------------------------------
(* What the program never leaves: sets of the right things, three answers.   *)
THEOREM TypeCorrect == Spec => []TypeOK
<1>1. Init => TypeOK
  <2> SUFFICES ASSUME Init PROVE TypeOK
    OBVIOUS
  <2>1. package \in Package /\ queue \subseteq Names
    BY PackageShape DEF Init
  <2> QED
    BY <2>1 DEF Init, TypeOK, Truth
<1>2. (TypeOK /\ package \in Packages) /\ [Next]_vars => (TypeOK /\ package \in Packages)'
  <2> SUFFICES ASSUME TypeOK, package \in Packages, [Next]_vars
               PROVE  (TypeOK /\ package \in Packages)'
    OBVIOUS
  <2> USE DEF TypeOK
  <2>1. CASE UNCHANGED vars
    BY <2>1 DEF vars, closeVars, evalVars, pruneVars, siteVars
  <2>2. ASSUME NEW f \in Names, Enable(f) PROVE (TypeOK /\ package \in Packages)'
    <3>1. Named(f, {"feature"}) \subseteq Names /\ Named(f, {"dep", "slash"}) \subseteq Names
      BY NamedAreNames
    <3> QED BY <2>2, <3>1 DEF Enable, evalVars, pruneVars, siteVars
  <2>3. CASE EndClose
    BY <2>3 DEF EndClose, closeVars, evalVars, pruneVars, siteVars
  <2>4. CASE Evaluate
    <3>1. \A p \in answered' : ArgsOf(p) \subseteq answered'
      BY <2>4 DEF Evaluate, Ready
    <3>2. truth' \in [Preds -> [Worlds -> Truth]]
      BY <2>4, EvaluatedIsTruth DEF Evaluate
    <3>3. answered' \subseteq Preds
      BY <2>4 DEF Evaluate, Ready
    <3> QED BY <2>4, <3>1, <3>2, <3>3 DEF Evaluate, closeVars, pruneVars, siteVars
  <2>5. CASE EndEval
    BY <2>5 DEF EndEval, closeVars, evalVars, pruneVars, siteVars
  <2>6. ASSUME NEW l \in Items \cup {Outside}, Prune(l) PROVE (TypeOK /\ package \in Packages)'
    <3>1. ItemsIn(l) \subseteq Items
      BY DEF ItemsIn
    <3> QED BY <2>6, <3>1 DEF Prune, closeVars, evalVars, siteVars
  <2>7. CASE EndPrune
    BY <2>7 DEF EndPrune, closeVars, evalVars, pruneVars, siteVars
  <2>8. ASSUME NEW l \in Items \cup {Outside}, Name(l) PROVE (TypeOK /\ package \in Packages)'
    <3>1. Left(l) \subseteq Items
      BY DEF Left, ItemsIn
    <3>2. \A i \in Items : SitesOf(i) \subseteq Site
      BY PackageShape DEF SitesOf, Site, Verdict, Verdicts
    <3>3. sites' \subseteq Site
      BY <2>8, <3>1, <3>2 DEF Name
    <3> QED BY <2>8, <3>1, <3>3 DEF Name, closeVars, evalVars, pruneVars
  <2>9. CASE EndName
    BY <2>9 DEF EndName, closeVars, evalVars, pruneVars, siteVars
  <2> QED
    BY <2>1, <2>2, <2>3, <2>4, <2>5, <2>6, <2>7, <2>8, <2>9 DEF Next
<1>3. Init => package \in Packages
  BY DEF Init
<1> QED
  BY <1>1, <1>2, <1>3, PTL DEF Spec

-------------------------------------------------------------------------------
(* One answer is right where those below it are.                             *)
SoundAt(w, p) ==
  \A b \in AdmittedIn(w) : /\ truth[p][w] = "Never"  => ~Holds[b][p]
                           /\ truth[p][w] = "Always" => Holds[b][p]

(* A feature, os, family or test leaf called Never holds in no admitted      *)
(* build, one called Always in every (src/cfg.rs).                           *)
LEMMA LeavesAreSound ==
  ASSUME NEW w \in Worlds, NEW p \in Preds, NEW b \in AdmittedIn(w),
         Syntax[p].op \in {"feature", "os", "family", "test"}
  PROVE  /\ Evaluated(w, p) = "Never"  => ~Holds[b][p]
         /\ Evaluated(w, p) = "Always" => Holds[b][p]
<1> DEFINE s == Syntax[p]
<1>1. b \in Builds /\ Admits(w, b)
  BY DEF AdmittedIn
<1>2. /\ s.op = "feature" => (Holds[b][p] <=> s.name \in b.features)
      /\ s.op = "os"      => (Holds[b][p] <=> b.os = s.name)
      /\ s.op = "family"  => (Holds[b][p] <=> FamilyOf[b.os] = s.name)
      /\ s.op = "test"    => (Holds[b][p] <=> b.test)
  BY <1>1, HoldsIsRustcs
<1>3. CASE s.op = "feature"
  <2>1. Evaluated(w, p) = FeatureTruth(w, s.name)
    BY <1>3 DEF Evaluated
  <2>2. FeatureTruth(w, s.name) = "Never" => s.name \notin b.features
    BY <1>1 DEF FeatureTruth, Admits
  <2>3. FeatureTruth(w, s.name) = "Always" => s.name \in b.features
    BY <1>1 DEF FeatureTruth, Admits
  <2> QED BY <1>2, <1>3, <2>1, <2>2, <2>3
<1>4. CASE s.op = "os"
  <2>1. Evaluated(w, p) = OsTruth(w, s.name)
    BY <1>4 DEF Evaluated
  <2>2. /\ OsTruth(w, s.name) = "Never"  => b.os # s.name
        /\ OsTruth(w, s.name) = "Always" => b.os = s.name
    BY <1>1 DEF OsTruth, Admits
  <2> QED BY <1>2, <1>4, <2>1, <2>2
<1>5. CASE s.op = "family"
  <2>1. Evaluated(w, p) = FamilyTruth(w, s.name)
    BY <1>5 DEF Evaluated
  <2>2. /\ FamilyTruth(w, s.name) = "Never"  => FamilyOf[b.os] # s.name
        /\ FamilyTruth(w, s.name) = "Always" => FamilyOf[b.os] = s.name
    BY <1>1 DEF FamilyTruth, Admits
  <2> QED BY <1>2, <1>5, <2>1, <2>2
<1>6. CASE s.op = "test"
  <2>1. Evaluated(w, p) = IF TestsIn(w) THEN "Either" ELSE "Never"
    BY <1>6 DEF Evaluated
  <2> QED BY <1>1, <1>2, <1>6, <2>1 DEF Admits
<1> QED
  BY <1>3, <1>4, <1>5, <1>6

(* `not`, `all` and `any` keep sound answers sound: three-valued logic never *)
(* claims more than its arguments.                                           *)
LEMMA ConnectivesAreSound ==
  ASSUME NEW w \in Worlds, NEW p \in Preds, NEW b \in AdmittedIn(w),
         Syntax[p].op \in {"not", "all", "any"},
         truth \in [Preds -> [Worlds -> Truth]], \A q \in Preds : SoundAt(w, q)
  PROVE  /\ Evaluated(w, p) = "Never"  => ~Holds[b][p]
         /\ Evaluated(w, p) = "Always" => Holds[b][p]
<1> DEFINE s == Syntax[p]
<1> DEFINE below == {truth[q][w] : q \in ArgsOf(p)}
<1>1. b \in Builds
  BY DEF AdmittedIn
<1>2. /\ s.op = "not" => (Holds[b][p] <=> ~Holds[b][s.arg])
      /\ s.op = "all" => (Holds[b][p] <=> \A q \in s.args : Holds[b][q])
      /\ s.op = "any" => (Holds[b][p] <=> \E q \in s.args : Holds[b][q])
  BY <1>1, HoldsIsRustcs
<1>3. \A q \in Preds : /\ truth[q][w] = "Never"  => ~Holds[b][q]
                       /\ truth[q][w] = "Always" => Holds[b][q]
  BY DEF SoundAt
<1>4. CASE s.op = "not"
  <2>1. Evaluated(w, p) = Not(truth[s.arg][w]) /\ s.arg \in Preds
    BY <1>4, SyntaxShape DEF Evaluated
  <2>2. /\ Not(truth[s.arg][w]) = "Never"  => truth[s.arg][w] = "Always"
        /\ Not(truth[s.arg][w]) = "Always" => truth[s.arg][w] = "Never"
    BY DEF Not
  <2> QED BY <1>2, <1>3, <1>4, <2>1, <2>2
<1>5. CASE s.op = "all"
  <2>1. /\ Evaluated(w, p) = And(below)
        /\ ArgsOf(p) = s.args /\ s.args \subseteq Preds
    BY <1>5, SyntaxShape DEF Evaluated, ArgsOf
  <2>2. ASSUME Evaluated(w, p) = "Never" PROVE ~Holds[b][p]
    <3>1. PICK q \in s.args : truth[q][w] = "Never"
      BY <2>1, <2>2 DEF And
    <3> QED BY <1>2, <1>3, <1>5, <2>1, <3>1
  <2>3. ASSUME Evaluated(w, p) = "Always" PROVE Holds[b][p]
    <3> SUFFICES ASSUME NEW q \in s.args PROVE Holds[b][q]
      BY <1>2, <1>5
    <3>1. "Never" \notin below /\ "Either" \notin below
      BY <2>1, <2>3 DEF And
    <3>2. truth[q][w] \in below /\ truth[q][w] \in Truth
      BY <2>1
    <3> QED BY <1>3, <2>1, <3>1, <3>2 DEF Truth
  <2> QED BY <2>2, <2>3
<1>6. CASE s.op = "any"
  <2>1. /\ Evaluated(w, p) = Or(below)
        /\ ArgsOf(p) = s.args /\ s.args \subseteq Preds
    BY <1>6, SyntaxShape DEF Evaluated, ArgsOf
  <2>2. ASSUME Evaluated(w, p) = "Always" PROVE Holds[b][p]
    <3>1. PICK q \in s.args : truth[q][w] = "Always"
      BY <2>1, <2>2 DEF Or
    <3> QED BY <1>2, <1>3, <1>6, <2>1, <3>1
  <2>3. ASSUME Evaluated(w, p) = "Never" PROVE ~Holds[b][p]
    <3> SUFFICES ASSUME NEW q \in s.args PROVE ~Holds[b][q]
      BY <1>2, <1>6
    <3>1. "Always" \notin below /\ "Either" \notin below
      BY <2>1, <2>3 DEF Or
    <3>2. truth[q][w] \in below /\ truth[q][w] \in Truth
      BY <2>1
    <3> QED BY <1>3, <2>1, <3>1, <3>2 DEF Truth
  <2> QED BY <2>2, <2>3
<1> QED
  BY <1>4, <1>5, <1>6

-------------------------------------------------------------------------------
(* What makes it inductive: nothing is answered until the features are       *)
(* closed, so the builds of a world do not change once answers speak of      *)
(* them; and what was pruned was pruned on answers that stand.               *)
Untouched == pc = "close" => \A p \in Preds, w \in Worlds : truth[p][w] = "Either"
PrunedRight == /\ pc \in {"close", "eval"} => pruned = {}
               /\ \A i \in pruned : ~Compiled(i)
IInv == /\ TypeOK /\ package \in Packages
        /\ Untouched /\ TruthIsSound /\ PrunedRight

(* Once the features are closed, every answer is sound in every world.       *)
LEMMA SoundAnswers ==
  ASSUME TruthIsSound, pc # "close"
  PROVE  \A w \in Worlds, p \in Preds : SoundAt(w, p)
  BY DEF TruthIsSound, SoundAt

(* Nothing is evaluated at first, so nothing is answered wrongly.            *)
LEMMA InitInv == Init => IInv
<1> SUFFICES ASSUME Init PROVE IInv
  OBVIOUS
<1>1. TypeOK
  BY PackageShape DEF Init, TypeOK, Truth
<1> QED
  BY <1>1 DEF Init, IInv, Untouched, TruthIsSound, PrunedRight

(* The answers of this round, over those that were there. *)
LEMMA EvaluateIsSound ==
  ASSUME IInv, Evaluate
  PROVE  TruthIsSound'
<1>1. \A w \in Worlds, p \in Preds : SoundAt(w, p)
  BY SoundAnswers DEF IInv, Evaluate
<1>2. \A w \in Worlds : AdmittedIn(w)' = AdmittedIn(w)
  BY DEF Evaluate, closeVars, AdmittedIn, Admits, Declared, EnabledIn, OSesIn, TestsIn
<1>3. SUFFICES ASSUME NEW w \in Worlds, NEW b \in AdmittedIn(w), NEW p \in Preds
               PROVE  /\ truth'[p][w] = "Never"  => ~Holds[b][p]
                      /\ truth'[p][w] = "Always" => Holds[b][p]
  BY <1>2 DEF TruthIsSound
<1>4. truth'[p][w] = IF p \in Ready THEN Evaluated(w, p) ELSE truth[p][w]
  BY DEF Evaluate
<1>5. CASE p \notin Ready
  BY <1>1, <1>4, <1>5 DEF SoundAt
<1>6. CASE p \in Ready
  <2>1. CASE Syntax[p].op \in {"feature", "os", "family", "test"}
    BY <1>4, <1>6, <2>1, LeavesAreSound
  <2>2. CASE Syntax[p].op \in {"not", "all", "any"}
    <3>1. truth \in [Preds -> [Worlds -> Truth]]
      BY DEF IInv, TypeOK
    <3> QED BY <1>1, <1>4, <1>6, <2>2, <3>1, ConnectivesAreSound
  <2>3. CASE Syntax[p].op = "unknown"
    BY <1>4, <1>6, <2>3 DEF Evaluated
  <2> QED
    BY <2>1, <2>2, <2>3, SyntaxShape
<1> QED
  BY <1>5, <1>6

(* Where the answers stand, so does what rests on them. *)
LEMMA AnswersStand ==
  ASSUME IInv, UNCHANGED <<package, features, truth>>, pc # "close"
  PROVE  TruthIsSound' /\ \A i \in Items : Compiled(i)' = Compiled(i)
<1>1. \A w \in Worlds : AdmittedIn(w)' = AdmittedIn(w)
  BY DEF AdmittedIn, Admits, Declared, EnabledIn, OSesIn, TestsIn
<1>2. TruthIsSound'
  BY <1>1, SoundAnswers DEF IInv, TruthIsSound, SoundAt
<1>3. \A i \in Items : Compiled(i)' = Compiled(i)
  BY DEF Compiled, AttrsTruth
<1> QED
  BY <1>2, <1>3

(* Enabling a feature or evaluating a predicate keeps the answers sound.     *)
LEMMA StepInv == IInv /\ TypeOK' /\ [Next]_vars => IInv'
<1> SUFFICES ASSUME IInv, TypeOK', [Next]_vars PROVE IInv'
  OBVIOUS
<1>1. CASE UNCHANGED vars
  <2>1. UNCHANGED <<package, pc, features, truth, pruned>>
    BY <1>1 DEF vars, closeVars, evalVars, pruneVars
  <2>2. CASE pc = "close"
    BY <2>1, <2>2 DEF IInv, Untouched, TruthIsSound, PrunedRight
  <2>3. CASE pc # "close"
    BY <2>1, <2>3, AnswersStand DEF IInv, TypeOK, Untouched, PrunedRight
  <2> QED BY <2>2, <2>3
<1>2. ASSUME NEW f \in Names, Enable(f) PROVE IInv'
  BY <1>2 DEF Enable, evalVars, pruneVars, IInv, Untouched, TruthIsSound, PrunedRight
<1>3. CASE EndClose
  <2>1. \A p \in Preds, w \in Worlds : truth'[p][w] = "Either"
    BY <1>3 DEF EndClose, evalVars, IInv, Untouched
  <2>2. TruthIsSound'
    BY <2>1 DEF TruthIsSound
  <2> QED BY <1>3, <2>2 DEF EndClose, pruneVars, IInv, Untouched, PrunedRight
<1>4. CASE Evaluate
  <2>1. TruthIsSound'
    BY <1>4, EvaluateIsSound
  <2> QED BY <1>4, <2>1 DEF Evaluate, pruneVars, IInv, Untouched, PrunedRight
<1>5. ASSUME EndEval \/ EndPrune \/ EndName \/ \E l \in Items \cup {Outside} : Name(l)
      PROVE  IInv'
  <2>1. /\ UNCHANGED <<package, features, truth, pruned>>
        /\ pc \notin {"close"} /\ pc' \notin {"close", "eval"}
        /\ pc # "eval" => pc' # "eval"
    BY <1>5 DEF EndEval, EndPrune, EndName, Name, closeVars, evalVars, pruneVars
  <2> QED BY <2>1, AnswersStand DEF IInv, TypeOK, Untouched, PrunedRight
<1>6. ASSUME NEW l \in Items \cup {Outside}, Prune(l) PROVE IInv'
  <2>1. UNCHANGED <<package, features, truth, pc>> /\ pc = "prune"
    BY <1>6 DEF Prune, closeVars, evalVars
  <2>2. \A i \in pruned' \ pruned : i \in Items /\ ~Compiled(i)
    BY <1>6 DEF Prune, ItemsIn
  <2> QED BY <2>1, <2>2, AnswersStand DEF IInv, TypeOK, Untouched, PrunedRight
<1> QED
  BY <1>1, <1>2, <1>3, <1>4, <1>5, <1>6 DEF Next

(* The answers are sound at every step.                                      *)
LEMMA Invariance == Spec => []IInv
  BY InitInv, StepInv, TypeCorrect, PTL DEF Spec

(* Never is in no build of the world asked about and Always in all of them,  *)
(* for every nesting of predicates, matrix, manifest and operating system.   *)
THEOREM AnswersAreSound == Spec => []TruthIsSound
<1>1. IInv => TruthIsSound
  BY DEF IInv
<1> QED
  BY <1>1, Invariance, PTL

(* An item whose attributes together are Never is in no admitted build.      *)
LEMMA NeverTogether ==
  ASSUME IInv, pc # "close", NEW w \in Worlds, NEW i \in Items,
         AttrsTruth(w, i) = "Never", NEW b \in AdmittedIn(w)
  PROVE  ~GatesHold(b, i)
<1>1. PICK p \in package.gates[i] : truth[p][w] = "Never"
  BY DEF AttrsTruth, And
<1>2. p \in Preds
  BY PackageShape DEF IInv
<1> QED
  BY <1>1, <1>2, SoundAnswers DEF IInv, SoundAt, GatesHold

(* An item not called Never in the maximal world is not reported dead.       *)
LEMMA NotDead ==
  ASSUME NEW i \in Items, AttrsTruth("maximal", i) # "Never"
  PROVE  ~IsDead(i)
  BY DEF AttrsTruth, And, IsDead, Verdict

(* Narrowing takes nothing that is built: neither an item left out of its    *)
(* file nor an entry of the manifest left unjudged for its platform.         *)
THEOREM NarrowingIsSafe == Spec => []LeftOutIsNeverBuilt
<1>1. ASSUME IInv, pc \in {"name", "done"}, NEW i \in pruned
      PROVE  (\A b \in AdmittedIn("configured") : ~IsBuilt(b, i)) /\ ~IsDead(i)
  <2>1. i \in Items /\ ~Compiled(i)
    BY <1>1 DEF IInv, TypeOK, PrunedRight
  <2>2. i \in Enclosing(i)
    BY <2>1 DEF Enclosing
  <2>3. \A b \in AdmittedIn("configured") : ~GatesHold(b, i)
    BY <1>1, <2>1, NeverTogether DEF Compiled, Worlds
  <2>4. ~IsDead(i)
    BY <2>1, NotDead DEF Compiled
  <2> QED BY <2>2, <2>3, <2>4 DEF IsBuilt
<1>2. ASSUME IInv, pc \in {"name", "done"}, NEW e \in package.entries
      PROVE  LET verdict == TargetVerdict(e.gate) IN
             /\ verdict # "Possible" => \A b \in AdmittedIn("configured") : ~Holds[b][e.gate]
             /\ verdict = "NeverBuilt" => \A b \in AdmittedIn("maximal") : ~Holds[b][e.gate]
  <2>1. e.gate \in Preds
    BY <1>2, PackageShape DEF IInv
  <2>2. \A w \in Worlds : SoundAt(w, e.gate)
    BY <1>2, <2>1, SoundAnswers DEF IInv
  <2>3. TargetVerdict(e.gate) # "Possible" => truth[e.gate]["configured"] = "Never"
    BY DEF TargetVerdict
  <2>4. TargetVerdict(e.gate) = "NeverBuilt" => truth[e.gate]["maximal"] = "Never"
    BY DEF TargetVerdict
  <2>5. SoundAt("configured", e.gate) /\ SoundAt("maximal", e.gate)
    BY <2>2 DEF Worlds
  <2> QED BY <2>3, <2>4, <2>5 DEF SoundAt
<1>3. IInv => LeftOutIsNeverBuilt
  BY <1>1, <1>2 DEF LeftOutIsNeverBuilt
<1> QED
  BY <1>3, Invariance, PTL

(* What is called test-only is in no other build, and is in some build as    *)
(* far as its gates can be told.                                             *)
THEOREM ConfinementIsReal == Spec => []TestOnlyIsConfined
<1>1. ASSUME IInv, pc \in {"prune", "name", "done"}, NEW i \in Items, TestOnly(i)
      PROVE  /\ \A b \in AdmittedIn("nonTest") : GatesHold(b, i) => i \in package.tests
             /\ ~IsDead(i)
  <2>1. i \notin package.tests => \A b \in AdmittedIn("nonTest") : ~GatesHold(b, i)
    BY <1>1, NeverTogether DEF TestOnly, Worlds
  <2>2. ~IsDead(i)
    BY <1>1, NotDead DEF TestOnly
  <2> QED BY <2>1, <2>2
<1>2. IInv => TestOnlyIsConfined
  BY <1>1 DEF TestOnlyIsConfined
<1> QED
  BY <1>2, Invariance, PTL

-------------------------------------------------------------------------------
(* close_over works off a queue: features and queue together hold what is    *)
(* asked for, are closed but for the queue, and lie in every closed set.     *)
IsClosed(set) == /\ package.requested \subseteq set
                 /\ \A f \in set : Named(f, {"feature"}) \subseteq set
ClosedSoFar ==
  package.requested # Unnarrowed =>
    /\ package.requested \subseteq features \cup queue
    /\ \A f \in features : Named(f, {"feature"}) \subseteq features \cup queue
    /\ \A set \in SUBSET Names : IsClosed(set) => features \cup queue \subseteq set
    /\ \A d : d \in dependencies <=> \E f \in features : d \in Named(f, {"dep", "slash"})
    /\ pc # "close" => queue = {}

(* Enabling a feature adds only what the requested ones imply.               *)
LEMMA EnableCloses ==
  ASSUME TypeOK, package \in Packages, ClosedSoFar, NEW f \in Names, Enable(f)
  PROVE  ClosedSoFar'
<1>1. /\ f \in queue /\ pc = "close" /\ UNCHANGED <<package, pc>>
      /\ features' = features \cup {f}
  BY DEF Enable
<1>2. \A g, forms : Named(g, forms)' = Named(g, forms)
  BY <1>1 DEF Named
<1>3. \A set : IsClosed(set)' <=> IsClosed(set)
  BY <1>1, <1>2 DEF IsClosed
<1>4. SUFFICES ASSUME package.requested # Unnarrowed
               PROVE  /\ package.requested \subseteq features' \cup queue'
                      /\ \A g \in features' : Named(g, {"feature"}) \subseteq features' \cup queue'
                      /\ \A set \in SUBSET Names : IsClosed(set) => features' \cup queue' \subseteq set
                      /\ \A d : d \in dependencies' <=>
                             \E g \in features' : d \in Named(g, {"dep", "slash"})
  BY <1>1, <1>2, <1>3 DEF ClosedSoFar
<1>5. CASE f \in features
  <2>1. features' = features /\ queue' = queue \ {f} /\ dependencies' = dependencies
    BY <1>1, <1>5 DEF Enable
  <2> QED BY <1>4, <1>5, <2>1 DEF ClosedSoFar
<1>6. CASE f \notin features
  <2>1. /\ queue' = (queue \ {f}) \cup Named(f, {"feature"})
        /\ dependencies' = dependencies \cup Named(f, {"dep", "slash"})
    BY <1>6 DEF Enable
  <2>2. \A set \in SUBSET Names : IsClosed(set) => features' \cup queue' \subseteq set
    <3> SUFFICES ASSUME NEW set \in SUBSET Names, IsClosed(set)
                 PROVE  features' \cup queue' \subseteq set
      OBVIOUS
    <3>1. features \cup queue \subseteq set /\ f \in set
      BY <1>1, <1>4 DEF ClosedSoFar
    <3>2. Named(f, {"feature"}) \subseteq set
      BY <3>1 DEF IsClosed
    <3> QED BY <1>1, <2>1, <3>1, <3>2
  <2>3. \A d : d \in dependencies' <=> \E g \in features' : d \in Named(g, {"dep", "slash"})
    BY <1>1, <1>4, <2>1 DEF ClosedSoFar
  <2>4. \A g \in features' : Named(g, {"feature"}) \subseteq features' \cup queue'
    BY <1>1, <1>4, <2>1 DEF ClosedSoFar
  <2>5. package.requested \subseteq features' \cup queue'
    BY <1>1, <1>4, <2>1 DEF ClosedSoFar
  <2> QED BY <2>2, <2>3, <2>4, <2>5
<1> QED
  BY <1>5, <1>6

(* The enabled features are always ones the requested imply.                 *)
LEMMA ClosureInvariance == Spec => []ClosedSoFar
<1>1. Init => ClosedSoFar
  BY PackageShape DEF Init, ClosedSoFar, IsClosed
<1>2. IInv /\ ClosedSoFar /\ [Next]_vars => ClosedSoFar'
  <2> SUFFICES ASSUME IInv, ClosedSoFar, [Next]_vars PROVE ClosedSoFar'
    OBVIOUS
  <2>1. ASSUME NEW f \in Names, Enable(f) PROVE ClosedSoFar'
    BY <2>1, EnableCloses DEF IInv
  <2>2. ASSUME \/ UNCHANGED vars \/ EndClose \/ Evaluate \/ EndEval \/ EndPrune \/ EndName
               \/ \E l \in Items \cup {Outside} : Prune(l) \/ Name(l)
        PROVE  ClosedSoFar'
    <3>1. /\ UNCHANGED <<package, queue, features, dependencies>>
          /\ pc' # "close" => pc # "close" \/ queue = {}
      BY <2>2 DEF vars, EndClose, Evaluate, EndEval, EndPrune, EndName, Prune, Name, closeVars
    <3> QED BY <3>1 DEF ClosedSoFar, IsClosed, Named
  <2> QED BY <2>1, <2>2 DEF Next
<1> QED
  BY <1>1, <1>2, Invariance, PTL DEF Spec

(* A set of features closed under one row at a time is closed.               *)
LEMMA FollowsIsClosed ==
  ASSUME SlashesNameNoFeature, NEW set \in SUBSET Names
  PROVE  Follows(set) \subseteq set <=> IsClosed(set)
<1>1. (UNION {Named(f, {"slash"}) : f \in set}) \cap package.optional \cap package.keys = {}
  BY DEF SlashesNameNoFeature
<1>2. Follows(set) = package.requested \cup UNION {Named(f, {"feature"}) : f \in set}
  BY <1>1 DEF Follows
<1> QED
  BY <1>2 DEF IsClosed

(* The closure is the least set cargo's rows allow, whatever the table, so   *)
(* long as no `x/feature` row enables a feature x.                           *)
THEOREM ClosureIsTheLeast == Spec => []ClosureIsCargos
<1>1. ASSUME IInv, ClosedSoFar, pc # "close", package.requested # Unnarrowed, SlashesNameNoFeature
      PROVE  /\ features = CargoFeatures
             /\ \A e \in package.entries : IsPossible(e.key) <=> e.key \in CargoDependencies
  <2>1. features \in SUBSET Names /\ IsClosed(features)
    BY <1>1 DEF IInv, TypeOK, ClosedSoFar, IsClosed
  <2>2. features \subseteq CargoFeatures
    BY <1>1, <2>1, FollowsIsClosed DEF ClosedSoFar, CargoFeatures
  <2>3. CargoFeatures \subseteq features
    BY <1>1, <2>1, FollowsIsClosed DEF CargoFeatures
  <2>4. \A d : d \in dependencies <=> d \in CargoDependencies
    BY <1>1, <2>2, <2>3 DEF ClosedSoFar, CargoDependencies
  <2> QED BY <1>1, <2>2, <2>3, <2>4 DEF IsPossible
<1>2. IInv /\ ClosedSoFar => ClosureIsCargos
  BY <1>1 DEF ClosureIsCargos
<1> QED
  BY <1>2, Invariance, ClosureInvariance, PTL

-------------------------------------------------------------------------------
(* What an item is in, and whether gate_sites comes to it: nothing around it *)
(* is dead.                                                                  *)
Above(i)   == Enclosing(i) \ {i}
IsShown(i) == \A j \in Above(i) : ~IsDead(j)

(* gate_sites works off lists of items.  A list waits only below items that  *)
(* are not dead, a site is of an item it comes to, and every such item has   *)
(* its sites or has a list waiting above it.                                 *)
NamedSoFar ==
  /\ pc \in {"close", "eval", "prune"} => toName = {Outside} /\ sites = {}
  /\ pc = "done" => toName = {}
  /\ \A l \in toName \ {Outside} : \A j \in Enclosing(l) : ~IsDead(j)
  /\ \A s \in sites : /\ s.item \in Items /\ IsShown(s.item)
                      /\ s \in SitesOf(s.item)
  /\ pc \in {"name", "done"} =>
       \A i \in Items : Enclosing(i) \cap pruned = {} /\ IsShown(i) =>
         SitesOf(i) \subseteq sites \/ Outside \in toName \/ toName \cap Above(i) # {}

(* An item is in itself, and in whatever what it is written in is in.        *)
LEMMA EnclosingStep ==
  ASSUME package \in Packages, NEW i \in Items
  PROVE  /\ Enclosing(i) \subseteq Items /\ i \in Enclosing(i) /\ Encloses(Enclosing(i))
         /\ package.within[i] = Outside => Enclosing(i) = {i}
         /\ package.within[i] # Outside =>
              /\ package.within[i] \in Items
              /\ Enclosing(i) = {i} \cup Enclosing(package.within[i])
<1> DEFINE up(j) == package.within[j]
<1>0. \A j \in Items : up(j) # Outside => up(j) \in Items
  BY PackageShape
<1>1. \A j \in Items : /\ Enclosing(j) \subseteq Items /\ j \in Enclosing(j)
                       /\ \A k \in Enclosing(j) : up(k) # Outside => up(k) \in Enclosing(j)
  BY <1>0 DEF Enclosing, Encloses
<1>2. ASSUME NEW set \in SUBSET Items, i \in set, \A k \in set : up(k) # Outside => up(k) \in set
      PROVE  Enclosing(i) \subseteq set
  BY <1>2 DEF Enclosing, Encloses
<1>3. up(i) = Outside => Enclosing(i) \subseteq {i}
  BY <1>2
<1>4. ASSUME up(i) # Outside
      PROVE  /\ Enclosing(i) \subseteq {i} \cup Enclosing(up(i))
             /\ Enclosing(up(i)) \subseteq Enclosing(i)
  <2>1. up(i) \in Items /\ up(i) \in Enclosing(i)
    BY <1>0, <1>1, <1>4
  <2>2. Enclosing(i) \subseteq {i} \cup Enclosing(up(i))
    BY <1>1, <1>2, <2>1
  <2>3. Enclosing(up(i)) \subseteq Enclosing(i)
    BY <1>1, <2>1 DEF Enclosing, Encloses
  <2> QED BY <2>2, <2>3
<1> QED
  BY <1>0, <1>1, <1>3, <1>4 DEF Encloses

(* Of two items around a third, one is around the other.                     *)
LEMMA EnclosingIsAChain ==
  ASSUME package \in Packages, NEW i \in Items,
         NEW j \in Enclosing(i), NEW k \in Enclosing(i)
  PROVE  j \in Enclosing(k) \/ k \in Enclosing(j)
<1> DEFINE set == {y \in Enclosing(i) : j \in Enclosing(y) \/ y \in Enclosing(j)}
<1>1. j \in Items /\ set \subseteq Items
  BY EnclosingStep
<1>2. i \in set
  BY EnclosingStep
<1>3. ASSUME NEW y \in set, package.within[y] # Outside
      PROVE  package.within[y] \in set
  <2>1. /\ y \in Items /\ package.within[y] \in Enclosing(i)
        /\ Enclosing(y) = {y} \cup Enclosing(package.within[y])
    BY <1>1, <1>3, EnclosingStep DEF Encloses
  <2>2. y \in Enclosing(j) => package.within[y] \in Enclosing(j)
    BY <1>1, <1>3, EnclosingStep DEF Encloses
  <2>3. j \in Enclosing(y) => j = y \/ j \in Enclosing(package.within[y])
    BY <2>1
  <2>4. j = y => y \in Enclosing(j)
    BY <1>1, EnclosingStep
  <2> QED BY <2>1, <2>2, <2>3, <2>4
<1>4. Enclosing(i) \subseteq set
  <2>1. set \in SUBSET Items /\ Encloses(set)
    BY <1>1, <1>3 DEF Encloses
  <2> QED BY <1>2, <2>1 DEF Enclosing
<1> QED
  BY <1>4

(* The items around a list's items, one of them directly in the list.        *)
LEMMA ListsAreEntered ==
  ASSUME package \in Packages, NEW i \in Items, NEW l, l = Outside \/ l \in Above(i)
  PROVE  \E k \in Enclosing(i) : package.within[k] = l
<1>1. /\ Enclosing(i) \subseteq Items /\ i \in Enclosing(i)
      /\ \A k \in Enclosing(i) : package.within[k] # Outside => package.within[k] \in Enclosing(i)
  BY EnclosingStep DEF Encloses
<1>2. CASE l = Outside
  <2>1. PICK k \in Enclosing(i) : package.within[k] \notin Enclosing(i)
    BY <1>1, ItemsNest
  <2> QED BY <1>1, <1>2, <2>1
<1>3. CASE l \in Above(i)
  <2>1. SUFFICES ASSUME \A k \in Enclosing(i) : package.within[k] # l PROVE FALSE
    OBVIOUS
  <2> DEFINE set == Enclosing(i) \ {l}
  <2>2. set \in SUBSET Items /\ i \in set /\ Encloses(set)
    BY <1>1, <1>3, <2>1 DEF Above, Encloses
  <2>3. Enclosing(i) \subseteq set
    BY <2>2 DEF Enclosing
  <2> QED BY <1>3, <2>3 DEF Above
<1> QED
  BY <1>2, <1>3

(* A dead item has an outermost dead one around it, and no other is both     *)
(* dead and come to.                                                         *)
LEMMA OneIsOutermost ==
  ASSUME package \in Packages, NEW i \in Items, IsDead(i)
  PROVE  \E x \in Enclosing(i) :
           /\ IsDead(x) /\ IsShown(x)
           /\ \A j \in Enclosing(i) : IsDead(j) /\ IsShown(j) => j = x
<1> DEFINE dead(j) == \E k \in Enclosing(j) : IsDead(k)
           set == {j \in Enclosing(i) : dead(j)}
<1>1. set \in SUBSET Items /\ i \in set
  BY EnclosingStep
<1>2. PICK x \in set : package.within[x] \notin set
  <2> HIDE DEF set
  <2>1. set # {}
    BY <1>1
  <2> QED BY <1>1, <2>1, ItemsNest
<1>3. x \in Items /\ x \in Enclosing(i) /\ dead(x)
  BY <1>1, <1>2
<1>4. package.within[x] # Outside =>
        package.within[x] \in Enclosing(i) /\ ~dead(package.within[x])
  <2>1. Encloses(Enclosing(i))
    BY EnclosingStep
  <2> QED BY <1>2, <1>3, <2>1 DEF Encloses
<1>5. \A j \in Above(x) : ~IsDead(j)
  <2>1. CASE package.within[x] = Outside
    BY <1>3, <2>1, EnclosingStep DEF Above
  <2>2. CASE package.within[x] # Outside
    <3>1. Enclosing(x) = {x} \cup Enclosing(package.within[x])
      BY <1>3, <2>2, EnclosingStep
    <3> QED BY <1>4, <2>2, <3>1 DEF Above
  <2> QED BY <2>1, <2>2
<1>6. IsDead(x)
  BY <1>3, <1>5 DEF Above
<1>7. ASSUME NEW j \in Enclosing(i), IsDead(j), IsShown(j)
      PROVE  j = x
  <2>1. j \in Enclosing(x) \/ x \in Enclosing(j)
    BY <1>3, EnclosingIsAChain
  <2> QED BY <1>5, <1>6, <1>7, <2>1 DEF IsShown, Above
<1> QED
  BY <1>3, <1>5, <1>6, <1>7 DEF IsShown

(* A list walked: its items have their sites, and those that lead on wait.   *)
LEMMA NameStep ==
  ASSUME IInv, NamedSoFar, NEW l \in Items \cup {Outside}, Name(l)
  PROVE  NamedSoFar'
<1>1. /\ package \in Packages /\ pc = "name" /\ l \in toName
      /\ UNCHANGED <<package, pc, truth, pruned>>
      /\ sites' = sites \cup UNION {SitesOf(i) : i \in Left(l)}
      /\ toName' = (toName \ {l}) \cup {i \in Left(l) \ pruned : ~IsDead(i)}
  BY DEF IInv, Name, evalVars, pruneVars
<1>2. \A i : /\ Enclosing(i)' = Enclosing(i) /\ Above(i)' = Above(i) /\ SitesOf(i)' = SitesOf(i)
             /\ IsDead(i)' = IsDead(i) /\ IsShown(i)' = IsShown(i)
  BY <1>1 DEF Enclosing, Encloses, Above, SitesOf, IsDead, IsShown, Verdict
<1>3. ASSUME NEW i \in Left(l)
      PROVE  /\ i \in Items /\ package.within[i] = l /\ IsShown(i)
  <2>1. i \in Items /\ package.within[i] = l
    BY <1>3 DEF Left, ItemsIn
  <2>2. CASE l = Outside
    BY <1>1, <2>1, <2>2, EnclosingStep DEF IsShown, Above
  <2>3. CASE l # Outside
    <3>1. \A j \in Enclosing(l) : ~IsDead(j)
      BY <1>1, <2>3 DEF NamedSoFar
    <3>2. Enclosing(i) = {i} \cup Enclosing(l)
      BY <1>1, <2>1, <2>3, EnclosingStep
    <3> QED BY <2>1, <3>1, <3>2 DEF IsShown, Above
  <2> QED BY <2>1, <2>2, <2>3
<1>4. ASSUME NEW k \in toName' \ {Outside}
      PROVE  \A j \in Enclosing(k) : ~IsDead(j)
  <2>1. CASE k \in toName
    BY <1>4, <2>1 DEF NamedSoFar
  <2>2. CASE k \in Left(l) /\ ~IsDead(k)
    BY <1>3, <2>2 DEF IsShown, Above
  <2> QED BY <1>1, <1>4, <2>1, <2>2
<1>5. ASSUME NEW s \in sites'
      PROVE  s.item \in Items /\ IsShown(s.item) /\ s \in SitesOf(s.item)
  <2>1. CASE s \in sites
    BY <2>1 DEF NamedSoFar
  <2>2. ASSUME NEW i \in Left(l), s \in SitesOf(i)
        PROVE  s.item \in Items /\ IsShown(s.item) /\ s \in SitesOf(s.item)
    <3>1. s.item = i
      BY <2>2 DEF SitesOf
    <3> QED BY <1>3, <2>2, <3>1
  <2> QED BY <1>1, <1>5, <2>1, <2>2
<1>6. ASSUME NEW i \in Items, Enclosing(i) \cap pruned = {}, IsShown(i)
      PROVE  SitesOf(i) \subseteq sites' \/ Outside \in toName' \/ toName' \cap Above(i) # {}
  <2>1. CASE SitesOf(i) \subseteq sites \/ \E k \in toName \ {l} : k = Outside \/ k \in Above(i)
    BY <1>1, <2>1
  <2>2. CASE l = Outside \/ l \in Above(i)
    <3>1. PICK k \in Enclosing(i) : package.within[k] = l
      BY <1>1, <2>2, ListsAreEntered
    <3>2. k \in Items /\ k \in Left(l) /\ k \notin pruned
      BY <1>1, <1>6, <3>1, EnclosingStep DEF Left, ItemsIn
    <3>3. k = i => SitesOf(i) \subseteq sites'
      BY <1>1, <3>2
    <3>4. k # i => ~IsDead(k) /\ k \in Above(i)
      BY <1>6, <3>1 DEF IsShown, Above
    <3> QED BY <1>1, <3>2, <3>3, <3>4
  <2> QED BY <1>1, <1>6, <2>1, <2>2 DEF NamedSoFar
<1> QED
  BY <1>1, <1>2, <1>4, <1>5, <1>6 DEF NamedSoFar

(* Lists and sites are accounted for at every step of the naming.            *)
LEMMA NamingInvariance == Spec => []NamedSoFar
<1>1. Init => NamedSoFar
  BY DEF Init, NamedSoFar
<1>2. IInv /\ NamedSoFar /\ [Next]_vars => NamedSoFar'
  <2> SUFFICES ASSUME IInv, NamedSoFar, [Next]_vars PROVE NamedSoFar'
    OBVIOUS
  <2>1. ASSUME NEW l \in Items \cup {Outside}, Name(l) PROVE NamedSoFar'
    BY <2>1, NameStep
  <2>2. ASSUME \/ EndClose \/ Evaluate \/ EndEval \/ EndPrune
               \/ \E f \in Names : Enable(f)
               \/ \E l \in Items \cup {Outside} : Prune(l)
        PROVE  NamedSoFar'
    <3>1. /\ UNCHANGED <<toName, sites>>
          /\ pc \in {"close", "eval", "prune"} /\ pc' # "done"
      BY <2>2 DEF EndClose, Evaluate, EndEval, EndPrune, Enable, Prune, siteVars
    <3>2. toName' = {Outside} /\ sites' = {}
      BY <3>1 DEF NamedSoFar
    <3> QED BY <3>1, <3>2 DEF NamedSoFar
  <2>3. CASE UNCHANGED vars \/ EndName
    <3>1. /\ UNCHANGED <<package, truth, pruned, toName, sites>>
          /\ pc' = pc \/ (pc = "name" /\ pc' = "done" /\ toName = {})
      BY <2>3 DEF vars, closeVars, EndName, evalVars, pruneVars, siteVars
    <3>2. \A i : /\ Enclosing(i)' = Enclosing(i) /\ Above(i)' = Above(i) /\ SitesOf(i)' = SitesOf(i)
                 /\ IsDead(i)' = IsDead(i) /\ IsShown(i)' = IsShown(i)
      BY <3>1 DEF Enclosing, Encloses, Above, SitesOf, IsDead, IsShown, Verdict
    <3> QED BY <3>1, <3>2 DEF NamedSoFar
  <2> QED BY <2>1, <2>2, <2>3 DEF Next
<1> QED
  BY <1>1, <1>2, Invariance, PTL DEF Spec

(* An impossible gate has one site that accounts for it, its own or that of  *)
(* the outermost dead item around it, however deep the items nest, and no    *)
(* site is called impossible where some build has the item.                  *)
THEOREM NamingIsComplete == Spec => []ImpossibleGatesAreNamed
<1>1. ASSUME NEW i
      PROVE  IsDead(i) <=> \E s \in SitesOf(i) : s.verdict = "Impossible"
  <2> DEFINE site(p) == [item |-> i, gate |-> p, verdict |-> Verdict(p)]
  <2>1. SitesOf(i) = {site(p) : p \in package.gates[i]}
    BY DEF SitesOf
  <2>2. \A p : site(p).verdict = Verdict(p)
    OBVIOUS
  <2> HIDE DEF site
  <2> QED BY <2>1, <2>2 DEF IsDead
<1>2. ASSUME IInv, NamedSoFar, pc = "done", NEW i \in Items,
             IsDead(i), Enclosing(i) \cap pruned = {}
      PROVE  Cardinality({j \in Enclosing(i) :
               \E s \in sites : s.item = j /\ s.verdict = "Impossible"}) = 1
  <2> DEFINE named == {j \in Enclosing(i) : \E s \in sites : s.item = j /\ s.verdict = "Impossible"}
  <2>0. package \in Packages
    BY <1>2 DEF IInv
  <2>1. PICK x \in Enclosing(i) :
          /\ IsDead(x) /\ IsShown(x)
          /\ \A j \in Enclosing(i) : IsDead(j) /\ IsShown(j) => j = x
    BY <1>2, <2>0, OneIsOutermost
  <2>2. x \in Items /\ Enclosing(x) \subseteq Enclosing(i)
    <3>1. x \in Items /\ Encloses(Enclosing(i)) /\ Enclosing(i) \in SUBSET Items
      BY <2>0, EnclosingStep
    <3> QED BY <3>1 DEF Enclosing
  <2>3. SitesOf(x) \subseteq sites
    BY <1>2, <2>1, <2>2 DEF NamedSoFar
  <2>4. x \in named
    <3>1. PICK s \in SitesOf(x) : s.verdict = "Impossible"
      BY <1>1, <2>1
    <3>2. s.item = x
      BY DEF SitesOf
    <3> QED BY <2>3, <3>1, <3>2
  <2>5. ASSUME NEW j \in named PROVE j = x
    <3>1. PICK s \in sites : s.item = j /\ s.verdict = "Impossible"
      BY <2>5
    <3>2. IsShown(j) /\ s \in SitesOf(j)
      BY <1>2, <3>1 DEF NamedSoFar
    <3>3. IsDead(j)
      BY <1>1, <3>1, <3>2
    <3> QED BY <2>1, <2>5, <3>2, <3>3
  <2>6. named = {x}
    BY <2>4, <2>5
  <2> QED BY <2>6, FS_Singleton
<1>3. ASSUME IInv, NamedSoFar, pc = "done", NEW s \in sites, s.verdict = "Impossible",
             NEW b \in AdmittedIn("maximal")
      PROVE  ~IsBuilt(b, s.item)
  <2>1. s.item \in Items /\ s \in SitesOf(s.item)
    BY <1>3 DEF NamedSoFar
  <2>2. PICK p \in package.gates[s.item] : Verdict(p) = "Impossible"
    BY <1>3, <2>1 DEF SitesOf
  <2>3. p \in Preds /\ truth[p]["maximal"] = "Never"
    BY <1>3, <2>1, <2>2, PackageShape DEF IInv, Verdict
  <2>4. ~Holds[b][p]
    BY <1>3, <2>3 DEF IInv, TruthIsSound, Worlds
  <2>5. s.item \in Enclosing(s.item)
    BY <1>3, <2>1, EnclosingStep DEF IInv
  <2> QED BY <2>2, <2>4, <2>5 DEF IsBuilt, GatesHold
<1>4. IInv /\ NamedSoFar => ImpossibleGatesAreNamed
  BY <1>2, <1>3 DEF ImpossibleGatesAreNamed
<1> QED
  BY <1>4, Invariance, NamingInvariance, PTL
=================================================================================
