--------------------------- MODULE BaselineRunsProofs ---------------------------
(*****************************************************************************)
(* What a baseline promises over any history of runs and edits: for every    *)
(* workspace, every set of findings and every pattern of partial analyses.   *)
(*****************************************************************************)
EXTENDS BaselineRuns, TLAPS

-------------------------------------------------------------------------------
(* What the matching promises for every baseline and every set of findings.  *)

(* A finding keeps an entry fresh exactly when that entry suppresses it      *)
(* (src/baseline.rs:588-594).                                                *)
LEMMA CoverIsSymmetric ==
  ASSUME NEW k, NEW j
  PROVE  Covered({k}, j) <=> Covered({j}, k)
BY DEF Covered, SharesKey, CoversModule, CoversNamespace, Overlaps

(* A key covers itself (Coverage::covers, src/baseline.rs).                  *)
LEMMA CoversItself ==
  ASSUME NEW side, NEW k \in side
  PROVE  Covered(side, k)
BY DEF Covered, SharesKey, CoversModule, CoversNamespace, Overlaps

(* Writing the current findings and running again at once reports nothing    *)
(* and calls nothing stale (src/baseline.rs:1047-1063).                      *)
THEOREM WrittenCoversAll ==
  ASSUME NEW findings
  PROVE  Kept(findings, findings) = {} /\ Stale(findings, findings) = {}
<1>1. \A f \in findings : f.key \in KeysOf(findings)
  BY DEF KeysOf
<1>2. Unmatched(findings, findings) = {} /\ Orphaned(findings, findings) = {}
  BY <1>1, CoversItself DEF Unmatched, Orphaned
<1> QED BY <1>2 DEF Kept, Stale

-------------------------------------------------------------------------------
(* Pruning. *)

(* Pruning takes the stale keys out of the file and no other.                *)
LEMMA PrunedKeys ==
  ASSUME NEW entries, NEW stale
  PROVE  KeysOf(Without(entries, stale)) = KeysOf(entries) \ stale
BY DEF KeysOf, Without

(* A stale entry covers no finding, so dropping it uncovers none.            *)
LEMMA PruningKeepsCoverage ==
  ASSUME NEW entries, NEW findings, NEW f \in findings
  PROVE  Covered(KeysOf(Without(entries, Stale(entries, findings))), f.key)
           <=> Covered(KeysOf(entries), f.key)
<1> DEFINE pruned == Without(entries, Stale(entries, findings))
<1>1. KeysOf(pruned) = KeysOf(entries) \ Stale(entries, findings)
  BY PrunedKeys
<1>2. ASSUME NEW k \in KeysOf(entries), Covered({k}, f.key) PROVE k \notin Stale(entries, findings)
  <2>1. Covered({f.key}, k)
    BY <1>2, CoverIsSymmetric
  <2>2. f.key \in KeysOf(findings)
    BY DEF KeysOf
  <2>3. Covered(KeysOf(findings), k)
    BY <2>1, <2>2 DEF Covered
  <2> QED BY <2>3 DEF Stale, Orphaned
<1>3. \A side : Covered(side, f.key) <=> \E k \in side : Covered({k}, f.key)
  BY DEF Covered
<1> QED BY <1>1, <1>2, <1>3

(* Pruning twice drops nothing more, and pruning changes nothing about what  *)
(* is reported (src/baseline.rs:1005-1019, 1064-1073).                        *)
THEOREM PruneSettles ==
  ASSUME NEW entries, NEW findings
  PROVE  LET pruned == Without(entries, Stale(entries, findings))
         IN  /\ Kept(pruned, findings) = Kept(entries, findings)
             /\ Stale(pruned, findings) = {}
<1> DEFINE pruned == Without(entries, Stale(entries, findings))
           moved  == MovedIn(entries, findings)
           left   == Unmatched(entries, findings)
<1>1. KeysOf(pruned) = KeysOf(entries) \ Stale(entries, findings)
  BY PrunedKeys
<1>2. Unmatched(pruned, findings) = left
  BY PruningKeepsCoverage DEF Unmatched
<1>3. Orphaned(pruned, findings) = {k \in Orphaned(entries, findings) : IsMoved(k, moved)}
  BY <1>1 DEF Orphaned, Stale
<1> HIDE DEF pruned
<1>4. MovedIn(pruned, findings) = moved
  <2> DEFINE old == Orphaned(entries, findings)
             new == Orphaned(pruned, findings)
             keys == KeysOf(left)
  <2>1. new \subseteq old
    BY <1>3
  <2>2. ASSUME NEW e \in old, Relocatable(e), Relocation(e) \in moved
        PROVE  e \in new /\ Carrying(new, Relocation(e)) = Carrying(old, Relocation(e))
    BY <1>3, <2>2 DEF IsMoved, Carrying
  <2>3. moved = Moved(old, keys) /\ MovedIn(pruned, findings) = Moved(new, keys)
    BY <1>2 DEF MovedIn
  <2>4. ASSUME NEW r \in Moved(old, keys) PROVE r \in Moved(new, keys)
    <3>1. PICK e \in old : /\ r = Relocation(e) /\ Relocatable(e)
                           /\ Carrying(old, Relocation(e)) = {e}
                           /\ \E f \in keys : /\ Carrying(keys, Relocation(e)) = {f}
                                              /\ CoversNamespace(e.namespace, f.namespace)
      BY DEF Moved
    <3>2. e \in new /\ Carrying(new, Relocation(e)) = {e}
      BY <2>2, <2>3, <3>1
    <3> QED BY <3>1, <3>2 DEF Moved
  <2>5. ASSUME NEW r \in Moved(new, keys) PROVE r \in Moved(old, keys)
    <3>1. PICK e \in new : r = Relocation(e) /\ Relocatable(e)
      BY DEF Moved
    <3> QED BY <1>3, <2>3, <3>1 DEF IsMoved
  <2>6. Moved(new, keys) = Moved(old, keys)
    <3> HIDE DEF new, old, keys, moved
    <3> QED BY <2>4, <2>5
  <2> QED BY <2>3, <2>6
<1>5. Kept(pruned, findings) = Kept(entries, findings)
  BY <1>2, <1>4 DEF Kept
<1>6. Stale(pruned, findings) = {}
  BY <1>3, <1>4 DEF Stale
<1> QED BY <1>5, <1>6 DEF pruned

-------------------------------------------------------------------------------
(* The ledger balances: a finding is suppressed because of an entry that is  *)
(* not stale, and an entry that is not stale has a finding it answers for    *)
(* (src/baseline.rs:588-594, 694-698).                                       *)
THEOREM LedgerBalances ==
  ASSUME NEW entries, NEW findings
  PROVE  Balanced(entries, findings)
<1> DEFINE old == Orphaned(entries, findings)
           left == Unmatched(entries, findings)
           moved == MovedIn(entries, findings)
<1>1. \A side, k : Covered(side, k) <=> \E j \in side : Covered({j}, k)
  BY DEF Covered
<1>2. \A f \in findings : f.key \in KeysOf(findings)
  BY DEF KeysOf
<1>3. ASSUME NEW r \in moved
      PROVE  \E e \in old : \E f \in KeysOf(left) :
               /\ Relocatable(e) /\ Relocation(e) = r /\ Carrying(old, r) = {e}
               /\ Carrying(KeysOf(left), r) = {f}
               /\ CoversNamespace(e.namespace, f.namespace)
  BY DEF MovedIn, Moved
<1>4. ASSUME NEW f \in Suppressed(entries, findings)
      PROVE  \E k \in KeysOf(entries) \ Stale(entries, findings) : AnswersFor(k, f.key)
  <2>1. f \in findings
    BY DEF Suppressed
  <2>2. CASE Covered(KeysOf(entries), f.key)
    <3>1. PICK k \in KeysOf(entries) : Covered({k}, f.key)
      BY <1>1, <2>2
    <3>2. Covered(KeysOf(findings), k)
      BY <1>1, <1>2, <2>1, <3>1, CoverIsSymmetric
    <3> QED BY <3>1, <3>2 DEF Stale, Orphaned, AnswersFor
  <2>3. CASE ~ Covered(KeysOf(entries), f.key)
    <3>1. f \in left /\ Relocatable(f.key) /\ Relocation(f.key) \in moved
      BY <2>1, <2>3 DEF Suppressed, Kept, Unmatched, IsMoved
    <3>2. PICK e \in old, g \in KeysOf(left) :
               /\ Relocatable(e) /\ Relocation(e) = Relocation(f.key)
               /\ Carrying(KeysOf(left), Relocation(f.key)) = {g}
               /\ CoversNamespace(e.namespace, g.namespace)
      BY <1>3, <3>1
    <3>3. f.key = g
      BY <3>1, <3>2 DEF Carrying, KeysOf
    <3>4. e \in KeysOf(entries) /\ e \notin Stale(entries, findings)
      BY <3>1, <3>2 DEF Orphaned, Stale, IsMoved
    <3> QED BY <3>1, <3>2, <3>3, <3>4 DEF AnswersFor
  <2> QED BY <2>2, <2>3
<1>5. ASSUME NEW k \in KeysOf(entries) \ Stale(entries, findings)
      PROVE  \E f \in Suppressed(entries, findings) : AnswersFor(k, f.key)
  <2>1. CASE Covered(KeysOf(findings), k)
    <3>1. PICK f \in findings : Covered({f.key}, k)
      <4>1. PICK j \in KeysOf(findings) : Covered({j}, k)
        BY <1>1, <2>1
      <4> QED BY <4>1 DEF KeysOf
    <3>2. Covered({k}, f.key)
      BY <3>1, CoverIsSymmetric
    <3>3. Covered(KeysOf(entries), f.key)
      BY <1>1, <3>2
    <3>4. f \in Suppressed(entries, findings)
      BY <3>3 DEF Suppressed, Kept, Unmatched
    <3> QED BY <3>2, <3>4 DEF AnswersFor
  <2>2. CASE ~ Covered(KeysOf(findings), k)
    <3>1. k \in old /\ Relocatable(k) /\ Relocation(k) \in moved
      BY <2>2 DEF Orphaned, Stale, IsMoved
    <3>2. PICK e \in old, g \in KeysOf(left) :
               /\ Carrying(old, Relocation(k)) = {e}
               /\ Carrying(KeysOf(left), Relocation(k)) = {g}
               /\ CoversNamespace(e.namespace, g.namespace)
      BY <1>3, <3>1
    <3>3. k = e /\ Relocatable(g) /\ Relocation(g) = Relocation(k)
      BY <3>1, <3>2 DEF Carrying
    <3>4. PICK f \in left : f.key = g
      BY <3>2 DEF KeysOf
    <3>5. f \in Suppressed(entries, findings)
      BY <3>1, <3>3, <3>4 DEF Suppressed, Kept, Unmatched, IsMoved
    <3> QED BY <3>1, <3>2, <3>3, <3>4, <3>5 DEF AnswersFor
  <2> QED BY <2>1, <2>2
<1> QED BY <1>4, <1>5 DEF Balanced

-------------------------------------------------------------------------------
(* What a run and a history of runs keep. *)

(* What is kept and what is stale come from the findings and the entries.    *)
LEMMA MatchingTypes ==
  ASSUME NEW entries \in SUBSET Finding, NEW findings \in SUBSET Finding
  PROVE  /\ Kept(entries, findings) \subseteq findings
         /\ Stale(entries, findings) \subseteq KeysOf(entries)
         /\ KeysOf(entries) \subseteq Key
         /\ Without(entries, Stale(entries, findings)) \subseteq entries
BY DEF Kept, Unmatched, Stale, Orphaned, KeysOf, Without, Finding

(* A run that could be made exits 0 or 1 (src/lib.rs:763-790).               *)
LEMMA SaidTypes ==
  ASSUME NEW action, NEW kept, NEW stale
  PROVE  LET said == Said(action, kept, stale)
         IN  /\ said.action = action /\ said.exit \in 0..2
             /\ said.kept = kept /\ said.stale = stale
BY DEF Said

-------------------------------------------------------------------------------
(* Whatever developers and runs do, the findings are findings, the entries   *)
(* are entries and the report is one a run can give (src/lib.rs:690-790).    *)
LEMMA TypeIsInductive == TypeOK /\ [Next]_vars => TypeOK'
<1> SUFFICES ASSUME TypeOK, [Next]_vars PROVE TypeOK'
  OBVIOUS
<1> USE DEF TypeOK
<1>0. /\ NoReport.action = "none" /\ NoReport.exit = 0 /\ NoReport.kept = {} /\ NoReport.stale = {}
      /\ Failed.action = "failed" /\ Failed.exit = 2 /\ Failed.kept = {} /\ Failed.stale = {}
  BY DEF NoReport, Failed
<1>1. Found \in SUBSET Finding /\ file.entries \in SUBSET Finding
  BY DEF Found
<1>2. /\ Kept(file.entries, Found) \subseteq Finding
      /\ Stale(file.entries, Found) \subseteq Key
      /\ Without(file.entries, Stale(file.entries, Found)) \subseteq Finding
  BY <1>1, MatchingTypes
<1>3. ASSUME NEW f \in Universe, Introduce(f) PROVE TypeOK'
  BY <1>0, <1>3, UniverseAreFindings DEF Introduce
<1>4. ASSUME NEW f \in code, Fix(f) PROVE TypeOK'
  BY <1>0, <1>4 DEF Fix
<1>5. ASSUME NEW from \in Paths, NEW to \in Paths, MoveFile(from, to) PROVE TypeOK'
  <2>1. \A f \in Finding : Relocated(f, to) \in Finding
    BY DEF Relocated, Finding, Key
  <2> QED BY <1>0, <1>5, <2>1 DEF MoveFile
<1>6. ASSUME NEW kinds \in Outages, Obscure(kinds) PROVE TypeOK'
  BY <1>0, <1>6, OutagesAreKinds DEF Obscure
<1>7. CASE HandEdit
  <2>1. PICK e \in file.entries : \E k \in Abbreviate(e.key) :
          file' = Whole((file.entries \ {e}) \cup {[key |-> k, line |-> e.line]})
    BY <1>7 DEF HandEdit
  <2>2. PICK k \in Abbreviate(e.key) :
          file' = Whole((file.entries \ {e}) \cup {[key |-> k, line |-> e.line]})
    BY <2>1
  <2>3. [key |-> k, line |-> e.line] \in Finding
    BY DEF Abbreviate, Finding, Key
  <2> QED BY <1>0, <1>7, <2>2, <2>3 DEF HandEdit, Whole
<1>8. CASE Damage
  BY <1>0, <1>8 DEF Damage, Absent, Broken
<1>9. CASE Apply
  <2>1. /\ report'.action \in {"failed", "unbaselined", "applied"} /\ report'.exit \in 0..2
        /\ report'.kept \subseteq Finding /\ report'.stale \subseteq Key
    BY <1>0, <1>1, <1>2, <1>9, SaidTypes DEF Apply
  <2> QED BY <1>9, <2>1 DEF Apply
<1>10. CASE Write
  BY <1>1, <1>10, SaidTypes DEF Write, Whole
<1>11. CASE Prune
  BY <1>2, <1>11, SaidTypes DEF Prune, Whole
<1>12. CASE Fail
  BY <1>0, <1>12 DEF Fail
<1>13. CASE UNCHANGED vars
  <2>1. code' = code /\ skipped' = skipped /\ file' = file /\ report' = report /\ accepted' = accepted
    BY <1>13 DEF vars
  <2> QED BY <2>1
<1> QED
  BY <1>3, <1>4, <1>5, <1>6, <1>7, <1>8, <1>9, <1>10, <1>11, <1>12, <1>13
  DEF Next, Developer, Check

(* The state stays well typed over any history.                              *)
THEOREM TypeCorrect == Spec => []TypeOK
<1>1. Init => TypeOK
  BY DEF Init, TypeOK, NoReport, Absent
<1> QED BY <1>1, TypeIsInductive, PTL DEF Spec

-------------------------------------------------------------------------------
(* Why an accepted finding stays quiet: it is still in the code, and while   *)
(* the file is there an entry covers it by the key alone, whatever the       *)
(* analysis skips (the moved match depends on what else is found).           *)
AcceptedIsCovered ==
  /\ accepted \subseteq code
  /\ file.state = "whole" => \A f \in accepted : Covered(KeysOf(file.entries), f.key)

(* A shortened entry covers what the whole one covered: a qualifier that is  *)
(* not recorded agrees with every one (src/baseline.rs:102-116).             *)
LEMMA AbbreviatingKeepsCoverage ==
  ASSUME NEW e, NEW entries, e \in entries, NEW k \in Abbreviate(e.key), NEW key,
         Covered(KeysOf(entries), key)
  PROVE  Covered(KeysOf((entries \ {e}) \cup {[key |-> k, line |-> e.line]}), key)
<1> DEFINE edited == (entries \ {e}) \cup {[key |-> k, line |-> e.line]}
<1>1. PICK d \in entries : Covered({d.key}, key)
  BY DEF Covered, KeysOf
<1>2. CASE d = e
  <2>1. Covered({k}, key)
    BY <1>1, <1>2 DEF Abbreviate, Covered, SharesKey, CoversModule, CoversNamespace
  <2>2. k \in KeysOf(edited)
    <3>1. [key |-> k, line |-> e.line] \in edited /\ [key |-> k, line |-> e.line].key = k
      OBVIOUS
    <3> QED BY <3>1 DEF KeysOf
  <2> QED BY <2>1, <2>2 DEF Covered
<1>3. CASE d # e
  <2>1. d.key \in KeysOf(edited)
    BY <1>1, <1>3 DEF KeysOf
  <2> QED BY <1>1, <2>1 DEF Covered
<1> QED BY <1>2, <1>3

(* No step uncovers an accepted finding: a run that drops or replaces        *)
(* entries has seen the whole analysis, or there was no file (src/lib.rs:    *)
(* 748-760).                                                                 *)
LEMMA CoverageIsInductive == AcceptedIsCovered /\ [Next]_vars => AcceptedIsCovered'
<1> SUFFICES ASSUME AcceptedIsCovered, [Next]_vars PROVE AcceptedIsCovered'
  OBVIOUS
<1> USE DEF AcceptedIsCovered
<1>1. ASSUME NEW f \in Universe, Introduce(f) PROVE AcceptedIsCovered'
  BY <1>1 DEF Introduce
<1>2. ASSUME NEW f \in code, Fix(f) PROVE AcceptedIsCovered'
  BY <1>2 DEF Fix
<1>3. ASSUME NEW from \in Paths, NEW to \in Paths, MoveFile(from, to) PROVE AcceptedIsCovered'
  BY <1>3 DEF MoveFile
<1>4. ASSUME NEW kinds \in Outages, Obscure(kinds) PROVE AcceptedIsCovered'
  BY <1>4 DEF Obscure
<1>5. CASE HandEdit
  <2>1. PICK e \in file.entries : \E k \in Abbreviate(e.key) :
          file' = Whole((file.entries \ {e}) \cup {[key |-> k, line |-> e.line]})
    BY <1>5 DEF HandEdit
  <2>2. PICK k \in Abbreviate(e.key) :
          file' = Whole((file.entries \ {e}) \cup {[key |-> k, line |-> e.line]})
    BY <2>1
  <2>3. \A f \in accepted : Covered(KeysOf(file'.entries), f.key)
    BY <1>5, <2>2, AbbreviatingKeepsCoverage DEF HandEdit, Whole
  <2> QED BY <1>5, <2>3 DEF HandEdit
<1>6. CASE Damage
  BY <1>6 DEF Damage
<1>7. CASE Apply
  BY <1>7 DEF Apply
<1>8. CASE Write
  <2>1. \A f \in Found : Covered(KeysOf(Found), f.key)
    BY CoversItself DEF KeysOf
  <2> QED BY <1>8, <2>1 DEF Write, Whole, Found
<1>9. CASE Prune
  <2>1. Found = code
    BY <1>9 DEF Prune, Refuses, Warned, Found
  <2>2. file'.entries = Without(file.entries, Stale(file.entries, Found))
    BY <1>9 DEF Prune, Whole
  <2>3. \A f \in accepted : Covered(KeysOf(file'.entries), f.key)
    BY <1>9, <2>1, <2>2, PruningKeepsCoverage DEF Prune
  <2> QED BY <1>9, <2>3 DEF Prune
<1>10. CASE Fail
  BY <1>10 DEF Fail
<1>11. CASE UNCHANGED vars
  BY <1>11 DEF vars
<1> QED
  BY <1>1, <1>2, <1>3, <1>4, <1>5, <1>6, <1>7, <1>8, <1>9, <1>10, <1>11
  DEF Next, Developer, Check

(* An accepted finding is not reported again while the file is there,        *)
(* through prunes, shortened entries and partial analyses (src/lib.rs:       *)
(* 748-760, docs/BASELINE.md "An incomplete run never rewrites it").         *)
THEOREM AcceptedStaysQuietAlways == Spec => []AcceptedStaysQuiet
<1>1. Init => AcceptedIsCovered
  BY DEF Init, AcceptedIsCovered
<1>2. AcceptedIsCovered => AcceptedStaysQuiet
  BY DEF AcceptedIsCovered, AcceptedStaysQuiet, Kept, Unmatched
<1> QED BY <1>1, <1>2, CoverageIsInductive, PTL DEF Spec

-------------------------------------------------------------------------------
(* A report of a prune stands only until something changes, and the prune    *)
(* settled everything in one go (src/baseline.rs:1005-1019, 1064-1073).      *)
LEMMA SettlingIsInductive == PruneIsSettled /\ [Next]_vars => PruneIsSettled'
<1> SUFFICES ASSUME PruneIsSettled, [Next]_vars PROVE PruneIsSettled'
  OBVIOUS
<1>1. ASSUME report' = NoReport \/ report' = Failed PROVE PruneIsSettled'
  BY <1>1 DEF PruneIsSettled, NoReport, Failed
<1>2. ASSUME NEW f \in Universe, Introduce(f) PROVE PruneIsSettled'
  BY <1>1, <1>2 DEF Introduce
<1>3. ASSUME NEW f \in code, Fix(f) PROVE PruneIsSettled'
  BY <1>1, <1>3 DEF Fix
<1>4. ASSUME NEW from \in Paths, NEW to \in Paths, MoveFile(from, to) PROVE PruneIsSettled'
  BY <1>1, <1>4 DEF MoveFile
<1>5. ASSUME NEW kinds \in Outages, Obscure(kinds) PROVE PruneIsSettled'
  BY <1>1, <1>5 DEF Obscure
<1>6. CASE HandEdit
  BY <1>1, <1>6 DEF HandEdit
<1>7. CASE Damage
  BY <1>1, <1>7 DEF Damage
<1>8. CASE Apply
  <2>1. report'.action # "pruned"
    BY <1>8, SaidTypes DEF Apply, Failed
  <2> QED BY <2>1 DEF PruneIsSettled
<1>9. CASE Write
  <2>1. report'.action # "pruned"
    BY <1>9, SaidTypes DEF Write
  <2> QED BY <2>1 DEF PruneIsSettled
<1>10. CASE Prune
  <2>1. /\ file'.entries = Without(file.entries, Stale(file.entries, Found))
        /\ report'.kept = Kept(file.entries, Found) /\ Found' = Found
    BY <1>10, SaidTypes DEF Prune, Whole, Found
  <2>2. Kept(file'.entries, Found') = report'.kept /\ Stale(file'.entries, Found') = {}
    BY <2>1, PruneSettles
  <2> QED BY <2>2 DEF PruneIsSettled
<1>11. CASE Fail
  BY <1>1, <1>11 DEF Fail
<1>12. CASE UNCHANGED vars
  BY <1>12 DEF vars, PruneIsSettled, Found
<1> QED
  BY <1>2, <1>3, <1>4, <1>5, <1>6, <1>7, <1>8, <1>9, <1>10, <1>11, <1>12
  DEF Next, Developer, Check

(* Over any history, a run right after a prune reports what the prune        *)
(* reported and calls nothing stale.                                         *)
THEOREM PruneIsSettledAlways == Spec => []PruneIsSettled
<1>1. Init => PruneIsSettled
  BY DEF Init, NoReport, PruneIsSettled
<1> QED BY <1>1, SettlingIsInductive, PTL DEF Spec

-------------------------------------------------------------------------------
(* A finding no key covers is quiet because of exactly one entry: it sits in *)
(* the same package, found nothing by its own key, answers for no other      *)
(* leftover finding, and no other leftover entry answers for this one        *)
(* (src/baseline.rs:136-161).                                                *)
LEMMA MovedIsOneItem ==
  ASSUME NEW entries, NEW findings, NEW f \in Suppressed(entries, findings),
         ~ Covered(KeysOf(entries), f.key)
  PROVE  \E e \in KeysOf(entries) :
           /\ AnswersFor(e, f.key) /\ Holding(e.file) = Holding(f.key.file)
           /\ ~ Covered(KeysOf(findings), e)
           /\ \A g \in Suppressed(entries, findings) :
                g.key # f.key /\ AnswersFor(e, g.key) => Covered(KeysOf(entries), g.key)
           /\ \A k \in KeysOf(entries) :
                AnswersFor(k, f.key) => k = e \/ Covered(KeysOf(findings), k)
<1> DEFINE old  == Orphaned(entries, findings)
           left == Unmatched(entries, findings)
           r    == Relocation(f.key)
<1>1. f \in left /\ Relocatable(f.key) /\ r \in Moved(old, KeysOf(left))
  BY DEF Suppressed, Kept, Unmatched, IsMoved, MovedIn
<1>2. PICK e \in old :
        /\ r = Relocation(e) /\ Relocatable(e) /\ Carrying(old, r) = {e}
        /\ \E g \in KeysOf(left) : /\ Carrying(KeysOf(left), r) = {g}
                                   /\ CoversNamespace(e.namespace, g.namespace)
  BY <1>1 DEF Moved
<1>3. f.key \in Carrying(KeysOf(left), r)
  BY <1>1 DEF Carrying, KeysOf
<1>4. Carrying(KeysOf(left), r) = {f.key} /\ CoversNamespace(e.namespace, f.key.namespace)
  BY <1>2, <1>3
<1>5. AnswersFor(e, f.key)
  BY <1>1, <1>2, <1>4 DEF AnswersFor
<1>6. Holding(e.file) = Holding(f.key.file)
  BY <1>2 DEF Relocation
<1>7. \A k, side : k \in side => \A j : Covered({k}, j) => Covered(side, j)
  BY DEF Covered
<1>8. e \in KeysOf(entries) /\ ~ Covered(KeysOf(findings), e)
  BY DEF Orphaned
<1>9. ASSUME NEW g \in Suppressed(entries, findings), g.key # f.key, AnswersFor(e, g.key),
             ~ Covered(KeysOf(entries), g.key)
      PROVE  FALSE
  <2>1. Relocatable(g.key) /\ Relocation(g.key) = r
    BY <1>2, <1>7, <1>8, <1>9 DEF AnswersFor
  <2>2. g \in left
    BY <1>9 DEF Suppressed, Unmatched
  <2>3. g.key \in Carrying(KeysOf(left), r)
    BY <2>1, <2>2 DEF Carrying, KeysOf
  <2> QED BY <1>4, <1>9, <2>3
<1>10. ASSUME NEW k \in KeysOf(entries), AnswersFor(k, f.key), ~ Covered(KeysOf(findings), k)
       PROVE  k = e
  <2>1. Relocatable(k) /\ Relocation(k) = r
    BY <1>7, <1>10 DEF AnswersFor
  <2>2. k \in Carrying(old, r)
    BY <1>10, <2>1 DEF Carrying, Orphaned
  <2> QED BY <1>2, <2>2
<1> QED BY <1>5, <1>6, <1>8, <1>9, <1>10

(* The ledger is exact whatever was written, pruned, shortened or moved.     *)
THEOREM LedgerIsExactAlways == Spec => []LedgerIsExact
<1>1. LedgerIsExact
  BY LedgerBalances, MovedIsOneItem DEF LedgerIsExact
<1> QED BY <1>1, PTL

(* Only `--write-baseline` records anything: a prune drops entries and every *)
(* other run leaves the file alone (src/lib.rs:748-790).                     *)
THEOREM RunsOnlyDropAlways == Spec => RunsOnlyDrop
<1> DEFINE Drops ==
      report'.action \in {"applied", "unbaselined", "failed", "pruned"} =>
        /\ file'.entries \subseteq file.entries
        /\ file'.state = file.state
        /\ report'.action # "pruned" => file' = file
<1>1. [Next]_vars => [Drops]_vars
  <2> SUFFICES ASSUME Next PROVE Drops
    OBVIOUS
  <2>1. CASE Developer
    <3>1. report'.action = "none"
      BY <2>1 DEF Developer, Introduce, Fix, MoveFile, Obscure, HandEdit, Damage, NoReport
    <3> QED BY <3>1
  <2>2. CASE Apply \/ Fail
    BY <2>2 DEF Apply, Fail
  <2>3. CASE Write
    <3>1. report'.action = "written"
      BY <2>3, SaidTypes DEF Write
    <3> QED BY <3>1
  <2>4. CASE Prune
    <3>1. /\ file'.entries = Without(file.entries, Stale(file.entries, Found))
          /\ file'.state = "whole" /\ file.state = "whole" /\ report'.action = "pruned"
      BY <2>4, SaidTypes DEF Prune, Whole
    <3> QED BY <3>1 DEF Without
  <2> QED BY <2>1, <2>2, <2>3, <2>4 DEF Next, Check
<1> QED BY <1>1, PTL DEF Spec, RunsOnlyDrop
===============================================================================
