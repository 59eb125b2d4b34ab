------------------------------ MODULE BaselineRuns ------------------------------
(*****************************************************************************)
(* A project living with its baseline file: developers add dead items, fix   *)
(* them, move files and edit the baseline by hand, and `deadwood check` runs *)
(* in its three modes (analyze_with in src/lib.rs, run in src/baseline.rs).  *)
(* `code` is what a complete analysis would find; a check the analysis had   *)
(* to skip hides its kinds and raises a warning.                             *)
(*****************************************************************************)
EXTENDS BaselineMatch, FiniteSets

CONSTANTS Universe,      \* the findings there could be
          MaxFindings,   \* bound on the findings there are at once
          Outages,       \* the sets of kinds an analysis may have to skip
          Configured,    \* whether deadwood.toml names the baseline file
          Denied         \* the kinds whose severity is `deny`

ASSUME UniverseAreFindings == Universe \subseteq Finding
ASSUME OutagesAreKinds     == Outages \subseteq SUBSET Kinds

VARIABLES code,      \* what a complete analysis finds now
          skipped,   \* kinds the analysis cannot answer for, each with a warning
          file,      \* the baseline: "absent", "broken", or "whole" with entries
          report,    \* what the last run said, until something changes
          accepted   \* findings a written file recorded and that are still there

vars == <<code, skipped, file, report, accepted>>

NoReport == [action |-> "none", exit |-> 0, kept |-> {}, stale |-> {}]
Failed   == [action |-> "failed", exit |-> 2, kept |-> {}, stale |-> {}]

(* Only `deny` findings fail a run that could be made. *)
Said(action, kept, stale) ==
  [ action |-> action,
    exit   |-> IF \E f \in kept : f.key.kind \in Denied THEN 1 ELSE 0,
    kept   |-> kept, stale |-> stale ]

Whole(entries) == [state |-> "whole", entries |-> entries]
Absent         == [state |-> "absent", entries |-> {}]
Broken         == [state |-> "broken", entries |-> {}]

Found  == {f \in code : f.key.kind \notin skipped}
Warned == skipped # {}

Init ==
  /\ code = {}
  /\ skipped = {}
  /\ file = Absent
  /\ report = NoReport
  /\ accepted = {}

-------------------------------------------------------------------------------
(* What developers do between runs. *)

Introduce(f) ==
  /\ f \notin code /\ Cardinality(code) < MaxFindings
  /\ code' = code \cup {f}
  /\ report' = NoReport
  /\ UNCHANGED <<skipped, file, accepted>>

Fix(f) ==
  /\ f \in code
  /\ code' = code \ {f}
  /\ accepted' = accepted \ {f}
  /\ report' = NoReport
  /\ UNCHANGED <<skipped, file>>

Relocated(f, to) ==
  [ key  |-> [ kind |-> f.key.kind, file |-> to, name |-> f.key.name,
               module |-> f.key.module, namespace |-> f.key.namespace ],
    line |-> f.line ]

(* `git mv`: every finding in the file moves with it. *)
MoveFile(from, to) ==
  /\ \E f \in code : f.key.file = from
  /\ \A f \in code : f.key.file # to
  /\ LET here == {f \in code : f.key.file = from}
     IN  /\ code' = (code \ here) \cup {Relocated(f, to) : f \in here}
         /\ accepted' = accepted \ here
  /\ report' = NoReport
  /\ UNCHANGED <<skipped, file>>

(* A `mod` stops or starts resolving, a dependency stops being judged.       *)
Obscure(kinds) ==
  /\ skipped' = kinds /\ kinds # skipped
  /\ report' = NoReport
  /\ UNCHANGED <<code, file, accepted>>

(* A file from a Deadwood that recorded fewer qualifiers, or edited to one.  *)
Abbreviate(key) ==
  { [ kind |-> key.kind, file |-> key.file, name |-> key.name,
      module |-> module, namespace |-> None ] : module \in {key.module, None} }

HandEdit ==
  /\ file.state = "whole"
  /\ \E e \in file.entries : \E k \in Abbreviate(e.key) :
       /\ k # e.key
       /\ file' = Whole((file.entries \ {e}) \cup {[key |-> k, line |-> e.line]})
  /\ report' = NoReport
  /\ UNCHANGED <<code, skipped, accepted>>

Damage ==
  /\ file' \in {Absent, Broken} /\ file' # file
  /\ report' = NoReport
  /\ accepted' = {}
  /\ UNCHANGED <<code, skipped>>
-------------------------------------------------------------------------------
(* One run of `deadwood check`. *)

(* A slip: partial evidence good enough to prune with. *)
RefusesOnlyWrite(mode) == Warned /\ mode = "write" /\ file.state # "absent"

(* rewrites_on_partial_evidence: a skipped check's findings are missing, not *)
(* fixed.                                                                    *)
Refuses(mode) == Warned /\ (mode = "prune" \/ (mode = "write" /\ file.state # "absent"))

(* Apply and Prune load the file and fail without one, except at the default *)
(* location, where no file means no baseline.                                *)
Apply ==
  /\ report' = CASE file.state = "whole" ->
                      Said("applied", Kept(file.entries, Found), Stale(file.entries, Found))
                 [] file.state = "absent" /\ ~ Configured -> Said("unbaselined", Found, {})
                 [] OTHER -> Failed
  /\ UNCHANGED <<code, skipped, file, accepted>>

Write ==
  /\ ~ Refuses("write")
  /\ file' = Whole(Found)
  /\ accepted' = Found
  /\ report' = Said("written", {}, {})
  /\ UNCHANGED <<code, skipped>>

(* A slip: the run's own findings recorded along the way. *)
PruneAccepting ==
  /\ ~ Refuses("prune") /\ file.state = "whole"
  /\ LET stale == Stale(file.entries, Found)
     IN  /\ file' = Whole(Without(file.entries, stale) \cup Found)
         /\ report' = Said("pruned", Kept(file.entries, Found), stale)
  /\ UNCHANGED <<code, skipped, accepted>>

Prune ==
  /\ ~ Refuses("prune") /\ file.state = "whole"
  /\ LET stale == Stale(file.entries, Found)
     IN  /\ file' = Whole(Without(file.entries, stale))
         /\ report' = Said("pruned", Kept(file.entries, Found), stale)
  /\ UNCHANGED <<code, skipped, accepted>>

Fail ==
  /\ Refuses("write") \/ Refuses("prune") \/ file.state # "whole"
  /\ report' = Failed
  /\ UNCHANGED <<code, skipped, file, accepted>>

Developer ==
  \/ \E f \in Universe : Introduce(f)
  \/ \E f \in code : Fix(f)
  \/ \E from, to \in Paths : MoveFile(from, to)
  \/ \E kinds \in Outages : Obscure(kinds)
  \/ HandEdit
  \/ Damage

Check == Apply \/ Write \/ Prune \/ Fail

Next == Developer \/ Check

Spec == Init /\ [][Next]_vars

-------------------------------------------------------------------------------
TypeOK ==
  /\ code \subseteq Finding
  /\ skipped \subseteq Kinds
  /\ file.state \in {"absent", "broken", "whole"} /\ file.entries \subseteq Finding
  /\ report.action \in {"none", "failed", "unbaselined", "applied", "written", "pruned"}
  /\ report.exit \in 0..2 /\ report.kept \subseteq Finding /\ report.stale \subseteq Key
  /\ accepted \subseteq Finding

(* A finding recorded by a write stays quiet as long as it is where it was,  *)
(* through prunes, hand-shortened entries, and runs and rewrites on   *)
(* incomplete analyses: no run reports it while the file is there            *)
(* (src/lib.rs:748-760, docs/BASELINE.md "An incomplete run never rewrites   *)
(* it").                                                                     *)
AcceptedStaysQuiet ==
  file.state = "whole" => accepted \cap Kept(file.entries, Found) = {}

(* Right after `--prune-baseline` a run reports what the pruning run         *)
(* reported, and calls nothing stale (src/baseline.rs:1005-1019, 1064-1073).  *)
PruneIsSettled ==
  report.action = "pruned" =>
    Kept(file.entries, Found) = report.kept /\ Stale(file.entries, Found) = {}

(* No entry both suppresses a finding and is called stale, and none is kept  *)
(* for nothing (src/baseline.rs:588-594, 694-698); and                       *)
(* what is suppressed as moved is one item of one package that left one      *)
(* place for one other: nothing occurs where its entry says, that entry      *)
(* answers for no other finding the exact key left over, and no other entry  *)
(* left over answers for it (src/baseline.rs:136-161).                       *)
LedgerIsExact ==
  LET entries == KeysOf(file.entries)
  IN  /\ Balanced(file.entries, Found)
      /\ \A f \in Suppressed(file.entries, Found) :
           ~ Covered(entries, f.key) =>
             \E e \in entries :
               /\ AnswersFor(e, f.key) /\ Holding(e.file) = Holding(f.key.file)
               /\ ~ Covered(KeysOf(Found), e)
               /\ \A g \in Suppressed(file.entries, Found) :
                    g.key # f.key /\ AnswersFor(e, g.key) => Covered(entries, g.key)
               /\ \A k \in entries :
                    AnswersFor(k, f.key) => k = e \/ Covered(KeysOf(Found), k)

(* Only `--write-baseline` records anything: a prune drops entries and edits *)
(* none, and no other run touches the file (docs/BASELINE.md "Writing is     *)
(* explicit").                                                               *)
RunsOnlyDrop ==
  [][ report'.action \in {"applied", "unbaselined", "failed", "pruned"} =>
        /\ file'.entries \subseteq file.entries
        /\ file'.state = file.state
        /\ report'.action # "pruned" => file' = file ]_vars

===============================================================================
