------------------------ MODULE DependencyEvidenceProofs ------------------------
(*****************************************************************************)
(* What the dependency checks say of any package, whatever its files name    *)
(* and rename: every mention is charged to the crate it means, and acting on *)
(* every report takes no crate from code that links it.                      *)
(*****************************************************************************)
EXTENDS DependencyEvidence, TLAPS

Charges == [Words -> SUBSET Contexts]

FileRenames(file) == {a \in file.aliases : ~ a.prelude}

(* Renames that stand each for one crate, none of them for another's name.   *)
Simple(renames) ==
  /\ renames \subseteq Alias
  /\ StandForOne(renames)
  /\ \A a, b \in renames : a # b => b.alias # a.real

(* What fold_aliases makes of some mentions, whichever order it takes.       *)
FoldedBy(some, renames) ==
  [w \in Words |-> {c \in Contexts : \E v \in Words : Through(renames, v) = w /\ c \in some[v]}]

(* What one file names, and the first files of a target, and one target, and *)
(* the first targets of a package.                                           *)
FileNames(t, f) == FoldedBy(Collected(t, f), FileRenames(f))

Gathered(t, n) ==
  [w \in Words |-> {c \in Contexts : \E j \in 1..(n - 1) : c \in FileNames(t, t.files[j])[w]}]

TargetNames(t) == FoldedBy(Gathered(t, Len(t.files) + 1), Preludes(t))

Attributed(targets, n) ==
  [w \in Words |-> {c \in Contexts : \E k \in 1..(n - 1) : c \in TargetNames(targets[k])[w]}]

PreludesBefore(t, n) == {a \in UNION {t.files[j].aliases : j \in 1..(n - 1)} : a.prelude}

-------------------------------------------------------------------------------
(* A package's targets and files are what SourcesAreTyped says.              *)
LEMMA TargetsAreTyped ==
  ASSUME NEW s \in Sources, NEW k \in 1..Len(s.targets)
  PROVE  /\ s.targets[k] \in Target
         /\ StandForOne(Preludes(s.targets[k]))
         /\ \A j \in 1..Len(s.targets[k].files) : StandForOne(s.targets[k].files[j].aliases)
<1>1. s.targets \in Seq(Target)
  BY SourcesAreTyped
<1>2. \A q \in Seq(Target) : \A i \in 1..Len(q) : q[i] \in Target
  OBVIOUS
<1>3. s.targets[k] \in Target
  BY <1>1, <1>2
<1> QED BY <1>3, SourcesAreTyped

(* A target's files are files.                                               *)
LEMMA FilesAreTyped ==
  ASSUME NEW t \in Target
  PROVE  /\ t.kind \in Contexts /\ t.files \in Seq(File) /\ Len(t.files) \in Nat
         /\ \A j \in 1..Len(t.files) : t.files[j] \in File
         /\ Preludes(t) \subseteq Alias
<1>1. t.kind \in Contexts /\ t.files \in Seq(File)
  BY DEF Target
<1>2. \A q \in Seq(File) : Len(q) \in Nat /\ \A i \in 1..Len(q) : q[i] \in File
  OBVIOUS
<1>3. \A j \in 1..Len(t.files) : t.files[j] \in File
  BY <1>1, <1>2
<1>4. Preludes(t) \subseteq Alias
  <2>1. \A j \in 1..Len(t.files) : t.files[j].aliases \subseteq Alias
    BY <1>3 DEF File
  <2> QED BY <2>1 DEF Preludes
<1> QED BY <1>1, <1>2, <1>3, <1>4

(* Runtime code is moved to the tests or to code nobody can place, and other *)
(* code nowhere: what is left is a context (shifted, src/deps.rs:660-675).   *)
LEMMA ContextsAreContexts ==
  ASSUME NEW t \in Target, NEW f \in File, NEW shift
  PROVE  ContextOf(t, f, shift) \in Contexts
<1>1. t.kind \in Contexts
  BY DEF Target
<1>2. ASSUME NEW c \in Contexts, NEW s PROVE Shifted(c, s) \in Contexts
  BY <1>2 DEF Shifted, Contexts
<1>3. Shifted(t.kind, f.site) \in Contexts
  BY <1>1, <1>2
<1>4. Shifted(Shifted(t.kind, f.site), shift) \in Contexts
  BY <1>3, <1>2
<1> QED BY <1>4 DEF ContextOf, Contexts

(* The mentions of a file are charged to words, each with contexts.          *)
LEMMA CollectedIsTyped ==
  ASSUME NEW t \in Target, NEW f \in File
  PROVE  Collected(t, f) \in Charges
BY ContextsAreContexts DEF Collected, Charges

(* Folding a rename leaves charges.                                          *)
LEMMA FoldingIsTyped ==
  ASSUME NEW some \in Charges, NEW a \in Alias
  PROVE  Folded(some, a) \in Charges
BY DEF Charges, Folded, Alias

(* Adding what another file or target names leaves charges.                  *)
LEMMA MergingIsTyped ==
  ASSUME NEW some \in Charges, NEW more \in Charges
  PROVE  Merged(some, more) \in Charges
BY DEF Charges, Merged

(* Nothing is charged at first.                                              *)
LEMMA NowhereIsTyped == Nowhere \in Charges
BY DEF Nowhere, Charges

-------------------------------------------------------------------------------
(* A word no rename has is itself; a word one has is the crate of it.        *)
LEMMA ThroughOne ==
  ASSUME NEW renames \in SUBSET Alias, StandForOne(renames), NEW word
  PROVE  /\ (\A a \in renames : a.alias # word) => Through(renames, word) = word
         /\ \A a \in renames : a.alias = word => Through(renames, word) = a.real
<1>1. (\A a \in renames : a.alias # word) => Through(renames, word) = word
  BY DEF Through
<1>2. ASSUME NEW a \in renames, a.alias = word PROVE Through(renames, word) = a.real
  <2>1. (CHOOSE b \in renames : b.alias = word) = a
    BY <1>2 DEF StandForOne
  <2> QED BY <1>2, <2>1 DEF Through
<1> QED BY <1>1, <1>2

(* Whatever a word is renamed to is a word.                                  *)
LEMMA ThroughIsAWord ==
  ASSUME NEW renames \in SUBSET Alias, StandForOne(renames), NEW word \in Words
  PROVE  Through(renames, word) \in Words
<1>1. CASE \E a \in renames : a.alias = word
  BY <1>1, ThroughOne DEF Alias
<1>2. CASE \A a \in renames : a.alias # word
  BY <1>2, ThroughOne
<1> QED BY <1>1, <1>2

(* Before any rename is folded, every word is its own.                       *)
LEMMA NothingFolded ==
  ASSUME NEW some \in Charges
  PROVE  FoldedBy(some, {}) = some
<1>1. \A v : Through({}, v) = v
  BY DEF Through
<1>2. \A w \in Words : some[w] \subseteq Contexts
  BY DEF Charges
<1>3. \A w \in Words : {c \in Contexts : \E v \in Words : Through({}, v) = w /\ c \in some[v]} = some[w]
  BY <1>1, <1>2
<1> QED BY <1>3 DEF FoldedBy, Charges

(* Of renames none of which is of another's name, folding one more is the    *)
(* same whichever were folded before: the order in which a hash map yields   *)
(* them does not matter (fold_aliases, src/deps.rs:627-633).                 *)
LEMMA FoldOneMore ==
  ASSUME NEW some \in Charges, NEW renames, Simple(renames),
         NEW done \in SUBSET renames, NEW a \in renames, a \notin done
  PROVE  FoldedBy(some, done \cup {a}) = Folded(FoldedBy(some, done), a)
<1> DEFINE more == done \cup {a}
<1> DEFINE before == FoldedBy(some, done)
<1>1. /\ done \in SUBSET Alias /\ StandForOne(done) /\ more \in SUBSET Alias /\ StandForOne(more)
      /\ a \in more /\ a.alias \in Words /\ a.real \in Words
  BY DEF Simple, StandForOne, Alias
<1>2. Through(done, a.alias) = a.alias
  <2>1. \A b \in done : b.alias # a.alias
    BY DEF Simple, StandForOne
  <2> QED BY <1>1, <2>1, ThroughOne
<1>3. Through(more, a.alias) = a.real
  BY <1>1, ThroughOne
<1>4. ASSUME NEW v, v # a.alias PROVE Through(more, v) = Through(done, v)
  <2>1. CASE \E b \in done : b.alias = v
    <3>1. PICK b \in done : b.alias = v
      BY <2>1
    <3>2. Through(done, v) = b.real
      BY <1>1, <3>1, ThroughOne
    <3>3. b \in more
      OBVIOUS
    <3>4. Through(more, v) = b.real
      BY <1>1, <3>1, <3>3, ThroughOne
    <3> QED BY <3>2, <3>4
  <2>2. CASE \A b \in done : b.alias # v
    <3>1. Through(done, v) = v
      BY <1>1, <2>2, ThroughOne
    <3>2. \A b \in more : b.alias # v
      BY <1>4, <2>2
    <3>3. Through(more, v) = v
      BY <1>1, <3>2, ThroughOne
    <3> QED BY <3>1, <3>3
  <2> QED BY <2>1, <2>2
<1>5. ASSUME NEW v, v # a.alias PROVE Through(done, v) # a.alias
  <2>1. CASE \E b \in done : b.alias = v
    <3>1. PICK b \in done : b.alias = v
      BY <2>1
    <3>2. Through(done, v) = b.real
      BY <1>1, <3>1, ThroughOne
    <3>3. b.real # a.alias
      BY DEF Simple
    <3> QED BY <3>2, <3>3
  <2>2. CASE \A b \in done : b.alias # v
    <3>1. Through(done, v) = v
      BY <1>1, <2>2, ThroughOne
    <3> QED BY <1>5, <3>1
  <2> QED BY <2>1, <2>2
<1> HIDE DEF more
<1>6. before[a.alias] = some[a.alias]
  <2>1. some[a.alias] \subseteq Contexts
    BY <1>1 DEF Charges
  <2>2. before[a.alias] = {c \in Contexts : \E v \in Words : Through(done, v) = a.alias /\ c \in some[v]}
    BY <1>1 DEF FoldedBy
  <2> QED BY <1>1, <1>2, <1>5, <2>1, <2>2
<1>7. ASSUME NEW w \in Words
      PROVE  {c \in Contexts : \E v \in Words : Through(more, v) = w /\ c \in some[v]}
               = (IF w = a.alias THEN {} ELSE before[w]) \cup (IF w = a.real THEN before[a.alias] ELSE {})
  <2>1. before[w] = {c \in Contexts : \E v \in Words : Through(done, v) = w /\ c \in some[v]}
    BY DEF FoldedBy
  <2>2. some[a.alias] \subseteq Contexts
    BY <1>1 DEF Charges
  <2> HIDE DEF before
  <2>3. CASE w = a.alias /\ w # a.real
    BY <1>3, <1>4, <1>5, <2>3
  <2>4. CASE w = a.alias /\ w = a.real
    <3>1. ASSUME NEW c \in Contexts
          PROVE  (\E v \in Words : Through(more, v) = w /\ c \in some[v]) <=> c \in some[a.alias]
      BY <1>1, <1>3, <1>4, <1>5, <2>4
    <3> QED BY <1>6, <2>2, <2>4, <3>1
  <2>5. CASE w # a.alias /\ w # a.real
    <3>1. \A v : Through(more, v) = w <=> Through(done, v) = w
      BY <1>2, <1>3, <1>4, <2>5
    <3> QED BY <2>1, <2>5, <3>1
  <2>6. CASE w # a.alias /\ w = a.real
    <3>1. ASSUME NEW c \in Contexts
          PROVE  (\E v \in Words : Through(more, v) = w /\ c \in some[v])
                    <=> (c \in some[a.alias] \/ \E v \in Words : Through(done, v) = w /\ c \in some[v])
      <4>1. ASSUME NEW v \in Words, Through(more, v) = w, c \in some[v]
            PROVE  c \in some[a.alias] \/ Through(done, v) = w
        BY <1>4, <4>1
      <4>2. ASSUME NEW v \in Words, Through(done, v) = w, c \in some[v] PROVE Through(more, v) = w
        BY <1>2, <1>4, <2>6, <4>2
      <4> QED BY <1>1, <1>3, <2>6, <4>1, <4>2
    <3> QED BY <1>6, <2>1, <2>2, <2>6, <3>1
  <2> QED BY <2>3, <2>4, <2>5, <2>6
<1> QED BY <1>7 DEF FoldedBy, Folded, more

-------------------------------------------------------------------------------
(* What is gathered, folded and attributed are charges.                      *)
LEMMA ChargesOfNames ==
  ASSUME NEW t \in Target, NEW n \in Nat, NEW targets, NEW some, NEW renames, NEW f \in File
  PROVE  /\ Gathered(t, n) \in Charges /\ FileNames(t, f) \in Charges
         /\ TargetNames(t) \in Charges /\ Attributed(targets, n) \in Charges
         /\ FoldedBy(some, renames) \in Charges
BY DEF Charges, Gathered, FileNames, TargetNames, Attributed, FoldedBy

(* With nothing read, nothing is charged and nothing renamed.                *)
LEMMA NothingRead ==
  ASSUME NEW t, NEW targets
  PROVE  Gathered(t, 1) = Nowhere /\ Attributed(targets, 1) = Nowhere /\ PreludesBefore(t, 1) = {}
<1>1. 1..(1 - 1) = {}
  OBVIOUS
<1>2. \A w \in Words : {c \in Contexts : \E j \in 1..(1 - 1) : c \in FileNames(t, t.files[j])[w]} = {}
  BY <1>1
<1>3. \A w \in Words : {c \in Contexts : \E k \in 1..(1 - 1) : c \in TargetNames(targets[k])[w]} = {}
  BY <1>1
<1>4. PreludesBefore(t, 1) = {}
  BY <1>1 DEF PreludesBefore
<1> QED BY <1>2, <1>3, <1>4 DEF Gathered, Attributed, Nowhere

(* One file more is its names added to those gathered (add_file_at_depth,    *)
(* src/deps.rs:563-565), its renames to those of the crate root.             *)
LEMMA OneFileMore ==
  ASSUME NEW t \in Target, NEW n \in 1..Len(t.files)
  PROVE  /\ Gathered(t, n + 1) = Merged(Gathered(t, n), FileNames(t, t.files[n]))
         /\ PreludesBefore(t, n + 1) = PreludesBefore(t, n) \cup {a \in t.files[n].aliases : a.prelude}
<1>1. Len(t.files) \in Nat /\ n \in Nat /\ t.files[n] \in File
  BY FilesAreTyped
<1>2. 1..((n + 1) - 1) = (1..(n - 1)) \cup {n}
  BY <1>1
<1>3. ASSUME NEW w \in Words
      PROVE  {c \in Contexts : \E j \in 1..((n + 1) - 1) : c \in FileNames(t, t.files[j])[w]}
               = {c \in Contexts : \E j \in 1..(n - 1) : c \in FileNames(t, t.files[j])[w]}
                   \cup FileNames(t, t.files[n])[w]
  <2>1. FileNames(t, t.files[n])[w] \subseteq Contexts
    BY <1>1, ChargesOfNames DEF Charges
  <2> QED BY <1>2, <2>1
<1>4. Gathered(t, n + 1) = Merged(Gathered(t, n), FileNames(t, t.files[n]))
  BY <1>3 DEF Gathered, Merged
<1>5. PreludesBefore(t, n + 1) = PreludesBefore(t, n) \cup {a \in t.files[n].aliases : a.prelude}
  BY <1>2 DEF PreludesBefore
<1> QED BY <1>4, <1>5

(* Once every file is read, so is the crate root.                            *)
LEMMA CrateRootIsRead ==
  ASSUME NEW t \in Target
  PROVE  PreludesBefore(t, Len(t.files) + 1) = Preludes(t)
<1>1. Len(t.files) \in Nat
  BY FilesAreTyped
<1>2. 1..((Len(t.files) + 1) - 1) = 1..Len(t.files)
  BY <1>1
<1> QED BY <1>2 DEF PreludesBefore, Preludes

(* One target more is its folded names added to the package's (add_target,   *)
(* src/deps.rs:481-486).                                                     *)
LEMMA OneTargetMore ==
  ASSUME NEW targets \in Seq(Target), NEW n \in 1..Len(targets)
  PROVE  Attributed(targets, n + 1) = Merged(Attributed(targets, n), TargetNames(targets[n]))
<1>1. n \in Nat /\ targets[n] \in Target
  OBVIOUS
<1>2. 1..((n + 1) - 1) = (1..(n - 1)) \cup {n}
  BY <1>1
<1>3. ASSUME NEW w \in Words
      PROVE  {c \in Contexts : \E k \in 1..((n + 1) - 1) : c \in TargetNames(targets[k])[w]}
               = {c \in Contexts : \E k \in 1..(n - 1) : c \in TargetNames(targets[k])[w]}
                   \cup TargetNames(targets[n])[w]
  <2>1. TargetNames(targets[n])[w] \subseteq Contexts
    BY <1>1 DEF TargetNames, FoldedBy
  <2> QED BY <1>2, <2>1
<1> QED BY <1>3 DEF Attributed, Merged

(* Where no rename is of another's name, those of a file are simple, and     *)
(* those of a crate root.                                                    *)
LEMMA RenamesAreSimple ==
  ASSUME package \in Sources, ~ Chained, NEW k \in 1..Len(package.targets)
  PROVE  /\ Simple(Preludes(package.targets[k]))
         /\ \A j \in 1..Len(package.targets[k].files) : Simple(FileRenames(package.targets[k].files[j]))
<1> DEFINE t == package.targets[k]
<1>1. /\ t \in Target /\ StandForOne(Preludes(t))
      /\ \A j \in 1..Len(t.files) : StandForOne(t.files[j].aliases)
  BY TargetsAreTyped
<1>2. /\ Len(t.files) \in Nat /\ Preludes(t) \subseteq Alias
      /\ \A j \in 1..Len(t.files) : t.files[j] \in File
  BY <1>1, FilesAreTyped
<1>3. ASSUME NEW j \in 1..Len(t.files), NEW a \in t.files[j].aliases \cup Preludes(t),
             NEW b \in t.files[j].aliases \cup Preludes(t), a # b, b.prelude => a.prelude
      PROVE  b.alias # a.real
  BY <1>3 DEF Chained
<1> HIDE DEF t
<1>4. Simple(Preludes(t))
  <2>1. ASSUME NEW a \in Preludes(t), NEW b \in Preludes(t), a # b PROVE b.alias # a.real
    <3>1. PICK j \in 1..Len(t.files) : a \in t.files[j].aliases
      BY DEF Preludes
    <3>2. a.prelude
      BY DEF Preludes
    <3> QED BY <1>3, <2>1, <3>1, <3>2
  <2> QED BY <1>1, <1>2, <2>1 DEF Simple
<1>5. ASSUME NEW j \in 1..Len(t.files) PROVE Simple(FileRenames(t.files[j]))
  <2>1. t.files[j].aliases \subseteq Alias
    BY <1>2 DEF File
  <2>2. ASSUME NEW a \in FileRenames(t.files[j]), NEW b \in FileRenames(t.files[j]), a # b
        PROVE  b.alias # a.real
    <3>1. a \in t.files[j].aliases /\ b \in t.files[j].aliases /\ ~ b.prelude
      BY DEF FileRenames
    <3> QED BY <1>3, <2>2, <3>1
  <2> QED BY <1>1, <2>1, <2>2 DEF Simple, FileRenames, StandForOne
<1> QED BY <1>4, <1>5 DEF t

-------------------------------------------------------------------------------
(* Files and targets are read in their order and each to its end.            *)
Places ==
  /\ package \in Sources
  /\ at \in Nat \X Nat
  /\ at[1] \in 1..(Len(package.targets) + 1)
  /\ at[1] <= Len(package.targets) => at[2] \in 1..(Len(CurrentTarget.files) + 1)
  /\ pc \in {"read", "fold file", "fold target", "done"}
  /\ pc = "fold file" => at[1] <= Len(package.targets) /\ at[2] <= Len(CurrentTarget.files)
  /\ pc = "fold target" => at[1] <= Len(package.targets) /\ at[2] = Len(CurrentTarget.files) + 1
  /\ pc = "done" => at[1] > Len(package.targets)

Typed ==
  /\ names \in Charges /\ targetNames \in Charges /\ fileNames \in Charges
  /\ aliases \subseteq Alias /\ folding \subseteq Alias

(* What has been gathered is what the files and targets read so far name.    *)
Charged ==
  /\ names = Attributed(package.targets, at[1])
  /\ pc = "read" /\ at[1] > Len(package.targets) => targetNames = Nowhere /\ aliases = {}
  /\ pc \in {"read", "fold file"} /\ at[1] <= Len(package.targets) =>
       targetNames = Gathered(CurrentTarget, at[2])
  /\ pc = "read" /\ at[1] <= Len(package.targets) => aliases = PreludesBefore(CurrentTarget, at[2])
  /\ pc = "fold file" =>
       /\ aliases = PreludesBefore(CurrentTarget, at[2] + 1)
       /\ folding \subseteq FileRenames(CurrentFile)
       /\ fileNames = FoldedBy(Collected(CurrentTarget, CurrentFile), FileRenames(CurrentFile) \ folding)
  /\ pc = "fold target" =>
       /\ folding \subseteq Preludes(CurrentTarget)
       /\ targetNames = FoldedBy(Gathered(CurrentTarget, at[2]), Preludes(CurrentTarget) \ folding)

(* Reports are what find_unused and find_misplaced say of their entries.     *)
Judged ==
  /\ pc # "done" => unused = {} /\ misplaced = {}
  /\ \A e \in unused : e \in package.entries /\ Unused(e)
  /\ \A m \in misplaced : /\ m.entry \in package.entries
                          /\ m.to = Misplaced(m.entry) /\ m.to # Stays

EvidenceInv == Places /\ Typed /\ (~ Chained => Charged) /\ Judged

-------------------------------------------------------------------------------
(* The target and the file being read are ones of the package.               *)
LEMMA CurrentIsTyped ==
  ASSUME Places
  PROVE  /\ package.targets \in Seq(Target) /\ Len(package.targets) \in Nat
         /\ at[1] <= Len(package.targets) =>
              /\ at[1] \in 1..Len(package.targets)
              /\ CurrentTarget \in Target /\ Len(CurrentTarget.files) \in Nat
              /\ at[2] <= Len(CurrentTarget.files) =>
                   at[2] \in 1..Len(CurrentTarget.files) /\ CurrentFile \in File
<1> DEFINE count == Len(package.targets)
<1>1. package \in Sources /\ at[1] \in 1..(count + 1)
  BY DEF Places
<1>2. package.targets \in Seq(Target)
  BY <1>1, SourcesAreTyped
<1>3. count \in Nat
  BY <1>2
<1> SUFFICES ASSUME at[1] <= count
             PROVE  /\ at[1] \in 1..count
                    /\ CurrentTarget \in Target /\ Len(CurrentTarget.files) \in Nat
                    /\ at[2] <= Len(CurrentTarget.files) =>
                         at[2] \in 1..Len(CurrentTarget.files) /\ CurrentFile \in File
  BY <1>2, <1>3
<1> HIDE DEF count
<1>4. at[1] \in 1..count
  BY <1>1, <1>3
<1>5. CurrentTarget \in Target
  BY <1>1, <1>4, TargetsAreTyped DEF CurrentTarget, count
<1>6. Len(CurrentTarget.files) \in Nat
  BY <1>5, FilesAreTyped
<1>7. at[2] \in 1..(Len(CurrentTarget.files) + 1)
  BY DEF Places, count
<1>8. at[2] <= Len(CurrentTarget.files) => at[2] \in 1..Len(CurrentTarget.files)
  BY <1>6, <1>7
<1>9. at[2] \in 1..Len(CurrentTarget.files) => CurrentFile \in File
  BY <1>5, FilesAreTyped DEF CurrentFile
<1> QED BY <1>4, <1>5, <1>6, <1>8, <1>9

(* Reading begins at the first file of the first target, with nothing named. *)
LEMMA ReadingBegins == Init => EvidenceInv
<1> SUFFICES ASSUME Init PROVE EvidenceInv
  OBVIOUS
<1> USE DEF Init
<1>1. package.targets \in Seq(Target)
  BY SourcesAreTyped
<1>2. Len(package.targets) \in Nat
  BY <1>1
<1>3. Places
  <2>1. ASSUME at[1] <= Len(package.targets) PROVE at[2] \in 1..(Len(CurrentTarget.files) + 1)
    <3>1. 1 \in 1..Len(package.targets)
      BY <1>2, <2>1
    <3>2. Len(CurrentTarget.files) \in Nat
      BY <3>1, TargetsAreTyped, FilesAreTyped DEF CurrentTarget
    <3> QED BY <3>2
  <2> QED BY <1>2, <2>1 DEF Places
<1>4. Typed
  BY NowhereIsTyped DEF Typed
<1>5. Charged
  BY NothingRead DEF Charged
<1>6. Judged
  BY DEF Judged
<1> QED BY <1>3, <1>4, <1>5, <1>6 DEF EvidenceInv

(* What an entry is told rests on the names and on the manifest.             *)
LEMMA VerdictsRestOnNames ==
  ASSUME package' = package, names' = names
  PROVE  \A e : (Unused(e)' <=> Unused(e)) /\ Misplaced(e)' = Misplaced(e)
BY DEF Unused, Misplaced, NormalCopies

(* A step goes from one file to the next and from one target to the next     *)
(* (add_target, src/deps.rs:448-487).                                        *)
LEMMA PlacesHold == Places /\ [Next]_vars => Places'
<1> SUFFICES ASSUME Places, [Next]_vars PROVE Places'
  OBVIOUS
<1> DEFINE count == Len(package.targets)
<1>1. count \in Nat
  BY CurrentIsTyped
<1>2. ASSUME at[1] <= count
      PROVE  /\ CurrentTarget \in Target /\ Len(CurrentTarget.files) \in Nat
             /\ at[1] \in 1..count
  BY <1>2, CurrentIsTyped
<1>3. CASE ReadFile
  BY <1>1, <1>2, <1>3 DEF ReadFile, Places, CurrentTarget
<1>4. CASE EndFile
  <2>1. /\ at[1] <= count /\ at[2] <= Len(CurrentTarget.files) /\ package' = package
        /\ at \in Nat \X Nat /\ at[1] \in 1..(count + 1) /\ package \in Sources
    BY <1>4 DEF EndFile, Places
  <2>4. at[2] \in 1..Len(CurrentTarget.files)
    BY <2>1, CurrentIsTyped
  <2>2. at' = <<at[1], at[2] + 1>> /\ pc' = "read"
    BY <1>4 DEF EndFile
  <2>3. CurrentTarget' = CurrentTarget
    BY <2>1, <2>2 DEF CurrentTarget
  <2>5. Len(CurrentTarget.files) \in Nat
    BY <2>1, <1>2
  <2>6. /\ at'[1] = at[1] /\ at'[2] \in 1..(Len(CurrentTarget.files) + 1) /\ at' \in Nat \X Nat
    BY <2>1, <2>2, <2>4, <2>5
  <2> QED BY <2>1, <2>2, <2>3, <2>6 DEF Places
<1>5. CASE BeginTargetFold
  <2>1. at[1] <= count /\ at[2] > Len(CurrentTarget.files)
    BY <1>5 DEF BeginTargetFold
  <2>2. Len(CurrentTarget.files) \in Nat /\ at[2] \in 1..(Len(CurrentTarget.files) + 1)
    BY <1>2, <2>1 DEF Places
  <2>3. at[2] = Len(CurrentTarget.files) + 1
    BY <2>1, <2>2
  <2> QED BY <1>5, <2>1, <2>3 DEF BeginTargetFold, Places, CurrentTarget
<1>6. CASE EndTarget
  <2>1. at[1] \in 1..count /\ package' = package /\ at' = <<at[1] + 1, 1>> /\ pc' = "read"
    BY <1>6, <1>2 DEF EndTarget, Places
  <2>2. at'[1] \in 1..(count + 1) /\ at'[2] = 1 /\ at' \in Nat \X Nat
    BY <1>1, <2>1
  <2>3. ASSUME at'[1] <= count PROVE CurrentTarget' \in Target
    <3>1. at'[1] \in 1..count
      BY <1>1, <2>2, <2>3
    <3> QED BY <2>1, <3>1, TargetsAreTyped DEF CurrentTarget, Places
  <2>4. ASSUME at'[1] <= count PROVE at'[2] \in 1..(Len(CurrentTarget'.files) + 1)
    <3>1. Len(CurrentTarget'.files) \in Nat
      BY <2>3, <2>4, FilesAreTyped
    <3> QED BY <2>2, <3>1
  <2> QED BY <2>1, <2>2, <2>4 DEF Places
<1>7. CASE \E a \in folding : FoldFile(a)
  BY <1>7 DEF FoldFile, Places, CurrentTarget
<1>8. CASE \E a \in folding : FoldTarget(a)
  BY <1>8 DEF FoldTarget, Places, CurrentTarget
<1>9. CASE Judge
  BY <1>9 DEF Judge, Places, CurrentTarget
<1>10. CASE UNCHANGED vars
  BY <1>10 DEF vars, Places, CurrentTarget
<1> QED BY <1>3, <1>4, <1>5, <1>6, <1>7, <1>8, <1>9, <1>10 DEF Next

(* Whatever is read or folded, what is charged are contexts.                 *)
LEMMA TypesHold == Places /\ Typed /\ [Next]_vars => Typed'
<1> SUFFICES ASSUME Places, Typed, [Next]_vars PROVE Typed'
  OBVIOUS
<1> USE DEF Typed
<1>1. CASE ReadFile
  <2>1. at[1] <= Len(package.targets) /\ at[2] <= Len(CurrentTarget.files)
    BY <1>1 DEF ReadFile
  <2>2. CurrentTarget \in Target /\ CurrentFile \in File
    BY <2>1, CurrentIsTyped
  <2>3. Collected(CurrentTarget, CurrentFile) \in Charges /\ CurrentFile.aliases \subseteq Alias
    BY <2>2, CollectedIsTyped DEF File
  <2> QED BY <1>1, <2>3 DEF ReadFile
<1>2. CASE EndFile
  BY <1>2, MergingIsTyped DEF EndFile
<1>3. CASE BeginTargetFold
  BY <1>3 DEF BeginTargetFold
<1>4. CASE EndTarget
  BY <1>4, MergingIsTyped, NowhereIsTyped DEF EndTarget
<1>5. CASE \E a \in folding : FoldFile(a)
  BY <1>5, FoldingIsTyped DEF FoldFile
<1>6. CASE \E a \in folding : FoldTarget(a)
  BY <1>6, FoldingIsTyped DEF FoldTarget
<1>7. CASE Judge
  BY <1>7 DEF Judge
<1>8. CASE UNCHANGED vars
  BY <1>8 DEF vars
<1> QED BY <1>1, <1>2, <1>3, <1>4, <1>5, <1>6, <1>7, <1>8 DEF Next

(* Reports are made once, of what everything read came to (src/lib.rs).      *)
LEMMA VerdictsHold == Places /\ Judged /\ [Next]_vars => Judged'
<1> SUFFICES ASSUME Places, Judged, [Next]_vars PROVE Judged'
  OBVIOUS
<1> USE DEF Judged
<1>1. CASE ReadFile
  BY <1>1 DEF ReadFile
<1>2. CASE EndFile
  BY <1>2 DEF EndFile
<1>3. CASE BeginTargetFold
  BY <1>3 DEF BeginTargetFold
<1>4. CASE EndTarget
  BY <1>4 DEF EndTarget
<1>5. CASE \E a \in folding : FoldFile(a)
  BY <1>5 DEF FoldFile
<1>6. CASE \E a \in folding : FoldTarget(a)
  BY <1>6 DEF FoldTarget
<1>7. CASE Judge
  <2>1. package' = package /\ names' = names /\ pc' = "done"
    BY <1>7 DEF Judge
  <2>2. \A e \in unused' : e \in package.entries /\ Unused(e)
    BY <1>7 DEF Judge
  <2>3. \A m \in misplaced' :
          m.entry \in package.entries /\ m.to = Misplaced(m.entry) /\ m.to # Stays
    BY <1>7 DEF Judge
  <2>4. \A e : (Unused(e)' <=> Unused(e)) /\ Misplaced(e)' = Misplaced(e)
    BY <2>1, VerdictsRestOnNames
  <2> QED BY <2>1, <2>2, <2>3, <2>4
<1>8. CASE UNCHANGED vars
  <2>1. \A e : (Unused(e)' <=> Unused(e)) /\ Misplaced(e)' = Misplaced(e)
    BY <1>8, VerdictsRestOnNames DEF vars
  <2> QED BY <1>8, <2>1 DEF vars
<1> QED BY <1>1, <1>2, <1>3, <1>4, <1>5, <1>6, <1>7, <1>8 DEF Next

(* Each step keeps what is gathered true to what has been read (add_target   *)
(* and fold_aliases, src/deps.rs:448-633).                                   *)
LEMMA ChargesHold ==
  Places /\ Typed /\ ~ Chained /\ Charged /\ [Next]_vars => Charged'
<1> SUFFICES ASSUME Places, Typed, ~ Chained, Charged, [Next]_vars PROVE Charged'
  OBVIOUS
<1> DEFINE count == Len(package.targets)
           t == CurrentTarget
           f == CurrentFile
<1>1. package \in Sources /\ package.targets \in Seq(Target) /\ count \in Nat
  BY CurrentIsTyped DEF Places
<1>2. ASSUME at[1] <= count
      PROVE  /\ at[1] \in 1..count /\ t \in Target /\ Len(t.files) \in Nat /\ Simple(Preludes(t))
             /\ at[2] \in 1..(Len(t.files) + 1)
             /\ at[2] <= Len(t.files) =>
                  at[2] \in 1..Len(t.files) /\ f \in File /\ f = t.files[at[2]] /\ Simple(FileRenames(f))
  <2>1. /\ at[1] \in 1..count /\ t \in Target /\ Len(t.files) \in Nat
        /\ at[2] <= Len(t.files) => at[2] \in 1..Len(t.files) /\ f \in File
    BY <1>2, CurrentIsTyped
  <2>2. /\ Simple(Preludes(t)) /\ \A j \in 1..Len(t.files) : Simple(FileRenames(t.files[j]))
    BY <1>1, <2>1, RenamesAreSimple DEF CurrentTarget
  <2>3. at[2] \in 1..(Len(t.files) + 1)
    BY <1>2 DEF Places
  <2> QED BY <2>1, <2>2, <2>3 DEF CurrentFile
<1>3. CASE ReadFile
  <2>1. /\ at[1] <= count /\ at[2] <= Len(t.files) /\ at' = at /\ package' = package
        /\ names' = names /\ targetNames' = targetNames /\ pc = "read" /\ pc' = "fold file"
        /\ fileNames' = Collected(t, f) /\ folding' = FileRenames(f)
        /\ aliases' = aliases \cup {a \in f.aliases : a.prelude}
    BY <1>3 DEF ReadFile, FileRenames
  <2>2. CurrentTarget' = t /\ CurrentFile' = f
    BY <2>1 DEF CurrentTarget, CurrentFile
  <2>3. aliases' = PreludesBefore(t, at[2] + 1)
    BY <1>2, <2>1, OneFileMore DEF Charged
  <2>4. fileNames' = FoldedBy(Collected(t, f), FileRenames(f) \ folding')
    <3>1. FileRenames(f) \ folding' = {}
      BY <2>1
    <3> QED BY <1>2, <2>1, <3>1, CollectedIsTyped, NothingFolded
  <2> HIDE DEF t, f
  <2> QED BY <2>1, <2>2, <2>3, <2>4 DEF Charged, t, f
<1>4. CASE EndFile
  <2>1. /\ at' = <<at[1], at[2] + 1>> /\ package' = package /\ names' = names /\ aliases' = aliases
        /\ folding = {} /\ targetNames' = Merged(targetNames, fileNames)
        /\ pc = "fold file" /\ pc' = "read"
    BY <1>4 DEF EndFile
  <2>2. at[1] <= count /\ at[2] <= Len(t.files) /\ at'[1] = at[1] /\ at'[2] = at[2] + 1
    BY <2>1 DEF Places
  <2>3. CurrentTarget' = t
    BY <2>1, <2>2 DEF CurrentTarget
  <2>4. fileNames = FileNames(t, f)
    <3>1. FileRenames(f) \ folding = FileRenames(f)
      BY <2>1
    <3> QED BY <2>1, <3>1 DEF Charged, FileNames
  <2>5. targetNames' = Gathered(t, at[2] + 1)
    BY <1>2, <2>1, <2>2, <2>4, OneFileMore DEF Charged
  <2>6. aliases' = PreludesBefore(t, at[2] + 1)
    BY <2>1 DEF Charged
  <2>7. names' = Attributed(package.targets, at[1])
    BY <2>1 DEF Charged
  <2> HIDE DEF t, f
  <2>8. Gathered(CurrentTarget, at[2])' = Gathered(t, at[2] + 1)
    BY <2>2, <2>3
  <2>9. pc' = "read" /\ package' = package /\ ~ (at'[1] > count)
    <3>1. at[1] \in 1..count
      BY <1>2, <2>2
    <3>2. \A n \in Nat : \A i \in 1..n : ~ (i > n)
      OBVIOUS
    <3>3. at'[1] = at[1] /\ count \in Nat
      BY <1>1, <2>2
    <3> HIDE DEF count
    <3>4. ~ (at'[1] > count)
      BY <3>1, <3>2, <3>3
    <3> QED BY <2>1, <3>4
  <2> QED BY <2>2, <2>3, <2>5, <2>6, <2>7, <2>8, <2>9 DEF Charged
<1>5. CASE BeginTargetFold
  <2>1. /\ at[1] <= count /\ at[2] > Len(t.files) /\ at' = at /\ package' = package
        /\ names' = names /\ targetNames' = targetNames /\ pc = "read" /\ pc' = "fold target"
        /\ folding' = aliases
    BY <1>5 DEF BeginTargetFold
  <2>2. CurrentTarget' = t
    BY <2>1 DEF CurrentTarget
  <2>3. at[2] = Len(t.files) + 1
    <3>1. \A n \in Nat : \A i \in 1..(n + 1) : i > n => i = n + 1
      OBVIOUS
    <3> HIDE DEF t
    <3> QED BY <1>2, <2>1, <3>1
  <2>4. folding' = Preludes(t)
    BY <1>2, <2>1, <2>3, CrateRootIsRead DEF Charged
  <2>5. targetNames' = FoldedBy(Gathered(t, at[2]), Preludes(t) \ folding')
    <3>1. Preludes(t) \ folding' = {}
      BY <2>4
    <3>2. Gathered(t, at[2]) \in Charges
      BY DEF Gathered, Charges
    <3>3. targetNames' = Gathered(t, at[2])
      BY <2>1 DEF Charged
    <3> QED BY <3>1, <3>2, <3>3, NothingFolded
  <2> HIDE DEF t
  <2> QED BY <2>1, <2>2, <2>4, <2>5 DEF Charged
<1>6. CASE EndTarget
  <2>1. /\ at' = <<at[1] + 1, 1>> /\ package' = package /\ folding = {} /\ pc = "fold target"
        /\ names' = Merged(names, targetNames) /\ targetNames' = Nowhere /\ aliases' = {} /\ pc' = "read"
    BY <1>6 DEF EndTarget
  <2>2. at[1] <= count /\ at[2] = Len(t.files) + 1 /\ at'[1] = at[1] + 1 /\ at'[2] = 1
    BY <2>1 DEF Places
  <2>3. targetNames = TargetNames(t)
    <3>1. Preludes(t) \ folding = Preludes(t)
      BY <2>1
    <3> QED BY <2>1, <2>2, <3>1 DEF Charged, TargetNames
  <2>4. names' = Attributed(package.targets, at[1] + 1)
    <3>1. t = package.targets[at[1]] /\ names = Attributed(package.targets, at[1])
      BY DEF CurrentTarget, Charged
    <3> QED BY <1>1, <1>2, <2>1, <2>2, <2>3, <3>1, OneTargetMore
  <2>5. \A u : Gathered(u, 1) = Nowhere /\ PreludesBefore(u, 1) = {}
    BY NothingRead
  <2> HIDE DEF t
  <2> QED BY <2>1, <2>2, <2>4, <2>5 DEF Charged
<1>7. ASSUME NEW a \in folding, FoldFile(a) PROVE Charged'
  <2>1. /\ at' = at /\ package' = package /\ names' = names /\ targetNames' = targetNames
        /\ aliases' = aliases /\ pc = "fold file" /\ pc' = pc
        /\ fileNames' = Folded(fileNames, a) /\ folding' = folding \ {a}
    BY <1>7 DEF FoldFile
  <2>2. at[1] <= count /\ at[2] <= Len(t.files)
    BY <2>1 DEF Places
  <2>3. CurrentTarget' = t /\ CurrentFile' = f
    BY <2>1 DEF CurrentTarget, CurrentFile
  <2>4. /\ folding \subseteq FileRenames(f)
        /\ fileNames = FoldedBy(Collected(t, f), FileRenames(f) \ folding)
    BY <2>1 DEF Charged
  <2>5. FileRenames(f) \ folding' = (FileRenames(f) \ folding) \cup {a}
    BY <2>1, <2>4
  <2>6. fileNames' = FoldedBy(Collected(t, f), FileRenames(f) \ folding')
    <3>1. Collected(t, f) \in Charges /\ Simple(FileRenames(f))
      BY <1>2, <2>2, CollectedIsTyped
    <3>2. FileRenames(f) \ folding \in SUBSET FileRenames(f) /\ a \in FileRenames(f)
      BY <2>4
    <3>3. a \notin FileRenames(f) \ folding
      OBVIOUS
    <3> DEFINE some == Collected(t, f)
               done == FileRenames(f) \ folding
    <3> HIDE DEF some, done
    <3>4. FoldedBy(some, done \cup {a}) = Folded(FoldedBy(some, done), a)
      BY <3>1, <3>2, <3>3, FoldOneMore DEF some, done
    <3> QED BY <2>1, <2>4, <2>5, <3>4 DEF some, done
  <2> HIDE DEF t, f
  <2> QED BY <2>1, <2>2, <2>3, <2>4, <2>6 DEF Charged, t, f
<1>8. ASSUME NEW a \in folding, FoldTarget(a) PROVE Charged'
  <2>1. /\ at' = at /\ package' = package /\ names' = names
        /\ aliases' = aliases /\ pc = "fold target" /\ pc' = pc
        /\ targetNames' = Folded(targetNames, a) /\ folding' = folding \ {a}
    BY <1>8 DEF FoldTarget
  <2>2. at[1] <= count
    BY <2>1 DEF Places
  <2>3. CurrentTarget' = t
    BY <2>1 DEF CurrentTarget
  <2>4. /\ folding \subseteq Preludes(t)
        /\ targetNames = FoldedBy(Gathered(t, at[2]), Preludes(t) \ folding)
    BY <2>1 DEF Charged
  <2>5. Preludes(t) \ folding' = (Preludes(t) \ folding) \cup {a}
    BY <2>1, <2>4
  <2>6. targetNames' = FoldedBy(Gathered(t, at[2]), Preludes(t) \ folding')
    <3>1. Gathered(t, at[2]) \in Charges /\ Simple(Preludes(t))
      BY <1>2, <2>2 DEF Gathered, Charges
    <3>2. Preludes(t) \ folding \in SUBSET Preludes(t) /\ a \in Preludes(t)
      BY <2>4
    <3>3. a \notin Preludes(t) \ folding
      OBVIOUS
    <3> DEFINE some == Gathered(t, at[2])
               done == Preludes(t) \ folding
    <3> HIDE DEF some, done
    <3>4. FoldedBy(some, done \cup {a}) = Folded(FoldedBy(some, done), a)
      BY <3>1, <3>2, <3>3, FoldOneMore DEF some, done
    <3> QED BY <2>1, <2>4, <2>5, <3>4 DEF some, done
  <2> HIDE DEF t
  <2> QED BY <2>1, <2>2, <2>3, <2>4, <2>6 DEF Charged, t
<1>9. CASE Judge
  <2>1. /\ at' = at /\ package' = package /\ names' = names /\ pc' = "done"
    BY <1>9 DEF Judge
  <2> QED BY <2>1 DEF Charged
<1>10. CASE UNCHANGED vars
  BY <1>10 DEF vars, Charged, CurrentTarget, CurrentFile
<1> QED BY <1>3, <1>4, <1>5, <1>6, <1>7, <1>8, <1>9, <1>10 DEF Next

-------------------------------------------------------------------------------
(* Where no doc comment and no inner module spells a renamed crate, folding  *)
(* first the renames of a file and then those of the crate root takes every  *)
(* mention to the crate it means (add_file_at_depth, add_target).            *)
LEMMA FoldingGivesMeanings ==
  ASSUME package \in Sources, Plain, NEW k \in 1..Len(package.targets),
         NEW j \in 1..Len(package.targets[k].files)
  PROVE  LET t == package.targets[k]
             f == t.files[j]
         IN  /\ \A m \in f.mentions : Meant(t, f, m) = Through(Preludes(t), Through(FileRenames(f), m.word))
             /\ \A a \in f.aliases : MeantByAlias(t, a) = Through(Preludes(t), Through(FileRenames(f), a.real))
<1> DEFINE t == package.targets[k]
           f == t.files[j]
<1>1. Simple(Preludes(t)) /\ Simple(FileRenames(f))
  BY RenamesAreSimple DEF Plain
<1>2. /\ \A m \in f.mentions : m.shift = "docs" => \A a \in f.aliases \cup Preludes(t) : a.alias # m.word
      /\ \A m \in f.mentions : \A a \in f.aliases : m.inner /\ ~ a.prelude => a.alias # m.word
  BY DEF Plain, RespelledInDocs, RespelledInside
<1>3. \A a, b \in f.aliases \cup Preludes(t) : a # b /\ (b.prelude => a.prelude) => b.alias # a.real
  BY DEF Plain, Chained
<1>4. \A a \in Preludes(t) : a.prelude
  BY DEF Preludes
<1>5. \A a \in FileRenames(f) : a \in f.aliases /\ ~ a.prelude
  BY DEF FileRenames
<1>6. \A word : /\ (\A a \in FileRenames(f) : a.alias # word) => Through(FileRenames(f), word) = word
                /\ (\A a \in Preludes(t) : a.alias # word) => Through(Preludes(t), word) = word
                /\ \A a \in FileRenames(f) : a.alias = word => Through(FileRenames(f), word) = a.real
                /\ \A a \in Preludes(t) : a.alias = word => Through(Preludes(t), word) = a.real
  BY <1>1, ThroughOne DEF Simple
<1> HIDE DEF t, f
<1>7. ASSUME NEW m \in f.mentions
      PROVE  Meant(t, f, m) = Through(Preludes(t), Through(FileRenames(f), m.word))
  <2>1. CASE m.shift = "docs"
    <3>1. /\ \A a \in FileRenames(f) : a.alias # m.word
          /\ \A a \in Preludes(t) : a.alias # m.word
      BY <1>2, <1>5, <2>1
    <3> QED BY <1>6, <2>1, <3>1 DEF Meant
  <2>2. CASE m.shift # "docs" /\ m.inner
    <3>1. \A a \in FileRenames(f) : a.alias # m.word
      BY <1>2, <1>5, <2>2
    <3> QED BY <1>6, <2>2, <3>1 DEF Meant
  <2>3. CASE m.shift # "docs" /\ ~ m.inner
    BY <2>3 DEF Meant, FileRenames
  <2> QED BY <2>1, <2>2, <2>3
<1>8. ASSUME NEW a \in f.aliases
      PROVE  MeantByAlias(t, a) = Through(Preludes(t), Through(FileRenames(f), a.real))
  <2>1. Through(FileRenames(f), a.real) = a.real
    <3>1. CASE \E b \in FileRenames(f) : b.alias = a.real
      <4>1. PICK b \in FileRenames(f) : b.alias = a.real
        BY <3>1
      <4>2. b = a
        BY <1>3, <1>5, <4>1
      <4> QED BY <1>6, <4>1, <4>2
    <3>2. CASE \A b \in FileRenames(f) : b.alias # a.real
      BY <1>6, <3>2
    <3> QED BY <3>1, <3>2
  <2>2. ASSUME a.prelude PROVE Through(Preludes(t), a.real) = a.real
    <3>1. CASE \E b \in Preludes(t) : b.alias = a.real
      <4>1. PICK b \in Preludes(t) : b.alias = a.real
        BY <3>1
      <4>2. b = a
        BY <1>3, <2>2, <4>1
      <4> QED BY <1>6, <4>1, <4>2
    <3>2. CASE \A b \in Preludes(t) : b.alias # a.real
      BY <1>6, <3>2
    <3> QED BY <3>1, <3>2
  <2> QED BY <2>1, <2>2 DEF MeantByAlias
<1> QED BY <1>7, <1>8 DEF t, f

(* A context is charged to a word where a file names the word: by a mention, *)
(* or by renaming the crate (Collector, src/deps.rs:1232-1475).              *)
LEMMA WhatAFileNames ==
  ASSUME NEW t \in Target, NEW f \in File, NEW u \in Words, NEW c
  PROVE  c \in Collected(t, f)[u]
           <=> \/ \E m \in f.mentions : m.word = u /\ c = ContextOf(t, f, m.shift)
               \/ \E a \in f.aliases : a.real = u /\ c = ContextOf(t, f, "none")
BY DEF Collected

(* What the fold of a whole target charges a crate with, file by file.       *)
LEMMA WhatATargetNames ==
  ASSUME NEW t \in Target, Simple(Preludes(t)),
         \A j \in 1..Len(t.files) : Simple(FileRenames(t.files[j])),
         NEW w \in Words, NEW c \in Contexts
  PROVE  c \in TargetNames(t)[w]
           <=> \E j \in 1..Len(t.files) : \E u \in Words :
                 /\ Through(Preludes(t), Through(FileRenames(t.files[j]), u)) = w
                 /\ c \in Collected(t, t.files[j])[u]
<1>1. Len(t.files) \in Nat
  BY FilesAreTyped
<1>2. 1..((Len(t.files) + 1) - 1) = 1..Len(t.files)
  BY <1>1
<1>3. c \in TargetNames(t)[w]
        <=> \E v \in Words : Through(Preludes(t), v) = w /\ c \in Gathered(t, Len(t.files) + 1)[v]
  BY DEF TargetNames, FoldedBy
<1>4. ASSUME NEW v \in Words
      PROVE  c \in Gathered(t, Len(t.files) + 1)[v]
               <=> \E j \in 1..Len(t.files) : c \in FileNames(t, t.files[j])[v]
  BY <1>2 DEF Gathered
<1>5. ASSUME NEW v \in Words, NEW j \in 1..Len(t.files)
      PROVE  c \in FileNames(t, t.files[j])[v]
               <=> \E u \in Words : Through(FileRenames(t.files[j]), u) = v /\ c \in Collected(t, t.files[j])[u]
  BY DEF FileNames, FoldedBy
<1>6. ASSUME NEW j \in 1..Len(t.files), NEW u \in Words
      PROVE  Through(FileRenames(t.files[j]), u) \in Words
  BY ThroughIsAWord DEF Simple
<1> QED BY <1>3, <1>4, <1>5, <1>6

(* Once every target is read, the contexts charged to a crate are those of   *)
(* the code that means it.                                                   *)
LEMMA AttributedIsMeant ==
  ASSUME package \in Sources, Plain, NEW w \in Words
  PROVE  Attributed(package.targets, Len(package.targets) + 1)[w] = Meanings(w)
<1> DEFINE ts == package.targets
<1>1. ts \in Seq(Target)
  BY SourcesAreTyped
<1>2. Len(ts) \in Nat
  BY <1>1
<1>3. 1..((Len(ts) + 1) - 1) = 1..Len(ts)
  BY <1>2
<1>4. ASSUME NEW k \in 1..Len(ts)
      PROVE  /\ ts[k] \in Target /\ Simple(Preludes(ts[k]))
             /\ \A j \in 1..Len(ts[k].files) : ts[k].files[j] \in File /\ Simple(FileRenames(ts[k].files[j]))
  <2>1. ts[k] \in Target
    BY TargetsAreTyped
  <2>2. \A j \in 1..Len(ts[k].files) : ts[k].files[j] \in File
    BY <2>1, FilesAreTyped
  <2> QED BY <2>1, <2>2, RenamesAreSimple DEF Plain
<1>5. ASSUME NEW c \in Attributed(ts, Len(ts) + 1)[w] PROVE c \in Meanings(w)
  <2>1. c \in Contexts /\ \E k \in 1..Len(ts) : c \in TargetNames(ts[k])[w]
    BY <1>3, <1>5 DEF Attributed
  <2>2. PICK k \in 1..Len(ts) : c \in TargetNames(ts[k])[w]
    BY <2>1
  <2>3. PICK j \in 1..Len(ts[k].files) :
          \E u \in Words : /\ Through(Preludes(ts[k]), Through(FileRenames(ts[k].files[j]), u)) = w
                           /\ c \in Collected(ts[k], ts[k].files[j])[u]
    BY <1>4, <2>1, <2>2, WhatATargetNames
  <2>4. PICK u \in Words : /\ Through(Preludes(ts[k]), Through(FileRenames(ts[k].files[j]), u)) = w
                           /\ c \in Collected(ts[k], ts[k].files[j])[u]
    BY <2>3
  <2> DEFINE t == ts[k]
             f == t.files[j]
  <2>5. \/ \E m \in f.mentions : m.word = u /\ c = ContextOf(t, f, m.shift)
        \/ \E a \in f.aliases : a.real = u /\ c = ContextOf(t, f, "none")
    BY <1>4, <2>4, WhatAFileNames
  <2>6. /\ \A m \in f.mentions : Meant(t, f, m) = Through(Preludes(t), Through(FileRenames(f), m.word))
        /\ \A a \in f.aliases : MeantByAlias(t, a) = Through(Preludes(t), Through(FileRenames(f), a.real))
    BY FoldingGivesMeanings
  <2>7. c \in {ContextOf(t, f, m.shift) : m \in {n \in f.mentions : Meant(t, f, n) = w}}
                \cup {ContextOf(t, f, "none") : a \in {b \in f.aliases : MeantByAlias(t, b) = w}}
    BY <2>4, <2>5, <2>6
  <2> QED BY <2>7 DEF Meanings
<1>6. ASSUME NEW c \in Meanings(w) PROVE c \in Attributed(ts, Len(ts) + 1)[w]
  <2>1. PICK k \in 1..Len(ts) : \E j \in 1..Len(ts[k].files) :
          c \in {ContextOf(ts[k], ts[k].files[j], m.shift) :
                   m \in {n \in ts[k].files[j].mentions : Meant(ts[k], ts[k].files[j], n) = w}}
                \cup {ContextOf(ts[k], ts[k].files[j], "none") :
                        a \in {b \in ts[k].files[j].aliases : MeantByAlias(ts[k], b) = w}}
    BY <1>6 DEF Meanings
  <2>2. PICK j \in 1..Len(ts[k].files) :
          c \in {ContextOf(ts[k], ts[k].files[j], m.shift) :
                   m \in {n \in ts[k].files[j].mentions : Meant(ts[k], ts[k].files[j], n) = w}}
                \cup {ContextOf(ts[k], ts[k].files[j], "none") :
                        a \in {b \in ts[k].files[j].aliases : MeantByAlias(ts[k], b) = w}}
    BY <2>1
  <2> DEFINE t == ts[k]
             f == t.files[j]
  <2>3. t \in Target /\ f \in File
    BY <1>4
  <2>4. /\ \A m \in f.mentions : Meant(t, f, m) = Through(Preludes(t), Through(FileRenames(f), m.word))
        /\ \A a \in f.aliases : MeantByAlias(t, a) = Through(Preludes(t), Through(FileRenames(f), a.real))
    BY FoldingGivesMeanings
  <2>5. \E u \in Words : /\ Through(Preludes(t), Through(FileRenames(f), u)) = w
                         /\ \/ \E m \in f.mentions : m.word = u /\ c = ContextOf(t, f, m.shift)
                            \/ \E a \in f.aliases : a.real = u /\ c = ContextOf(t, f, "none")
    <3>1. CASE \E m \in f.mentions : Meant(t, f, m) = w /\ c = ContextOf(t, f, m.shift)
      <4>1. PICK m \in f.mentions : Meant(t, f, m) = w /\ c = ContextOf(t, f, m.shift)
        BY <3>1
      <4>2. m.word \in Words
        BY <2>3 DEF File, Mention
      <4> QED BY <2>4, <4>1, <4>2
    <3>2. CASE \E a \in f.aliases : MeantByAlias(t, a) = w /\ c = ContextOf(t, f, "none")
      <4>1. PICK a \in f.aliases : MeantByAlias(t, a) = w /\ c = ContextOf(t, f, "none")
        BY <3>2
      <4>2. a.real \in Words
        BY <2>3 DEF File, Alias
      <4> QED BY <2>4, <4>1, <4>2
    <3> QED BY <2>2, <3>1, <3>2
  <2>6. PICK u \in Words : /\ Through(Preludes(t), Through(FileRenames(f), u)) = w
                           /\ c \in Collected(t, f)[u]
    BY <2>3, <2>5, WhatAFileNames
  <2>7. c \in Contexts
    BY <2>3, <2>6, CollectedIsTyped DEF Charges
  <2>8. c \in TargetNames(t)[w]
    BY <1>4, <2>6, <2>7, WhatATargetNames
  <2> QED BY <1>3, <2>7, <2>8 DEF Attributed
<1> QED BY <1>5, <1>6

-------------------------------------------------------------------------------
(* At every step the names, the renames left to fold and the reports are     *)
(* what the files and targets read so far make of them.                      *)
THEOREM EvidenceIsAccounted == Spec => []EvidenceInv
<1>1. EvidenceInv /\ [Next]_vars => EvidenceInv'
  <2> SUFFICES ASSUME EvidenceInv, [Next]_vars PROVE EvidenceInv'
    OBVIOUS
  <2>1. Places' /\ Typed' /\ Judged'
    BY PlacesHold, TypesHold, VerdictsHold DEF EvidenceInv
  <2>2. package' = package
    BY DEF Next, ReadFile, EndFile, BeginTargetFold, EndTarget, FoldFile, FoldTarget, Judge, vars
  <2>3. Chained' <=> Chained
    BY <2>2 DEF Chained
  <2>4. ~ Chained => Charged'
    BY ChargesHold DEF EvidenceInv
  <2> QED BY <2>1, <2>3, <2>4 DEF EvidenceInv
<1> QED BY ReadingBegins, <1>1, PTL DEF Spec

(* Whatever a package names and renames, a mention is charged to a context   *)
(* and a report is of an entry of the manifest.                              *)
THEOREM TypeCorrect == Spec => []TypeOK
<1>1. EvidenceInv => TypeOK
  BY DEF EvidenceInv, Places, Typed, Judged, TypeOK, Charges
<1> QED BY EvidenceIsAccounted, <1>1, PTL

(* Once everything is read the names are the meanings.                       *)
LEMMA NamesAreMeanings ==
  ASSUME EvidenceInv, Plain, at[1] > Len(package.targets)
  PROVE  \A w \in Words : names[w] = Meanings(w)
<1> DEFINE count == Len(package.targets)
<1>1. package \in Sources /\ count \in Nat /\ at[1] \in 1..(count + 1) /\ at[1] > count
  BY CurrentIsTyped DEF EvidenceInv, Places
<1>2. \A n \in Nat : \A i \in 1..(n + 1) : i > n => i = n + 1
  OBVIOUS
<1> HIDE DEF count
<1>3. at[1] = count + 1
  BY <1>1, <1>2
<1>4. names = Attributed(package.targets, count + 1)
  BY <1>3 DEF EvidenceInv, Plain, Charged
<1> QED BY <1>1, <1>4, AttributedIsMeant DEF count

(* Mentions are charged to the crate they mean and to no other, and what is  *)
(* reported unused is meant by nothing: AttributionIsExact, for every        *)
(* package and every set of words.                                           *)
THEOREM AttributionIsExactAlways == Spec => []AttributionIsExact
<1>1. EvidenceInv => AttributionIsExact
  <2> SUFFICES ASSUME EvidenceInv, Plain
               PROVE  /\ pc = "read" /\ at[1] > Len(package.targets) =>
                           \A w \in Words : names[w] = Meanings(w)
                      /\ \A e \in unused :
                           /\ Meanings(e.word) = {} /\ ~ e.featured
                           /\ \A c \in package.companions :
                                c[1] = e.word /\ (\E d \in package.entries : d.word = c[2]) =>
                                  Meanings(c[2]) = {}
    BY DEF AttributionIsExact
  <2>1. ASSUME NEW e \in unused
        PROVE  /\ Meanings(e.word) = {} /\ ~ e.featured
               /\ \A c \in package.companions :
                    c[1] = e.word /\ (\E d \in package.entries : d.word = c[2]) => Meanings(c[2]) = {}
    <3>1. pc = "done" /\ at[1] > Len(package.targets) /\ package \in Sources
      BY DEF EvidenceInv, Judged, Places
    <3>2. \A w \in Words : names[w] = Meanings(w)
      BY <3>1, NamesAreMeanings
    <3>3. e \in package.entries /\ Unused(e)
      BY DEF EvidenceInv, Judged
    <3>4. /\ package.entries \subseteq Entry
          /\ package.companions \subseteq Words \X Words
      BY <3>1, SourcesAreTyped
    <3>5. e.word \in Words
      BY <3>3, <3>4 DEF Entry
    <3>6. ASSUME NEW c \in package.companions, c[1] = e.word,
                 \E d \in package.entries : d.word = c[2]
          PROVE  Meanings(c[2]) = {}
      <4>1. c[2] \in Words
        BY <3>4
      <4>2. names[c[2]] = {}
        BY <3>3, <3>6 DEF Unused
      <4> QED BY <3>2, <4>1, <4>2
    <3> QED BY <3>2, <3>3, <3>5, <3>6 DEF Unused
  <2> QED BY <2>1, NamesAreMeanings
<1> QED BY EvidenceIsAccounted, <1>1, PTL

-------------------------------------------------------------------------------
(* Where a report sends an entry, and what it knows of the entry's uses      *)
(* (find_misplaced and misplacement, src/deps.rs:845-1053).                  *)
LEMMA WhatAReportKnows ==
  ASSUME NEW e \in package.entries, package.entries \subseteq Entry, Misplaced(e) # Stays
  PROVE  LET found == names[e.word]
         IN  /\ found # {} /\ "opaque" \notin found
             /\ \/ Misplaced(e) = "dev" /\ e.table = "normal" /\ found = {"dev"}
                \/ Misplaced(e) = "normal" /\ e.table = "dev"
                \/ /\ Misplaced(e) = "stale duplicate" /\ e.table = "dev" /\ "dev" \notin found
                   /\ \E n \in package.entries : n.table = "normal" /\ n.word = e.word /\ ~ LoadBearing(e, n)
                \/ Misplaced(e) \in {"normal", "dev"} /\ e.table = "build" /\ "build" \notin found
<1> DEFINE found == names[e.word]
           copies == NormalCopies(e) \ {e}
<1>1. Misplaced(e) = Placement(e, found, copies)
  BY DEF Misplaced
<1>2. e.table \in {"normal", "dev", "build"}
  BY DEF Entry, Tables
<1>3. \A n \in copies : n \in package.entries /\ n.table = "normal" /\ n.word = e.word
  BY DEF NormalCopies
<1> HIDE DEF copies
<1>4. found # {} /\ "opaque" \notin found
  BY <1>1 DEF Placement
<1>5. CASE e.table = "normal"
  BY <1>1, <1>4, <1>5 DEF Placement, Stays
<1>6. CASE e.table = "dev"
  BY <1>1, <1>3, <1>4, <1>6 DEF Placement, Stays
<1>7. CASE e.table = "build"
  BY <1>1, <1>4, <1>7 DEF Placement, Stays
<1> QED BY <1>2, <1>4, <1>5, <1>6, <1>7

(* A report takes an entry from no code it is linked into: what still needs  *)
(* it finds it in the table it is moved to.                                  *)
LEMMA MovesLoseNothing ==
  ASSUME EvidenceInv, pc = "done",
         NEW w \in Words, NEW optionals \in BOOLEAN, NEW c \in names[w], NEW tables \in Linked(c),
         Provides(package.entries, tables, w, optionals)
  PROVE  Provides(Edited, tables, w, optionals)
<1>1. PICK e \in package.entries : e.table \in tables /\ e.word = w /\ (e.optional => optionals)
  BY DEF Provides
<1>2. package.entries \subseteq Entry
  BY SourcesAreTyped DEF EvidenceInv, Places
<1>3. e \in package.entries \ unused
  BY <1>1 DEF EvidenceInv, Judged, Unused
<1>4. CASE \A m \in misplaced : m.entry # e
  <2>1. e \in Edited
    BY <1>3, <1>4 DEF Edited
  <2> QED BY <1>1, <2>1 DEF Provides
<1>5. CASE \E m \in misplaced : m.entry = e
  <2>1. PICK m \in misplaced : m.entry = e
    BY <1>5
  <2>2. m.to = Misplaced(e) /\ Misplaced(e) # Stays
    BY <2>1 DEF EvidenceInv, Judged
  <2>3. /\ c # "opaque"
        /\ \/ m.to = "dev" /\ e.table = "normal" /\ c = "dev"
           \/ m.to = "normal" /\ e.table = "dev"
           \/ m.to = "stale duplicate" /\ e.table = "dev" /\ c # "dev"
           \/ m.to \in {"normal", "dev"} /\ e.table = "build" /\ c # "build"
    BY <1>1, <1>2, <2>2, WhatAReportKnows
  <2>4. c \in {"runtime", "dev", "build"}
    BY <2>3 DEF EvidenceInv, Typed, Charges, Contexts
  <2>5. /\ c = "runtime" => tables = {"normal"}
        /\ c = "dev" => tables = {"normal", "dev"}
        /\ c = "build" => tables = {"build"}
    BY DEF Linked
  <2>6. m.to # "stale duplicate" /\ m.to \in tables
    BY <1>1, <2>3, <2>4, <2>5
  <2>7. Retabled(e, m.to) \in Edited
    BY <1>3, <2>1, <2>6 DEF Edited
  <2> QED BY <1>1, <2>6, <2>7 DEF Provides, Retabled
<1> QED BY <1>4, <1>5

(* Whoever acts on every report takes neither a crate nor a feature from     *)
(* code that has it: EditsLoseNothing, for every package and manifest.       *)
THEOREM EditsLoseNothingAlways == Spec => []EditsLoseNothing
<1>1. EvidenceInv => EditsKeepEveryUse
  <2> SUFFICES ASSUME EvidenceInv, pc = "done", Plain,
                      NEW w \in Words, NEW optionals \in BOOLEAN, NEW c \in Meanings(w),
                      NEW tables \in Linked(c), Provides(package.entries, tables, w, optionals)
               PROVE  Provides(Edited, tables, w, optionals)
    BY DEF EditsKeepEveryUse
  <2>1. names[w] = Meanings(w)
    BY NamesAreMeanings DEF EvidenceInv, Places
  <2> QED BY <2>1, MovesLoseNothing
<1>2. EvidenceInv => DuplicatesEnableNothing
  <2> SUFFICES ASSUME EvidenceInv, NEW m \in misplaced, m.to = "stale duplicate",
                      NEW optionals \in BOOLEAN
               PROVE  Enabled(package.entries, m.entry.word, optionals)
                        = Enabled(package.entries \ {m.entry}, m.entry.word, optionals)
    BY DEF DuplicatesEnableNothing
  <2>1. m.entry \in package.entries /\ m.to = Misplaced(m.entry) /\ Misplaced(m.entry) # Stays
    BY DEF EvidenceInv, Judged
  <2>2. package.entries \subseteq Entry
    BY SourcesAreTyped DEF EvidenceInv, Places
  <2>3. PICK n \in package.entries :
          n.table = "normal" /\ n.word = m.entry.word /\ ~ LoadBearing(m.entry, n) /\ m.entry.table = "dev"
    BY <2>1, <2>2, WhatAReportKnows
  <2>4. n \in package.entries \ {m.entry} /\ ~ n.optional /\ m.entry.features \subseteq n.features
    BY <2>3 DEF LoadBearing
  <2> QED BY <2>3, <2>4 DEF Enabled
<1>3. EvidenceInv => EditsLoseNothing
  BY <1>1, <1>2 DEF EditsLoseNothing
<1> QED BY EvidenceIsAccounted, <1>3, PTL

===============================================================================
