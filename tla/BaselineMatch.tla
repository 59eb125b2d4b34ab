----------------------------- MODULE BaselineMatch -----------------------------
(*****************************************************************************)
(* How src/baseline.rs decides which findings a baseline covers: the exact   *)
(* key first, with its two forgiving qualifiers, then - over what that left  *)
(* unmatched on both sides - the identity a moved file preserves.            *)
(*                                                                           *)
(* An entry and a finding are the same record here: the fields the key is    *)
(* built from and a line, which nothing compares.  The order of the entries  *)
(* is left out; pruning keeps it and nothing else reads it.                  *)
(*****************************************************************************)
EXTENDS Integers, Sequences

CONSTANTS Kinds, Paths, ItemNames, Modules, Lines,
          None,           \* a field that is not recorded
          PackageDirs     \* the workspace's packages: [dir, name] records

(* A path is the sequence of its components. *)
ASSUME PathsAreSequences == Paths \subseteq Seq(STRING)
ASSUME PackagesAreDirs ==
  \A p \in PackageDirs : p.dir \in Seq(STRING) /\ p.name # None
ASSUME NoneIsNoValue ==
  None \notin ItemNames /\ None \notin Modules /\ None \notin {"type", "value", "both"}

Namespaces == {"type", "value", "both"}

Key == [ kind: Kinds, file: Paths, name: ItemNames \cup {None},
         module: Modules \cup {None}, namespace: Namespaces \cup {None} ]

Finding == [key: Key, line: Lines]

KeysOf(findings) == {f.key : f \in findings}

-------------------------------------------------------------------------------
(* Nothing said on either side is not a disagreement. *)
CoversModule(one, other) == one = None \/ other = None \/ one = other

Overlaps(one, other) == one = other \/ one = "both" \/ other = "both"

CoversNamespace(one, other) == one = None \/ other = None \/ Overlaps(one, other)

SharesKey(k, j) == k.kind = j.kind /\ k.file = j.file /\ k.name = j.name

(* One entry must agree in both qualifiers at once: they are a pair. *)
Covered(side, key) ==
  \E k \in side : /\ SharesKey(k, key)
                  /\ CoversModule(k.module, key.module)
                  /\ CoversNamespace(k.namespace, key.namespace)

-------------------------------------------------------------------------------
StartsWith(path, dir) == Len(dir) <= Len(path) /\ SubSeq(path, 1, Len(dir)) = dir

Containing(file) == {p \in PackageDirs : StartsWith(file, p.dir)}

(* Packages::holding: the deepest manifest directory above the file. *)
Holding(file) ==
  IF Containing(file) = {} THEN None
  ELSE (CHOOSE p \in Containing(file) :
          \A q \in Containing(file) : Len(q.dir) <= Len(p.dir)).name

(* A slip: the package left out of the identity. *)
RelocationAnywhere(key) ==
  [kind |-> key.kind, package |-> None, module |-> key.module, name |-> key.name]

(* What a move leaves alone. *)
Relocation(key) ==
  [kind |-> key.kind, package |-> Holding(key.file), module |-> key.module, name |-> key.name]

Relocatable(key) == Holding(key.file) # None /\ key.module # None /\ key.name # None

Carrying(keys, relocation) == {k \in keys : Relocatable(k) /\ Relocation(k) = relocation}

(* A slip: a move taken as soon as it has a candidate on either side. *)
MovedToAny(entries, findings) ==
  {Relocation(k) : k \in {e \in entries : Relocatable(e) /\ Carrying(findings, Relocation(e)) # {}}}

(* relocations: identities that exactly one leftover entry and exactly one   *)
(* leftover finding carry, whose namespaces do not disagree.                 *)
Moved(entries, findings) ==
  {Relocation(e) : e \in {e \in entries :
     /\ Relocatable(e)
     /\ Carrying(entries, Relocation(e)) = {e}
     /\ \E f \in findings : /\ Carrying(findings, Relocation(e)) = {f}
                            /\ CoversNamespace(e.namespace, f.namespace)}}

-------------------------------------------------------------------------------
(* Baseline::apply, first pass. *)
Unmatched(entries, findings) == {f \in findings : ~ Covered(KeysOf(entries), f.key)}
Orphaned(entries, findings)  == {k \in KeysOf(entries) : ~ Covered(KeysOf(findings), k)}

MovedIn(entries, findings) ==
  Moved(Orphaned(entries, findings), KeysOf(Unmatched(entries, findings)))

IsMoved(key, moved) == Relocatable(key) /\ Relocation(key) \in moved

(* What is reported, and what is called stale, after the second. *)
Kept(entries, findings) ==
  {f \in Unmatched(entries, findings) : ~ IsMoved(f.key, MovedIn(entries, findings))}

(* A slip: staleness decided by the exact key alone. *)
StaleByKey(entries, findings) == Orphaned(entries, findings)

Stale(entries, findings) ==
  {k \in Orphaned(entries, findings) : ~ IsMoved(k, MovedIn(entries, findings))}

Suppressed(entries, findings) == findings \ Kept(entries, findings)

(* A slip: the survivors rebuilt from their keys, their other fields lost. *)
WithoutFields(entries, stale) == KeysOf(entries) \ stale

(* Baseline::without: drops entries, edits none. *)
Without(entries, stale) == {e \in entries : e.key \notin stale}

-------------------------------------------------------------------------------
(* How an entry may account for a finding: by the key, or as the same item   *)
(* in another file.                                                          *)
AnswersFor(entry, key) ==
  \/ Covered({entry}, key)
  \/ /\ Relocatable(entry) /\ Relocatable(key) /\ Relocation(entry) = Relocation(key)
     /\ CoversNamespace(entry.namespace, key.namespace)

(* A finding is suppressed because of an entry that is not stale, and an     *)
(* entry that is not stale has a finding it answers for                      *)
(* (src/baseline.rs:588-594, 694-698).                                       *)
Balanced(entries, findings) ==
  LET fresh == KeysOf(entries) \ Stale(entries, findings)
  IN  /\ \A f \in Suppressed(entries, findings) : \E k \in fresh : AnswersFor(k, f.key)
      /\ \A k \in fresh : \E f \in Suppressed(entries, findings) : AnswersFor(k, f.key)
===============================================================================
