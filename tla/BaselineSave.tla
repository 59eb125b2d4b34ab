------------------------------- MODULE BaselineSave -------------------------------
(*****************************************************************************)
(* Baseline::save and Baseline::load (src/baseline.rs) as system calls: the  *)
(* text goes to `<file>.tmp` a piece at a time and is renamed over the       *)
(* destination, while other runs read, save, fail and are killed.            *)
(*                                                                           *)
(* A directory entry names an inode, and an open file keeps its inode        *)
(* whatever its name is moved to.  An inode is named after the run that      *)
(* created it: a run creates at most one.                                    *)
(*****************************************************************************)
EXTENDS Naturals, Sequences

CONSTANTS Runs,      \* runs of `deadwood check`, each made once
          Original,  \* the baseline on disk before any of them, and its inode
          Nothing,   \* no inode
          Blank,     \* a piece never written: a hole, or past the end
          Pieces,    \* how many writes a baseline takes
          Overlap    \* whether two runs may be saving at the same time

ASSUME RunsAreDistinct ==
  Original \notin Runs /\ Nothing \notin Runs \cup {Original}
    /\ Blank \notin Runs \cup {Original}
ASSUME PiecesArePositive == Pieces \in Nat \ {0}
ASSUME OverlapIsAChoice  == Overlap \in BOOLEAN

Inodes  == Runs \cup {Original}
Text    == [1..Pieces -> Inodes \cup {Blank}]
Modes   == {"apply", "write", "prune"}
Phases  == {"idle", "reading", "saving", "writing", "cleaning", "done", "failed", "killed"}
Ended   == {"done", "failed", "killed"}

VARIABLES file,    \* the inode the baseline's name stands for
          tmp,     \* the one `<file>.tmp` stands for
          data,    \* what each inode holds: whose piece is where
          mode,    \* what each run does with the baseline
          phase,   \* how far each run is
          input,   \* the inode a run has open for reading
          got,     \* the pieces it has read
          output,  \* the inode a run has open for writing
          put      \* how many pieces it has written

vars == <<file, tmp, data, mode, phase, input, got, output, put>>

Emptied == [i \in 1..Pieces |-> Blank]

OneBaseline(text) == \E o \in Inodes : text = [i \in 1..Pieces |-> o]

Saver(r)  == mode[r] # "apply"
Active(r) == phase[r] \notin Ended \cup {"idle"}

(* Without Overlap a run that saves waits for the others that do; readers    *)
(* never wait.                                                               *)
MayStart(r) ==
  /\ phase[r] = "idle"
  /\ Saver(r) /\ ~ Overlap => \A s \in Runs \ {r} : Saver(s) => ~ Active(s)

Init ==
  /\ file \in {Original, Nothing}
  /\ tmp = Nothing
  /\ data = [i \in Inodes |-> IF i = Original THEN [p \in 1..Pieces |-> Original] ELSE Emptied]
  /\ mode \in [Runs -> Modes]
  /\ phase = [r \in Runs |-> "idle"]
  /\ input = [r \in Runs |-> Nothing]
  /\ got = [r \in Runs |-> <<>>]
  /\ output = [r \in Runs |-> Nothing]
  /\ put = [r \in Runs |-> 0]

Enter(r, p) == phase' = [phase EXCEPT ![r] = p]

-------------------------------------------------------------------------------
(* Baseline::load *)

Open(r) ==
  /\ mode[r] \in {"apply", "prune"} /\ MayStart(r)
  /\ IF file = Nothing
     THEN Enter(r, "failed") /\ UNCHANGED input
     ELSE Enter(r, "reading") /\ input' = [input EXCEPT ![r] = file]
  /\ UNCHANGED <<file, tmp, data, mode, got, output, put>>

ReadPiece(r) ==
  /\ phase[r] = "reading" /\ Len(got[r]) < Pieces
  /\ got' = [got EXCEPT ![r] = Append(@, data[input[r]][Len(@) + 1])]
  /\ UNCHANGED <<file, tmp, data, mode, phase, input, output, put>>

(* A malformed baseline is a hard error. *)
Parse(r) ==
  /\ phase[r] = "reading" /\ Len(got[r]) = Pieces
  /\ Enter(r, IF ~ OneBaseline(got[r]) THEN "failed"
              ELSE IF Saver(r) THEN "saving" ELSE "done")
  /\ UNCHANGED <<file, tmp, data, mode, input, got, output, put>>

-------------------------------------------------------------------------------
(* Baseline::save *)

ReadyToSave(r) == phase[r] = "saving" \/ (mode[r] = "write" /\ MayStart(r))

(* A slip: the destination itself opened for writing. *)
CreateInPlace(r) ==
  /\ ReadyToSave(r)
  /\ LET inode == IF file = Nothing THEN r ELSE file
     IN  /\ file' = inode /\ tmp' = inode
         /\ data' = [data EXCEPT ![inode] = Emptied]
         /\ output' = [output EXCEPT ![r] = inode]
  /\ Enter(r, "writing")
  /\ UNCHANGED <<mode, input, got, put>>

(* fs::write opens `<file>.tmp`, emptying the one a killed run left.         *)
Create(r) ==
  /\ ReadyToSave(r)
  /\ LET inode == IF tmp = Nothing THEN r ELSE tmp
     IN  /\ tmp' = inode
         /\ data' = [data EXCEPT ![inode] = Emptied]
         /\ output' = [output EXCEPT ![r] = inode]
  /\ Enter(r, "writing")
  /\ UNCHANGED <<file, mode, input, got, put>>

(* A slip: one write too many. *)
WritePieceBeyond(r) ==
  /\ phase[r] = "writing" /\ put[r] <= Pieces
  /\ data' = [data EXCEPT ![output[r]] = [@ EXCEPT ![1] = r]]
  /\ put' = [put EXCEPT ![r] = @ + 1]
  /\ UNCHANGED <<file, tmp, mode, phase, input, got, output>>

WritePiece(r) ==
  /\ phase[r] = "writing" /\ put[r] < Pieces
  /\ data' = [data EXCEPT ![output[r]][put[r] + 1] = r]
  /\ put' = [put EXCEPT ![r] = @ + 1]
  /\ UNCHANGED <<file, tmp, mode, phase, input, got, output>>

(* A full disk: the error is returned at once and the temporary stays.       *)
WriteFails(r) ==
  /\ phase[r] = "writing" /\ put[r] < Pieces
  /\ Enter(r, "failed")
  /\ UNCHANGED <<file, tmp, data, mode, input, got, output, put>>

(* A slip: the rename made before everything is written. *)
RenameEarly(r) ==
  /\ phase[r] = "writing"
  /\ tmp # Nothing
  /\ file' = tmp /\ tmp' = Nothing
  /\ Enter(r, "done")
  /\ UNCHANGED <<data, mode, input, got, output, put>>

(* The rename moves whatever `<file>.tmp` is by now over the destination.    *)
Rename(r) ==
  /\ phase[r] = "writing" /\ put[r] = Pieces
  /\ tmp # Nothing
  /\ file' = tmp /\ tmp' = Nothing
  /\ Enter(r, "done")
  /\ UNCHANGED <<data, mode, input, got, output, put>>

RenameFails(r) ==
  /\ phase[r] = "writing" /\ put[r] = Pieces
  /\ Enter(r, "cleaning")
  /\ UNCHANGED <<file, tmp, data, mode, input, got, output, put>>

(* The temporary is removed if it can be, and the error of the rename is the *)
(* one returned.                                                             *)
Clean(r) ==
  /\ phase[r] = "cleaning"
  /\ tmp' \in {tmp, Nothing}
  /\ Enter(r, "failed")
  /\ UNCHANGED <<file, data, mode, input, got, output, put>>

Kill(r) ==
  /\ Active(r)
  /\ Enter(r, "killed")
  /\ UNCHANGED <<file, tmp, data, mode, input, got, output, put>>

Step(r) ==
  \/ Open(r) \/ ReadPiece(r) \/ Parse(r)
  \/ Create(r) \/ WritePiece(r) \/ WriteFails(r)
  \/ Rename(r) \/ RenameFails(r) \/ Clean(r)
  \/ Kill(r)

Next == \E r \in Runs : Step(r)

Spec == Init /\ [][Next]_vars

-------------------------------------------------------------------------------
TypeOK ==
  /\ file \in Inodes \cup {Nothing} /\ tmp \in Inodes \cup {Nothing}
  /\ data \in [Inodes -> Text]
  /\ mode \in [Runs -> Modes]
  /\ phase \in [Runs -> Phases]
  /\ input \in [Runs -> Inodes \cup {Nothing}]
  /\ got \in [Runs -> Seq(Inodes \cup {Blank})]
  /\ output \in [Runs -> Inodes \cup {Nothing}]
  /\ put \in [Runs -> 0..Pieces]

(* The file a reader sees is always one whole baseline, whatever run was     *)
(* killed or failed wherever (src/baseline.rs:894-901).                      *)
FileIsWhole == file # Nothing => OneBaseline(data[file])

(* A run that read the file to its end read one whole baseline, however many *)
(* saves happened between its first piece and its last.                      *)
ReadsAreWhole ==
  \A r \in Runs : phase[r] # "idle" /\ Len(got[r]) = Pieces => OneBaseline(got[r])

-------------------------------------------------------------------------------
(* Why it holds when runs do not overlap. *)

OneSaver ==
  \A r, s \in Runs : Saver(r) /\ Active(r) /\ Saver(s) /\ Active(s) => r = s

(* The inode being written has no other name and no reader. *)
WritingApart ==
  /\ tmp # Nothing => tmp # file /\ \A r \in Runs : input[r] # tmp
  /\ \A r \in Runs : phase[r] = "writing" =>
       /\ output[r] # Nothing /\ tmp = output[r]
       /\ \A i \in 1..put[r] : data[output[r]][i] = r

(* An inode is named after a run only once that run has created its own. *)
Uncreated ==
  \A r \in Runs : output[r] = Nothing =>
    /\ file # r /\ tmp # r
    /\ \A s \in Runs : input[s] # r /\ output[s] # r

ReadersHoldWhole ==
  \A r \in Runs :
    /\ input[r] # Nothing => OneBaseline(data[input[r]])
    /\ input[r] = Nothing => got[r] = <<>>
    /\ phase[r] = "reading" => input[r] # Nothing
    /\ Len(got[r]) <= Pieces
    /\ \A i \in 1..Len(got[r]) : got[r][i] = data[input[r]][i]

Begun ==
  \A r \in Runs :
    /\ phase[r] = "idle" => input[r] = Nothing
    /\ phase[r] \in {"idle", "reading", "saving"} => output[r] = Nothing /\ put[r] = 0
    /\ phase[r] \in {"saving", "writing", "cleaning"} => Saver(r)

IInv ==
  /\ TypeOK
  /\ OneSaver
  /\ WritingApart
  /\ Uncreated
  /\ ReadersHoldWhole
  /\ Begun
  /\ FileIsWhole

-------------------------------------------------------------------------------
(* The promise, read off the inodes. *)

OwnerOf(inode) == IF inode = Nothing THEN Nothing ELSE data[inode][1]

Promise == INSTANCE BaselineStore
  WITH stored <- OwnerOf(file),
       answer <- [r \in Runs |-> OwnerOf(input[r])]

(* The runs see a file that is replaced in one step or not at all. *)
ImplementsPromise == Promise!Spec
===============================================================================
