--------------------------- MODULE BaselineSaveProofs ---------------------------
(*****************************************************************************)
(* Saving through a temporary keeps the baseline whole, for any number of    *)
(* runs and of pieces, as long as no two runs are saving at once.            *)
(*****************************************************************************)
EXTENDS BaselineSave, SequenceTheorems, TLAPS

ReadingIsOpen == \A r \in Runs : phase[r] = "reading" => input[r] # Nothing

(* Type correctness, runs overlapping or not: every name and handle is an    *)
(* inode or nothing and a file is a sequence of pieces.                      *)
THEOREM TypeCorrect == Spec => []TypeOK
<1>1. Init => TypeOK /\ ReadingIsOpen
  BY RunsAreDistinct, PiecesArePositive
     DEF Init, TypeOK, ReadingIsOpen, Inodes, Text, Modes, Phases, Emptied
<1>2. TypeOK /\ ReadingIsOpen /\ [Next]_vars => (TypeOK /\ ReadingIsOpen)'
  <2> SUFFICES ASSUME TypeOK, ReadingIsOpen, [Next]_vars
               PROVE  (TypeOK /\ ReadingIsOpen)'
    OBVIOUS
  <2> USE RunsAreDistinct, PiecesArePositive DEF TypeOK, ReadingIsOpen, Inodes, Text, Modes, Phases
  <2>1. CASE UNCHANGED vars
    BY <2>1 DEF vars
  <2>2. ASSUME NEW r \in Runs, Open(r) PROVE (TypeOK /\ ReadingIsOpen)'
    BY <2>2 DEF Open, Enter
  <2>3. ASSUME NEW r \in Runs, ReadPiece(r) PROVE (TypeOK /\ ReadingIsOpen)'
    <3>1. data[input[r]][Len(got[r]) + 1] \in Inodes \cup {Blank}
      BY <2>3 DEF ReadPiece
    <3> QED BY <2>3, <3>1 DEF ReadPiece
  <2>4. ASSUME NEW r \in Runs, Parse(r) PROVE (TypeOK /\ ReadingIsOpen)'
    BY <2>4 DEF Parse, Enter
  <2>5. ASSUME NEW r \in Runs, Create(r) PROVE (TypeOK /\ ReadingIsOpen)'
    BY <2>5 DEF Create, Enter, Emptied
  <2>6. ASSUME NEW r \in Runs, WritePiece(r) PROVE (TypeOK /\ ReadingIsOpen)'
    <3>1. data' \in [Inodes -> Text]
      BY <2>6 DEF WritePiece
    <3> QED BY <2>6, <3>1 DEF WritePiece
  <2>7. ASSUME NEW r \in Runs, WriteFails(r) PROVE (TypeOK /\ ReadingIsOpen)'
    BY <2>7 DEF WriteFails, Enter
  <2>8. ASSUME NEW r \in Runs, Rename(r) PROVE (TypeOK /\ ReadingIsOpen)'
    BY <2>8 DEF Rename, Enter
  <2>9. ASSUME NEW r \in Runs, RenameFails(r) PROVE (TypeOK /\ ReadingIsOpen)'
    BY <2>9 DEF RenameFails, Enter
  <2>10. ASSUME NEW r \in Runs, Clean(r) PROVE (TypeOK /\ ReadingIsOpen)'
    BY <2>10 DEF Clean, Enter
  <2>11. ASSUME NEW r \in Runs, Kill(r) PROVE (TypeOK /\ ReadingIsOpen)'
    BY <2>11 DEF Kill, Enter
  <2> QED
    BY <2>1, <2>2, <2>3, <2>4, <2>5, <2>6, <2>7, <2>8, <2>9, <2>10, <2>11 DEF Next, Step
<1> QED
  BY <1>1, <1>2, PTL DEF Spec

-------------------------------------------------------------------------------
(* Before any save the file is whole and no saver holds anything.            *)
LEMMA InitInv == Init => IInv
<1> SUFFICES ASSUME Init PROVE IInv
  OBVIOUS
<1> USE RunsAreDistinct, PiecesArePositive
    DEF Init, Inodes, Text, Modes, Phases, Emptied, Ended
<1>1. TypeOK
  BY DEF TypeOK
<1>2. OneSaver /\ WritingApart /\ Uncreated /\ Begun
  BY DEF OneSaver, Active, WritingApart, Uncreated, Begun
<1>3. ReadersHoldWhole /\ FileIsWhole
  <2>1. data[Original] = [p \in 1..Pieces |-> Original]
    OBVIOUS
  <2>2. OneBaseline(data[Original])
    BY <2>1 DEF OneBaseline
  <2> QED
    BY <2>2 DEF ReadersHoldWhole, FileIsWhole
<1> QED
  BY <1>1, <1>2, <1>3 DEF IInv

(* Each step of a save, crash or restart keeps the file whole.               *)
LEMMA StepInv ==
  ASSUME ~ Overlap, IInv, [Next]_vars
  PROVE  IInv'
<1> USE RunsAreDistinct, PiecesArePositive DEF IInv, TypeOK, Inodes, Text, Modes, Phases
<1>1. CASE UNCHANGED vars
  BY <1>1 DEF vars, OneSaver, Saver, Active, WritingApart, Uncreated, ReadersHoldWhole, Begun,
              FileIsWhole
<1>2. ASSUME NEW r \in Runs, Open(r) PROVE IInv'
  <2> USE <1>2 DEF Open, Enter, MayStart
  <2>1. TypeOK'
    OBVIOUS
  <2>2. OneSaver'
    BY DEF OneSaver, Saver, Active
  <2>3. WritingApart' /\ Uncreated'
    BY DEF WritingApart, Uncreated, Begun
  <2>4. FileIsWhole'
    BY DEF FileIsWhole
  <2>5. ReadersHoldWhole'
    <3>1. input[r] = Nothing /\ got[r] = <<>> /\ got' = got /\ data' = data
      BY DEF Begun, ReadersHoldWhole
    <3>2. input'[r] = Nothing \/ (input'[r] = file /\ file # Nothing)
      BY <3>1
    <3>3. \A s \in Runs \ {r} : input'[s] = input[s] /\ (phase'[s] = "reading" => phase[s] = "reading")
      OBVIOUS
    <3>4. phase'[r] = "reading" => input'[r] # Nothing
      OBVIOUS
    <3>5. Len(got[r]) = 0 /\ 1..Len(got[r]) = {}
      BY <3>1
    <3>6. file # Nothing => OneBaseline(data[file])
      BY DEF FileIsWhole
    <3> DEFINE Whole(s) ==
          /\ input[s] # Nothing => OneBaseline(data[input[s]])
          /\ input[s] = Nothing => got[s] = <<>>
          /\ phase[s] = "reading" => input[s] # Nothing
          /\ Len(got[s]) <= Pieces
          /\ \A i \in 1..Len(got[s]) : got[s][i] = data[input[s]][i]
    <3>7. Whole(r)'
      BY <3>1, <3>2, <3>4, <3>5, <3>6
    <3>8. ASSUME NEW s \in Runs \ {r} PROVE Whole(s)'
      BY <3>1, <3>3, <3>8 DEF ReadersHoldWhole
    <3> QED BY <3>7, <3>8 DEF ReadersHoldWhole
  <2>6. Begun'
    BY DEF Begun, Saver
  <2> QED BY <2>1, <2>2, <2>3, <2>4, <2>5, <2>6
<1>3. ASSUME NEW r \in Runs, ReadPiece(r) PROVE IInv'
  <2> USE <1>3 DEF ReadPiece
  <2>1. data[input[r]][Len(got[r]) + 1] \in Inodes \cup {Blank}
    BY DEF ReadersHoldWhole
  <2>2. TypeOK'
    BY <2>1
  <2>3. OneSaver' /\ WritingApart' /\ Uncreated' /\ FileIsWhole' /\ Begun'
    BY DEF OneSaver, Saver, Active, WritingApart, Uncreated, FileIsWhole, Begun
  <2>4. ReadersHoldWhole'
    BY <2>1 DEF ReadersHoldWhole
  <2> QED BY <2>2, <2>3, <2>4
<1>4. ASSUME NEW r \in Runs, Parse(r) PROVE IInv'
  <2> USE <1>4 DEF Parse, Enter
  <2>1. TypeOK'
    OBVIOUS
  <2>2. OneSaver' /\ WritingApart' /\ Uncreated' /\ FileIsWhole'
    BY DEF OneSaver, Saver, Active, Ended, WritingApart, Uncreated, FileIsWhole
  <2>3. ReadersHoldWhole' /\ Begun'
    BY DEF ReadersHoldWhole, Begun, Saver
  <2> QED BY <2>1, <2>2, <2>3
<1>5. ASSUME NEW r \in Runs, Create(r) PROVE IInv'
  <2> USE <1>5 DEF Create, Enter, ReadyToSave, MayStart
  <2> DEFINE inode == IF tmp = Nothing THEN r ELSE tmp
  <2>1. TypeOK'
    BY DEF Emptied
  <2>2. Saver(r) /\ output[r] = Nothing /\ put[r] = 0
    BY DEF Begun, Saver
  <2>3. inode # file /\ \A s \in Runs : input[s] # inode
    BY <2>2 DEF WritingApart, Uncreated
  <2>4. \A s \in Runs \ {r} : Saver(s) => ~ Active(s)
    BY DEF OneSaver, Active, Ended, Begun, Saver
  <2>5. OneSaver'
    BY <2>4 DEF OneSaver, Active, Saver, Ended
  <2>6. WritingApart'
    <3>1. tmp' = inode /\ tmp' # Nothing /\ file' = file /\ input' = input
      OBVIOUS
    <3>2. \A s \in Runs : phase'[s] = "writing" => s = r
      BY <2>4 DEF Begun, Active, Ended
    <3>3. output'[r] = inode /\ put'[r] = 0
      BY <2>2
    <3>4. 1..put'[r] = {}
      BY <3>3
    <3> HIDE <1>5 DEF inode
    <3> QED BY <2>3, <3>1, <3>2, <3>3, <3>4 DEF WritingApart
  <2>7. Uncreated'
    BY <2>2 DEF Uncreated
  <2>8. ReadersHoldWhole' /\ FileIsWhole'
    BY <2>3 DEF ReadersHoldWhole, FileIsWhole
  <2>9. Begun'
    BY <2>2 DEF Begun, Saver
  <2> QED BY <2>1, <2>5, <2>6, <2>7, <2>8, <2>9
<1>6. ASSUME NEW r \in Runs, WritePiece(r) PROVE IInv'
  <2> USE <1>6 DEF WritePiece
  <2>1. output[r] \in Inodes /\ tmp = output[r] /\ put[r] + 1 \in 1..Pieces
    BY DEF WritingApart
  <2>2. TypeOK'
    <3>1. data' \in [Inodes -> Text]
      BY <2>1
    <3> QED BY <2>1, <3>1
  <2>3. \A i \in Inodes : i # output[r] => data'[i] = data[i]
    BY <2>1
  <2>4. data'[output[r]] = [data[output[r]] EXCEPT ![put[r] + 1] = r]
    BY <2>1
  <2>5. \A s \in Runs : phase[s] = "writing" => s = r
    BY DEF OneSaver, Active, Ended, Begun
  <2>6. OneSaver' /\ Uncreated' /\ Begun'
    BY DEF OneSaver, Saver, Active, Uncreated, Begun
  <2>7. WritingApart'
    <3>1. \A i \in 1..put'[r] : data'[output[r]][i] = r
      BY <2>1, <2>4 DEF WritingApart
    <3> QED BY <2>5, <3>1 DEF WritingApart
  <2>8. ReadersHoldWhole' /\ FileIsWhole'
    BY <2>1, <2>3 DEF WritingApart, ReadersHoldWhole, FileIsWhole
  <2> QED BY <2>2, <2>6, <2>7, <2>8
<1>7. ASSUME NEW r \in Runs, WriteFails(r) \/ RenameFails(r) \/ Kill(r) PROVE IInv'
  <2> USE <1>7 DEF WriteFails, RenameFails, Kill, Enter
  <2>1. TypeOK'
    OBVIOUS
  <2>2. OneSaver'
    BY DEF OneSaver, Saver, Active, Ended
  <2>3. WritingApart'
    BY DEF WritingApart
  <2>4. Uncreated' /\ FileIsWhole'
    BY DEF Uncreated, FileIsWhole
  <2>5. ReadersHoldWhole'
    BY DEF ReadersHoldWhole
  <2>6. Begun'
    BY DEF Begun, Saver, Active
  <2> QED BY <2>1, <2>2, <2>3, <2>4, <2>5, <2>6
<1>8. ASSUME NEW r \in Runs, Rename(r) PROVE IInv'
  <2> USE <1>8 DEF Rename, Enter
  <2>1. TypeOK'
    OBVIOUS
  <2>2. \A i \in 1..Pieces : data[tmp][i] = r
    BY DEF WritingApart
  <2>3. FileIsWhole'
    <3>1. data[tmp] = [i \in 1..Pieces |-> r]
      BY <2>2
    <3>2. OneBaseline(data[tmp])
      BY <3>1 DEF OneBaseline
    <3> QED BY <3>2 DEF FileIsWhole
  <2>4. \A s \in Runs : phase[s] = "writing" => s = r
    BY DEF OneSaver, Active, Ended, Begun
  <2>5. OneSaver' /\ WritingApart' /\ Uncreated'
    BY <2>4 DEF OneSaver, Saver, Active, Ended, WritingApart, Uncreated
  <2>6. ReadersHoldWhole' /\ Begun'
    BY DEF ReadersHoldWhole, Begun, Saver
  <2> QED BY <2>1, <2>3, <2>5, <2>6
<1>9. ASSUME NEW r \in Runs, Clean(r) PROVE IInv'
  <2> USE <1>9 DEF Clean, Enter
  <2>1. TypeOK'
    OBVIOUS
  <2>2. \A s \in Runs : phase[s] # "writing"
    BY DEF OneSaver, Active, Ended, Begun
  <2>3. OneSaver' /\ WritingApart' /\ Uncreated' /\ FileIsWhole'
    BY <2>2 DEF OneSaver, Saver, Active, Ended, WritingApart, Uncreated, FileIsWhole
  <2>4. ReadersHoldWhole' /\ Begun'
    BY DEF ReadersHoldWhole, Begun, Saver
  <2> QED BY <2>1, <2>3, <2>4
<1> QED
  BY <1>1, <1>2, <1>3, <1>4, <1>5, <1>6, <1>7, <1>8, <1>9 DEF Next, Step

(* One saver at a time writes an inode with no other name and no reader, so  *)
(* whatever is named or being read is one whole baseline.                    *)
THEOREM Invariance ==
  ASSUME ~ Overlap
  PROVE  Spec => []IInv
<1>1. IInv /\ [Next]_vars => IInv'
  BY StepInv
<1> QED
  BY InitInv, <1>1, PTL DEF Spec

(* A reader of the file, whenever it comes, is given one whole baseline.     *)
THEOREM FileIsWholeAlways ==
  ASSUME ~ Overlap
  PROVE  Spec => []FileIsWhole
<1>1. IInv => FileIsWhole
  BY DEF IInv
<1> QED
  BY Invariance, <1>1, PTL

(* A run that read the file while others saved it got one whole baseline.    *)
THEOREM ReadsAreWholeAlways ==
  ASSUME ~ Overlap
  PROVE  Spec => []ReadsAreWhole
<1>1. IInv => ReadsAreWhole
  <2> SUFFICES ASSUME IInv, NEW r \in Runs, phase[r] # "idle", Len(got[r]) = Pieces
               PROVE  OneBaseline(got[r])
    BY DEF ReadsAreWhole
  <2> USE PiecesArePositive DEF IInv, TypeOK
  <2>1. input[r] # Nothing /\ OneBaseline(data[input[r]])
    BY DEF ReadersHoldWhole
  <2>2. PICK o \in Inodes : data[input[r]] = [i \in 1..Pieces |-> o]
    BY <2>1 DEF OneBaseline
  <2>3. got[r] \in [1..Pieces -> Inodes \cup {Blank}]
    BY LenProperties
  <2>4. \A i \in 1..Pieces : got[r][i] = o
    BY <2>2 DEF ReadersHoldWhole
  <2>5. got[r] = [i \in 1..Pieces |-> o]
    BY <2>3, <2>4
  <2> QED
    BY <2>5 DEF OneBaseline
<1> QED
  BY Invariance, <1>1, PTL

-------------------------------------------------------------------------------
(* Runs that do not overlap implement the file that is replaced in one step: *)
(* only a rename changes what is stored, and to the run's own baseline.      *)
THEOREM Refinement ==
  ASSUME ~ Overlap
  PROVE  Spec => ImplementsPromise
<1> USE RunsAreDistinct, PiecesArePositive DEF TypeOK, Inodes, Text
<1>1. Init => Promise!Init
  BY DEF Init, Promise!Init, OwnerOf
<1>2. IInv /\ [Next]_vars => [Promise!Next]_(Promise!vars)
  <2> SUFFICES ASSUME IInv, [Next]_vars
               PROVE  Promise!Next \/ UNCHANGED Promise!vars
    OBVIOUS
  <2> USE DEF IInv
  <2> DEFINE Steady ==
        /\ OwnerOf(file)' = OwnerOf(file)
        /\ [r \in Runs |-> OwnerOf(input[r])]' = [r \in Runs |-> OwnerOf(input[r])]
  <2>1. Steady => UNCHANGED Promise!vars
    BY DEF Promise!vars
  <2>2. CASE UNCHANGED <<file, tmp, data, input>>
    <3>1. Steady
      BY <2>2 DEF OwnerOf
    <3> QED BY <2>1, <3>1
  <2>3. ASSUME NEW r \in Runs, Open(r), input' # input PROVE Promise!Next
    <3> USE <2>3 DEF Open, Enter, MayStart
    <3>1. input[r] = Nothing /\ OwnerOf(input[r]) = Nothing
      BY DEF Begun, OwnerOf
    <3>2. OwnerOf(file)' = OwnerOf(file)
      BY DEF OwnerOf
    <3>3. [s \in Runs |-> OwnerOf(input[s])]'
            = [[s \in Runs |-> OwnerOf(input[s])] EXCEPT ![r] = OwnerOf(file)]
      <4>1. \A s \in Runs : OwnerOf(input[s])' = IF s = r THEN OwnerOf(file) ELSE OwnerOf(input[s])
        BY DEF OwnerOf
      <4> HIDE DEF OwnerOf
      <4> QED BY <4>1
    <3> QED BY <3>1, <3>2, <3>3 DEF Promise!Next, Promise!Read
  <2>4. ASSUME NEW r \in Runs, Create(r) PROVE Steady
    <3> USE <2>4 DEF Create
    <3> DEFINE inode == IF tmp = Nothing THEN r ELSE tmp
    <3>1. inode # file /\ \A s \in Runs : input[s] # inode
      BY DEF WritingApart, Uncreated, ReadyToSave, MayStart, Begun, Saver
    <3>2. \A i \in Inodes : i # inode => data'[i] = data[i]
      OBVIOUS
    <3> QED BY <3>1, <3>2 DEF OwnerOf
  <2>5. ASSUME NEW r \in Runs, WritePiece(r) PROVE Steady
    <3> USE <2>5 DEF WritePiece
    <3>1. output[r] # file /\ \A s \in Runs : input[s] # output[r]
      BY DEF WritingApart
    <3>2. \A i \in Inodes : i # output[r] => data'[i] = data[i]
      OBVIOUS
    <3> QED BY <3>1, <3>2 DEF OwnerOf
  <2>6. ASSUME NEW r \in Runs, Rename(r) PROVE Promise!Next
    <3> USE <2>6 DEF Rename, Enter
    <3>1. data[tmp][1] = r
      BY DEF WritingApart
    <3>2. OwnerOf(file)' = r
      BY <3>1 DEF OwnerOf
    <3>3. [s \in Runs |-> OwnerOf(input[s])]' = [s \in Runs |-> OwnerOf(input[s])]
      BY DEF OwnerOf
    <3> QED BY <3>2, <3>3 DEF Promise!Next, Promise!Save
  <2>7. ASSUME NEW r \in Runs, Clean(r) PROVE Steady
    BY <2>7 DEF Clean, OwnerOf
  <2>8. ASSUME NEW r \in Runs, Step(r) PROVE Promise!Next \/ UNCHANGED Promise!vars
    <3>1. CASE UNCHANGED <<file, tmp, data, input>>
      BY <2>2, <3>1
    <3>2. CASE ~ UNCHANGED <<file, tmp, data, input>>
      BY <2>1, <2>3, <2>4, <2>5, <2>6, <2>7, <2>8, <3>2
         DEF Step, Open, ReadPiece, Parse, WriteFails, RenameFails, Kill
    <3> QED BY <3>1, <3>2
  <2> QED
    BY <2>2, <2>8 DEF Next, vars
<1> QED
  BY <1>1, <1>2, Invariance, PTL DEF Spec, ImplementsPromise, Promise!Spec
===============================================================================
