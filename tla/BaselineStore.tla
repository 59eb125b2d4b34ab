------------------------------ MODULE BaselineStore ------------------------------
(*****************************************************************************)
(* What a baseline file promises the runs that share it: it holds one whole  *)
(* baseline or none, a save replaces that in one step, and a run that reads  *)
(* it gets the one it held at some moment.                                   *)
(*****************************************************************************)

CONSTANTS Runs,      \* runs of `deadwood check`; a run's baseline bears its name
          Original,  \* the baseline on disk before any of them
          Nothing    \* no baseline; not read

VARIABLES stored, answer

vars == <<stored, answer>>

Init ==
  /\ stored \in {Original, Nothing}
  /\ answer = [r \in Runs |-> Nothing]

Save(r) ==
  /\ stored' = r
  /\ UNCHANGED answer

Read(r) ==
  /\ answer[r] = Nothing
  /\ answer' = [answer EXCEPT ![r] = stored]
  /\ UNCHANGED stored

Next == \E r \in Runs : Save(r) \/ Read(r)

Spec == Init /\ [][Next]_vars
===============================================================================
