-------------------------- MODULE ReachabilityProofs --------------------------
(*****************************************************************************)
(* Proofs about Reachability for every workspace: the type invariant, and    *)
(* that each walk computes the least set closed under the recorded edges,    *)
(* from which the properties of the two lists follow.                        *)
(*****************************************************************************)
EXTENDS Reachability, TLAPS

-------------------------------------------------------------------------------
(* Calls are well formed, whatever they are made for. *)

(* Resolving a bare name gives calls.                                        *)
LEMMA NameCallsTyped ==
  ASSUME NEW t \in Table, NEW names
  PROVE  NameCalls(t, names) \subseteq Call
BY DEF NameCalls, Named, Call

(* Resolving a path gives calls.                                             *)
LEMMA PathCallsTyped ==
  ASSUME NEW t \in Table, NEW from \in SUBSET Defs, NEW path \in Path
  PROVE  PathCalls(t, from, path) \subseteq Call
<1>1. [from: {from}, id: path.reached] \subseteq Call
  BY DEF Path, Call
<1> QED BY <1>1, NameCallsTyped DEF PathCalls

(* A mention, of whichever kind, gives calls.                                *)
LEMMA MentionCallsTyped ==
  ASSUME NEW t \in Table, NEW m \in t.mentions
  PROVE  MentionCalls(t, m) \subseteq Call
<1>1. m \in Mention
  BY DEF Table
<1>2. PathCalls(t, m.from, m.path) \subseteq Call
  BY <1>1, PathCallsTyped DEF Mention
<1>3. \A n \in m.strings : t.inside[n] \subseteq Defs
  BY <1>1 DEF Mention, Table
<1>4. [from: {{}}, id: UNION {t.inside[n] : n \in m.strings}] \subseteq Call
  BY <1>3 DEF Call
<1> QED BY <1>2, <1>4, NameCallsTyped DEF MentionCalls, StringCalls

(* Following an alias gives calls.                                           *)
LEMMA AliasCallsTyped ==
  ASSUME NEW t \in Table, NEW d \in Defs
  PROVE  AliasCalls(t, d) \subseteq Call
<1>1. t.target[d] \in Path
  BY DEF Table
<1>2. {d} \in SUBSET Defs
  OBVIOUS
<1> QED BY <1>1, <1>2, PathCallsTyped DEF AliasCalls

-------------------------------------------------------------------------------
(* The variables keep their types: calls name definitions, edges relate      *)
(* definitions, and the lists hold sites (src/resolve.rs:470-506).           *)

(* The pass's state is of its type at every step, whatever the symbol table  *)
(* (src/resolve.rs, usage pass).                                             *)
THEOREM TypeCorrect == Spec => []TypeOK
<1>1. Init => TypeOK
  <2> SUFFICES ASSUME Init PROVE TypeOK
    OBVIOUS
  <2>1. table \in Table
    BY TablesAreTyped DEF Init
  <2>2. table.spliced \subseteq Defs
    BY <2>1 DEF Table
  <2>3. reached \in [Walk -> SUBSET Defs]
    BY DEF Init
  <2> QED BY <2>1, <2>2, <2>3 DEF Init, TypeOK
<1>2. TypeOK /\ [Next]_vars => TypeOK'
  <2> SUFFICES ASSUME TypeOK, [Next]_vars PROVE TypeOK'
    OBVIOUS
  <2> USE DEF TypeOK, tableVars, markVars, walkVars, listVars
  <2>1. ASSUME NEW m \in unread, Visit(m) PROVE TypeOK'
    BY <2>1, MentionCallsTyped DEF Visit
  <2>2. ASSUME NEW c \in calls, MarkDef(c) PROVE TypeOK'
    <3>1. c.id \in Defs /\ c.from \in SUBSET Defs
      BY DEF Call
    <3>2. calls' \subseteq Call
      BY <2>2, <3>1, AliasCallsTyped DEF MarkDef
    <3>3. used' \subseteq Defs
      BY <2>2, <3>1 DEF MarkDef
    <3>4. rooted' \subseteq Defs
      BY <2>2, <3>1 DEF MarkDef
    <3>5. edges' \subseteq Defs \X Defs
      BY <2>2, <3>1 DEF MarkDef
    <3> QED BY <2>2, <3>2, <3>3, <3>4, <3>5 DEF MarkDef
  <2>3. ASSUME NEW w \in Walk PROVE Roots(w) \subseteq Defs
    BY DEF Roots
  <2>4. CASE BeginWalks
    BY <2>3, <2>4 DEF BeginWalks, Start, Walk
  <2>5. ASSUME NEW d \in stack, Expand(d) PROVE TypeOK'
    BY <2>5 DEF Expand, Successors
  <2>6. CASE ListUnused
    <3>1. unused' \subseteq UnusedFinding
      <4>1. Candidates(table.api) \subseteq Sites
        BY DEF Candidates, SitesOf, Table
      <4> QED BY <2>6, <4>1 DEF ListUnused, UnusedList, UnusedFinding
    <3>2. reached' \in [Walk -> SUBSET Defs]
      BY <2>6 DEF ListUnused, Walk
    <3> QED BY <2>3, <2>6, <3>1, <3>2 DEF ListUnused, Start, Walk
  <2>7. CASE EndFullWalk
    <3>1. reached' \in [Walk -> SUBSET Defs]
      BY <2>7 DEF EndFullWalk, Walk
    <3> QED BY <2>3, <2>7, <3>1 DEF EndFullWalk, Start, Walk
  <2>8. CASE ListTestOnly
    <3>1. testOnly' \subseteq Sites
      <4>1. Candidates({}) \subseteq Sites
        BY DEF Candidates, SitesOf, Table
      <4> QED BY <2>8, <4>1 DEF ListTestOnly
    <3>2. reached' \in [Walk -> SUBSET Defs]
      BY <2>8 DEF ListTestOnly, Walk
    <3> QED BY <2>8, <3>1, <3>2 DEF ListTestOnly
  <2>9. CASE UNCHANGED vars
    BY <2>9 DEF vars
  <2> QED BY <2>1, <2>2, <2>4, <2>5, <2>6, <2>7, <2>8, <2>9 DEF Next
<1> QED BY <1>1, <1>2, PTL DEF Spec

-------------------------------------------------------------------------------
(* The promise speaks of the same calls and roots as the pass. *)

(* The promise and the pass read mentions and aliases alike.                 *)
LEMMA SameCalls ==
  ASSUME NEW t
  PROVE  /\ \A m : Promise!MentionCalls(t, m) = MentionCalls(t, m)
         /\ \A d : Promise!AliasCalls(t, d) = AliasCalls(t, d)
BY DEF MentionCalls, AliasCalls, PathCalls, StringCalls, NameCalls, Named,
       Promise!MentionCalls, Promise!AliasCalls, Promise!PathCalls,
       Promise!StringCalls, Promise!NameCalls, Promise!Named

(* The promise and the pass have the same roots and the same items worth     *)
(* reporting.                                                                *)
LEMMA SameRoots ==
  ASSUME NEW t, NEW roots, NEW d
  PROVE  /\ Promise!IsRoot(t, roots, d) <=> IsRoot(t, roots, d)
         /\ Promise!IsWorthReporting(t, d) <=> IsWorthReporting(t, d)
BY DEF IsRoot, IsWorthReporting, Admits,
       Promise!IsRoot, Promise!IsWorthReporting, Promise!Admits

(* A mention names what its calls name, and so does an alias that is named.  *)
LEMMA MentionsName ==
  ASSUME NEW t \in Table, NEW m \in t.mentions, NEW c \in MentionCalls(t, m)
  PROVE  c.id \in Promise!NamedDefs(t)
<1>1. c.id \in Defs
  BY MentionCallsTyped DEF Call
<1>2. ASSUME NEW M \in SUBSET Defs, Promise!NamingClosed(t, M) PROVE c.id \in M
  BY <1>2, SameCalls DEF Promise!NamingClosed
<1> QED BY <1>1, <1>2 DEF Promise!NamedDefs

(* What an alias of a named item leads to is named.                          *)
LEMMA AliasesName ==
  ASSUME NEW t \in Table, NEW d \in Promise!NamedDefs(t), NEW c \in AliasCalls(t, d)
  PROVE  c.id \in Promise!NamedDefs(t)
<1>1. d \in Defs
  BY DEF Promise!NamedDefs
<1>2. c.id \in Defs
  BY <1>1, AliasCallsTyped DEF Call
<1>3. ASSUME NEW M \in SUBSET Defs, Promise!NamingClosed(t, M) PROVE c.id \in M
  BY <1>3, SameCalls DEF Promise!NamingClosed, Promise!NamedDefs
<1> QED BY <1>2, <1>3 DEF Promise!NamedDefs

-------------------------------------------------------------------------------
(* The marking half of the invariant. *)

MarkingInv == TypeOK /\ MarkingComplete /\ MarkingSound

(* Marking begins with nothing marked and every mention unread.              *)
LEMMA MarkingInit == Init => MarkingComplete /\ MarkingSound
BY DEF Init, MarkingComplete, MarkingSound

(* Only Visit and MarkDef touch what marking writes. *)
LEMMA MarkingUntouched ==
  ASSUME MarkingInv, UNCHANGED <<table, used, rooted, edges, unread, calls>>,
         pc' # "mark" => pc # "mark" \/ (unread = {} /\ calls = {})
  PROVE  (MarkingComplete /\ MarkingSound)'
BY DEF MarkingInv, MarkingComplete, MarkingSound, Recorded, Met

(* Reading a mention leaves its calls pending, so marking stays complete and *)
(* sound.                                                                    *)
LEMMA MarkingVisit ==
  ASSUME MarkingInv, NEW m \in unread, Visit(m)
  PROVE  (MarkingComplete /\ MarkingSound)'
<1> USE DEF MarkingInv, tableVars, walkVars, listVars
<1>1. m \in table.mentions
  BY DEF TypeOK
<1>2. MarkingComplete'
  BY <1>1 DEF Visit, MarkingComplete, Recorded
<1>3. MarkingSound'
  BY <1>1 DEF Visit, MarkingSound, Met
<1> QED BY <1>2, <1>3

(* Marking what a call names, and queuing what its alias names, keeps        *)
(* marking complete and sound.                                               *)
LEMMA MarkingMarkDef ==
  ASSUME MarkingInv, NEW c \in calls, MarkDef(c)
  PROVE  (MarkingComplete /\ MarkingSound)'
<1> USE DEF MarkingInv, walkVars, listVars
<1> DEFINE new == IF c.id \in used THEN {} ELSE AliasCalls(table, c.id)
<1>1. /\ used' = used \cup {c.id}
      /\ calls' = (calls \ {c}) \cup new
      /\ table' = table /\ unread' = unread /\ pc' = pc /\ pc = "mark"
      /\ rooted \subseteq rooted' /\ edges \subseteq edges'
  BY DEF MarkDef
<1>2. c \in Call /\ c.id \in Defs /\ c.from \in SUBSET Defs
  BY DEF TypeOK, Call
<1>3. Recorded(c)'
  BY <1>1, <1>2 DEF MarkDef, Recorded
<1>4. ASSUME NEW k, k \in calls \/ Recorded(k) PROVE k \in calls' \/ Recorded(k)'
  BY <1>1, <1>3, <1>4 DEF Recorded
<1>5. ASSUME NEW k \in AliasCalls(table, c.id) PROVE k \in calls' \/ Recorded(k)'
  BY <1>1, <1>4 DEF MarkingComplete
<1>6. MarkingComplete'
  <2>1. table'.spliced \subseteq rooted'
    BY <1>1 DEF MarkingComplete
  <2>2. \A m \in table'.mentions \ unread' : \A k \in MentionCalls(table', m) :
           k \in calls' \/ Recorded(k)'
    BY <1>1, <1>4 DEF MarkingComplete
  <2>3. \A d \in used' : \A k \in AliasCalls(table', d) : k \in calls' \/ Recorded(k)'
    BY <1>1, <1>4, <1>5 DEF MarkingComplete
  <2> QED BY <1>1, <2>1, <2>2, <2>3 DEF MarkingComplete, Recorded
<1>7. ASSUME NEW k, Met(k) PROVE Met(k)'
  BY <1>1, <1>7 DEF Met
<1>8. Met(c)
  BY DEF MarkingSound
<1>9. c.id \in Promise!NamedDefs(table)
  <2>1. CASE \E m \in table.mentions : c \in MentionCalls(table, m)
    BY <2>1, MentionsName DEF TypeOK
  <2>2. CASE \E d \in used : c \in AliasCalls(table, d)
    BY <2>2, AliasesName DEF TypeOK, MarkingSound
  <2> QED BY <1>8, <2>1, <2>2 DEF Met
<1>10. MarkingSound'
  <2>1. \A k \in calls' : Met(k)'
    <3>1. ASSUME NEW k \in AliasCalls(table, c.id) PROVE Met(k)'
      BY <1>1 DEF Met
    <3> QED BY <1>1, <1>7, <3>1 DEF MarkingSound
  <2>2. \A d \in used' : \E k \in Call : Met(k)' /\ k.id = d
    BY <1>1, <1>2, <1>7, <1>8 DEF MarkingSound
  <2>3. \A d \in rooted' : d \in table'.spliced
                           \/ \E k \in Call : Met(k)' /\ k.from = {} /\ k.id = d
    BY <1>1, <1>2, <1>7, <1>8 DEF MarkingSound, MarkDef
  <2>4. \A e \in edges' : \E k \in Call : Met(k)' /\ e[1] \in k.from /\ e[2] = k.id
    BY <1>1, <1>2, <1>7, <1>8 DEF MarkingSound, MarkDef
  <2>5. used' \subseteq Promise!NamedDefs(table')
    BY <1>1, <1>9 DEF MarkingSound
  <2> QED BY <2>1, <2>2, <2>3, <2>4, <2>5 DEF MarkingSound, Met, Call
<1> QED BY <1>6, <1>10

-------------------------------------------------------------------------------
(* The walking half of the invariant. *)

WalkingInv == TypeOK /\ WalkInProgress /\ WalksFinished

(* No walk is begun or finished at first.                                    *)
LEMMA WalkingInit == Init => WalkInProgress /\ WalksFinished
BY DEF Init, WalkInProgress, WalksFinished, Finished, Walk

(* While marking goes on there is nothing to say. *)
LEMMA WalkingIdle ==
  ASSUME WalkingInv, pc = "mark", pc' = "mark", UNCHANGED <<reached, unused, testOnly>>
  PROVE  (WalkInProgress /\ WalksFinished)'
BY DEF WalkingInv, WalkInProgress, WalksFinished, Finished, Walk

(* Roots and closed sets rest on the table, the roots and the edges alone.   *)
LEMMA RootsUntouched ==
  ASSUME UNCHANGED <<table, rooted, edges>>
  PROVE  /\ \A w : Roots(w)' = Roots(w)
         /\ \A w, S : Closed(w, S)' <=> Closed(w, S)
         /\ \A w, S : LeastClosed(w, S)' <=> LeastClosed(w, S)
BY DEF Roots, Closed, LeastClosed

(* Expanding an item off the stack keeps the walk within what is live and    *)
(* its frontier on the stack.                                                *)
LEMMA WalkingExpand ==
  ASSUME WalkingInv, NEW d \in stack, Expand(d)
  PROVE  (WalkInProgress /\ WalksFinished)'
<1> USE DEF WalkingInv, markVars, tableVars, listVars
<1>1. UNCHANGED <<table, rooted, edges, used, pc, reached, unused, testOnly>>
  BY DEF Expand
<1>2. WalksFinished'
  BY <1>1, RootsUntouched DEF WalksFinished, Finished, UnusedList, Candidates
<1>3. ASSUME pc \in Walk PROVE WalkInProgress'
  <2>1. seen' = seen \cup Successors(d) /\ stack' = (stack \ {d}) \cup (Successors(d) \ seen)
    BY DEF Expand
  <2>2. Roots(pc)' \subseteq seen' /\ stack' \subseteq seen'
    BY <1>1, <1>3, <2>1, RootsUntouched DEF WalkInProgress
  <2>3. \A e \in edges' : e[1] \in seen' \ stack' => e[2] \in seen'
    <3> SUFFICES ASSUME NEW e \in edges, e[1] \in seen' \ stack' PROVE e[2] \in seen'
      BY <1>1
    <3>1. e = <<e[1], e[2]>> /\ e[2] \in Defs
      BY DEF TypeOK
    <3>2. CASE e[1] = d
      BY <2>1, <3>1, <3>2 DEF Successors
    <3>3. CASE e[1] # d
      BY <1>3, <2>1, <3>3 DEF WalkInProgress
    <3> QED BY <3>2, <3>3
  <2>4. \A S \in SUBSET Defs : Closed(pc, S)' => seen' \subseteq S
    <3> SUFFICES ASSUME NEW S \in SUBSET Defs, Closed(pc, S) PROVE seen' \subseteq S
      BY <1>1, RootsUntouched
    <3>1. d \in S
      BY <1>3 DEF WalkInProgress
    <3> QED BY <1>3, <2>1, <3>1 DEF WalkInProgress, Closed, Successors
  <2> QED BY <1>1, <2>2, <2>3, <2>4 DEF WalkInProgress
<1> QED BY <1>1, <1>2, <1>3 DEF WalkInProgress

(* A walk starts with everything still to expand. *)
LEMMA WalkStarts ==
  ASSUME TypeOK, UNCHANGED <<table, rooted, edges>>, NEW w \in Walk, pc' = w, Start(w)
  PROVE  WalkInProgress'
<1>1. stack' = Roots(w)' /\ seen' = Roots(w)'
  BY RootsUntouched DEF Start
<1> QED BY <1>1 DEF WalkInProgress, Closed

(* A walk with an empty stack has found the least closed set. *)
LEMMA WalkEnds ==
  ASSUME WalkingInv, pc \in Walk, stack = {}
  PROVE  LeastClosed(pc, seen)
BY DEF WalkingInv, WalkInProgress, LeastClosed, Closed

(* Listing the unused items leaves the finished walks as they are.           *)
LEMMA WalkingListUnused ==
  ASSUME WalkingInv, ListUnused
  PROVE  (WalkInProgress /\ WalksFinished)'
<1> USE DEF WalkingInv, markVars, tableVars
<1>1. /\ UNCHANGED <<table, rooted, edges, used, testOnly>>
      /\ pc = "unused" /\ pc' = "testFull" /\ Start("testFull") /\ stack = {}
      /\ reached' = [reached EXCEPT !["unused"] = seen]
  BY DEF ListUnused
<1>2. WalkInProgress'
  BY <1>1, WalkStarts DEF Walk
<1>3. LeastClosed("unused", reached["unused"])'
  <2>1. LeastClosed("unused", seen) /\ reached'["unused"] = seen
    BY <1>1, WalkEnds DEF Walk, TypeOK
  <2> QED BY <1>1, <2>1 DEF LeastClosed, Closed, Roots
<1>4. unused' = {f \in UnusedList(reached["unused"])' :
                    f.onlyFromUnreached <=> f.site \in SitesOf(table, used)}
  BY <1>1 DEF ListUnused, Walk, TypeOK, UnusedList, Candidates
<1>5. unused' # NotYet
  <2>1. Candidates(table.api) \subseteq Sites
    BY DEF Candidates, SitesOf, TypeOK, Table
  <2>2. UnusedList(seen) \subseteq UnusedFinding
    BY <2>1 DEF UnusedList, UnusedFinding
  <2>3. unused' \subseteq UnusedList(seen)
    BY DEF ListUnused
  <2> QED BY <2>2, <2>3, NotYetIsNoList
<1>6. testOnly' = NotYet
  BY <1>1 DEF WalksFinished
<1>7. Finished' = {"unused"}
  BY <1>1 DEF Finished
<1>8. (UNCHANGED <<table, used>>) /\ pc' # "done"
  BY <1>1
<1> QED BY <1>2, <1>3, <1>4, <1>5, <1>6, <1>7, <1>8
        DEF WalksFinished

(* A walk with an empty stack has reached a closed set: the full walk is     *)
(* finished.                                                                 *)
LEMMA WalkingEndFullWalk ==
  ASSUME WalkingInv, EndFullWalk
  PROVE  (WalkInProgress /\ WalksFinished)'
<1> USE DEF WalkingInv, markVars, tableVars, listVars
<1>1. /\ UNCHANGED <<table, rooted, edges, used, unused, testOnly>>
      /\ pc = "testFull" /\ pc' = "testWithout" /\ Start("testWithout") /\ stack = {}
      /\ reached' = [reached EXCEPT !["testFull"] = seen]
  BY DEF EndFullWalk
<1>2. WalkInProgress'
  BY <1>1, WalkStarts DEF Walk
<1>3. reached'["testFull"] = seen /\ reached'["unused"] = reached["unused"]
  BY <1>1 DEF Walk, TypeOK
<1>4. LeastClosed("testFull", reached["testFull"])'
  <2>1. LeastClosed("testFull", seen)
    BY <1>1, WalkEnds DEF Walk
  <2> QED BY <1>1, <1>3, <2>1 DEF LeastClosed, Closed, Roots
<1>5. LeastClosed("unused", reached["unused"])'
  <2>1. LeastClosed("unused", reached["unused"])
    BY <1>1 DEF WalksFinished, Finished
  <2> QED BY <1>1, <1>3, <2>1 DEF LeastClosed, Closed, Roots
<1>6. Finished' = {"unused", "testFull"} /\ "unused" \in Finished
  BY <1>1 DEF Finished
<1>7. unused' # NotYet => unused' = {f \in UnusedList(reached["unused"])' :
                    f.onlyFromUnreached <=> f.site \in SitesOf(table, used)}
  BY <1>1, <1>3 DEF WalksFinished, UnusedList, Candidates
<1>8. unused' # NotYet /\ testOnly' = NotYet /\ pc' # "done"
  BY <1>1, <1>6 DEF WalksFinished
<1> QED BY <1>1, <1>2, <1>4, <1>5, <1>6, <1>7, <1>8 DEF WalksFinished

(* Listing the test-only items leaves the finished walks as they are.        *)
LEMMA WalkingListTestOnly ==
  ASSUME WalkingInv, ListTestOnly
  PROVE  (WalkInProgress /\ WalksFinished)'
<1> USE DEF WalkingInv, markVars, tableVars
<1>1. /\ UNCHANGED <<table, rooted, edges, used, unused>>
      /\ pc = "testWithout" /\ pc' = "done" /\ stack = {}
      /\ reached' = [reached EXCEPT !["testWithout"] = seen]
  BY DEF ListTestOnly
<1>2. reached'["testWithout"] = seen /\ \A w \in {"unused", "testFull"} : reached'[w] = reached[w]
  BY <1>1 DEF Walk, TypeOK
<1>3. LeastClosed("testWithout", reached["testWithout"])'
  <2>1. LeastClosed("testWithout", seen)
    BY <1>1, WalkEnds DEF Walk
  <2> QED BY <1>1, <1>2, <2>1 DEF LeastClosed, Closed, Roots
<1>4. ASSUME NEW w \in {"unused", "testFull"} PROVE LeastClosed(w, reached[w])'
  <2>1. LeastClosed(w, reached[w])
    BY <1>1 DEF WalksFinished, Finished
  <2> QED BY <1>1, <1>2, <2>1 DEF LeastClosed, Closed, Roots
<1>5. Finished' = Walk /\ "unused" \in Finished
  BY <1>1 DEF Finished
<1>6. unused' # NotYet /\ unused' = {f \in UnusedList(reached["unused"])' :
                    f.onlyFromUnreached <=> f.site \in SitesOf(table, used)}
  BY <1>1, <1>2, <1>5 DEF WalksFinished, UnusedList, Candidates
<1>7. testOnly' = ((Candidates({}) \cap SitesOf(table, used)
                     \cap SitesOf(table, reached["testFull"]))
                  \ SitesOf(table, reached["testWithout"]))'
  BY <1>1, <1>2 DEF ListTestOnly, Candidates
<1>8. testOnly' # NotYet
  <2>1. Candidates({}) \subseteq Sites
    BY DEF Candidates, SitesOf, TypeOK, Table
  <2>2. testOnly' \subseteq Candidates({})
    BY DEF ListTestOnly
  <2> QED BY <2>1, <2>2, NotYetIsNoList
<1>9. WalkInProgress'
  BY <1>1 DEF WalkInProgress, Walk
<1> QED BY <1>1, <1>3, <1>4, <1>5, <1>6, <1>7, <1>8, <1>9 DEF WalksFinished, Walk

(* The walks begin at the roots.                                             *)
LEMMA WalkingBegin ==
  ASSUME WalkingInv, BeginWalks
  PROVE  (WalkInProgress /\ WalksFinished)'
<1> USE DEF WalkingInv, markVars, tableVars, listVars
<1>1. /\ UNCHANGED <<table, rooted, edges, used, reached, unused, testOnly>>
      /\ pc = "mark" /\ pc' = "unused" /\ Start("unused")
  BY DEF BeginWalks
<1>2. WalkInProgress'
  BY <1>1, WalkStarts DEF Walk
<1>3. Finished = {} /\ Finished' = {}
  BY <1>1 DEF Finished
<1> QED BY <1>1, <1>2, <1>3 DEF WalksFinished

-------------------------------------------------------------------------------
(* The invariant, for every workspace and every order of visiting            *)
(* (src/resolve.rs:851-894, 1057-1076).                                      *)

(* Marking and walking are accounted for at every step.                      *)
THEOREM Invariance == Spec => []IInv
<1>1. Init => MarkingComplete /\ MarkingSound /\ WalkInProgress /\ WalksFinished
  BY MarkingInit, WalkingInit
<1>2. TypeOK /\ IInv /\ [Next]_vars
        => (MarkingComplete /\ MarkingSound /\ WalkInProgress /\ WalksFinished)'
  <2> SUFFICES ASSUME IInv, [Next]_vars
               PROVE  (MarkingComplete /\ MarkingSound /\ WalkInProgress /\ WalksFinished)'
    OBVIOUS
  <2>1. MarkingInv /\ WalkingInv
    BY DEF IInv, MarkingInv, WalkingInv
  <2> USE DEF markVars, tableVars, walkVars, listVars
  <2>2. ASSUME NEW m \in unread, Visit(m)
        PROVE  (MarkingComplete /\ MarkingSound /\ WalkInProgress /\ WalksFinished)'
    <3>1. pc = "mark" /\ pc' = "mark" /\ UNCHANGED <<reached, unused, testOnly>>
      BY <2>2 DEF Visit
    <3> QED BY <2>1, <2>2, <3>1, MarkingVisit, WalkingIdle
  <2>3. ASSUME NEW c \in calls, MarkDef(c)
        PROVE  (MarkingComplete /\ MarkingSound /\ WalkInProgress /\ WalksFinished)'
    <3>1. pc = "mark" /\ pc' = "mark" /\ UNCHANGED <<reached, unused, testOnly>>
      BY <2>3 DEF MarkDef
    <3> QED BY <2>1, <2>3, <3>1, MarkingMarkDef, WalkingIdle
  <2>4. CASE BeginWalks
    BY <2>1, <2>4, MarkingUntouched, WalkingBegin DEF BeginWalks
  <2>5. ASSUME NEW d \in stack, Expand(d)
        PROVE  (MarkingComplete /\ MarkingSound /\ WalkInProgress /\ WalksFinished)'
    BY <2>1, <2>5, MarkingUntouched, WalkingExpand DEF Expand
  <2>6. CASE ListUnused
    BY <2>1, <2>6, MarkingUntouched, WalkingListUnused DEF ListUnused
  <2>7. CASE EndFullWalk
    BY <2>1, <2>7, MarkingUntouched, WalkingEndFullWalk DEF EndFullWalk
  <2>8. CASE ListTestOnly
    BY <2>1, <2>8, MarkingUntouched, WalkingListTestOnly DEF ListTestOnly
  <2>9. CASE UNCHANGED vars
    <3>1. UNCHANGED <<table, used, rooted, edges, unread, calls, pc, stack, seen, reached, unused, testOnly>>
      BY <2>9 DEF vars
    <3>2. (MarkingComplete /\ MarkingSound)'
      BY <2>1, <3>1, MarkingUntouched
    <3>3. WalkInProgress'
      BY <2>1, <3>1, RootsUntouched DEF WalkingInv, WalkInProgress
    <3>4. WalksFinished'
      BY <2>1, <3>1, RootsUntouched DEF WalkingInv, WalksFinished, Finished, UnusedList, Candidates
    <3> QED BY <3>2, <3>3, <3>4
  <2> QED BY <2>2, <2>3, <2>4, <2>5, <2>6, <2>7, <2>8, <2>9 DEF Next
<1> QED BY <1>1, <1>2, TypeCorrect, PTL DEF Spec, IInv

-------------------------------------------------------------------------------
(* What follows about the lists. *)

(* A finished walk has reached its roots.                                    *)
LEMMA RootsReached ==
  ASSUME IInv, NEW w \in Walk, w \in Finished
  PROVE  Roots(w) \subseteq reached[w] /\ reached[w] \subseteq Defs
<1>1. LeastClosed(w, reached[w])
  BY DEF IInv, WalksFinished
<1> QED BY <1>1 DEF IInv, TypeOK, LeastClosed, Closed

(* The two Full walks agree, and taking test entry points away only removes  *)
(* from what is reached (src/resolve.rs:1057-1076, 243-249).                 *)
THEOREM WalksAgreeAlways == Spec => []WalksAgree
<1>1. IInv => WalksAgree
  <2> SUFFICES ASSUME IInv, pc = "done"
               PROVE  /\ reached["testFull"] = reached["unused"]
                      /\ reached["testWithout"] \subseteq reached["testFull"]
    BY DEF WalksAgree
  <2>1. \A w \in Walk : LeastClosed(w, reached[w]) /\ reached[w] \in SUBSET Defs
    BY DEF IInv, WalksFinished, Finished, TypeOK
  <2>2. Roots("unused") = Roots("testFull") /\ Roots("testWithout") \subseteq Roots("testFull")
    BY DEF Roots, RootsOf, Walk, IsRoot, Admits
  <2>3. reached["testFull"] = reached["unused"]
    BY <2>1, <2>2 DEF LeastClosed, Closed, Walk
  <2>4. Closed("testWithout", reached["testFull"])
    BY <2>1, <2>2 DEF LeastClosed, Closed, Walk
  <2> QED BY <2>1, <2>3, <2>4 DEF LeastClosed, Walk
<1> QED BY <1>1, Invariance, PTL

(* No definition is both unused and test-only (src/resolve.rs:954-961).      *)
THEOREM ListsDisjointAlways == Spec => []ListsDisjoint
<1>1. IInv /\ WalksAgree => ListsDisjoint
  <2> SUFFICES ASSUME IInv, WalksAgree, unused # NotYet, testOnly # NotYet,
                      NEW f \in unused, f.site \in testOnly
               PROVE  FALSE
    BY DEF ListsDisjoint
  <2>1. f \in UnusedList(reached["unused"])
    BY DEF IInv, WalksFinished
  <2>2. f.site \notin SitesOf(table, used) \cap SitesOf(table, reached["unused"])
    BY <2>1 DEF UnusedList
  <2>3. f.site \in SitesOf(table, used) \cap SitesOf(table, reached["testFull"])
    BY DEF IInv, WalksFinished
  <2>4. reached["testFull"] = reached["unused"]
    BY DEF WalksAgree, IInv, WalksFinished
  <2> QED BY <2>2, <2>3, <2>4
<1> QED BY <1>1, Invariance, WalksAgreeAlways, PTL

(* The public surface and [public-api] are never test-only                   *)
(* (src/resolve.rs:965-974).                                                 *)
THEOREM SurfaceNeverTestOnlyAlways == Spec => []SurfaceNeverTestOnly
<1>1. IInv => SurfaceNeverTestOnly
  <2> SUFFICES ASSUME IInv, testOnly # NotYet,
                      NEW d \in Defs, d \in (table.public \cap table.surface) \cup table.api
               PROVE  table.site[d] \notin testOnly
    BY DEF SurfaceNeverTestOnly
  <2>1. pc = "done"
    BY DEF IInv, WalksFinished
  <2>2. "testWithout" \in Finished
    BY <2>1 DEF Finished, Walk
  <2>3. d \in reached["testWithout"]
    BY <2>2, RootsReached DEF Roots, IsRoot, Walk
  <2>4. testOnly \cap SitesOf(table, reached["testWithout"]) = {}
    BY DEF IInv, WalksFinished
  <2> QED BY <2>3, <2>4 DEF SitesOf
<1> QED BY <1>1, Invariance, PTL

(* A use written in live code keeps its target off the list                  *)
(* (src/resolve.rs:906-912).                                                 *)
THEOREM NoLiveUseReportedAlways == Spec => []NoLiveUseReported
<1>1. IInv => NoLiveUseReported
  <2> SUFFICES ASSUME IInv, unused # NotYet,
                      NEW m \in table.mentions, NEW c \in MentionCalls(table, m),
                      c.from = {} \/ c.from \cap reached["unused"] # {},
                      NEW f \in unused
               PROVE  f.site # table.site[c.id]
    BY DEF NoLiveUseReported
  <2>1. "unused" \in Finished
    BY DEF IInv, WalksFinished
  <2>2. pc # "mark"
    BY <2>1 DEF Finished
  <2>3. Recorded(c)
    BY <2>2 DEF IInv, MarkingComplete
  <2>4. c.id \in reached["unused"]
    <3>1. CASE c.from = {}
      BY <2>1, <2>3, <3>1, RootsReached DEF Recorded, Roots, Walk
    <3>2. CASE c.from \cap reached["unused"] # {}
      <4>1. PICK d \in c.from : d \in reached["unused"]
        BY <3>2
      <4>2. <<d, c.id>> \in edges
        BY <2>3 DEF Recorded
      <4> QED BY <2>1, <4>1, <4>2 DEF IInv, WalksFinished, LeastClosed, Closed
    <3> QED BY <3>1, <3>2
  <2>5. table.site[c.id] \in SitesOf(table, used) \cap SitesOf(table, reached["unused"])
    BY <2>3, <2>4 DEF Recorded, SitesOf
  <2>6. f.site \notin SitesOf(table, used) \cap SitesOf(table, reached["unused"])
    BY DEF IInv, WalksFinished, UnusedList
  <2> QED BY <2>5, <2>6
<1> QED BY <1>1, Invariance, PTL

(* Each finding's evidence says which condition it failed                    *)
(* (src/resolve.rs:519-522).                                                 *)
THEOREM EvidenceHonestAlways == Spec => []EvidenceHonest
<1>1. IInv => EvidenceHonest
  <2> SUFFICES ASSUME IInv, unused # NotYet, NEW f \in unused
               PROVE  f.onlyFromUnreached <=>
                        \/ \E m \in table.mentions : \E c \in MentionCalls(table, m) : table.site[c.id] = f.site
                        \/ \E d \in used : \E c \in AliasCalls(table, d) : table.site[c.id] = f.site
    BY DEF EvidenceHonest
  <2>1. f.onlyFromUnreached <=> f.site \in SitesOf(table, used)
    BY DEF IInv, WalksFinished
  <2>2. pc # "mark"
    BY DEF IInv, WalksFinished, Finished
  <2>3. ASSUME NEW c, Met(c) PROVE c.id \in used
    BY <2>2, <2>3 DEF IInv, MarkingComplete, Met, Recorded
  <2>4. \A d \in used : \E c : Met(c) /\ c.id = d
    BY DEF IInv, MarkingSound
  <2>5. f.site \in SitesOf(table, used) <=> \E c : Met(c) /\ table.site[c.id] = f.site
    BY <2>3, <2>4 DEF SitesOf
  <2> QED BY <2>1, <2>5 DEF Met
<1> QED BY <1>1, Invariance, PTL

(* Whatever is named only from inside a dead subsystem is reported, cycles   *)
(* included (src/resolve.rs:896-913).                                        *)
THEOREM DeadSubsystemsReportedAlways == Spec => []DeadSubsystemsReported
<1>1. IInv => DeadSubsystemsReported
  <2> SUFFICES ASSUME IInv, unused # NotYet,
                      NEW C \in SUBSET Defs, DeadSubsystem(C),
                      NEW d \in C \cap table.reportable, IsWorthReporting(table, d)
               PROVE  \E f \in unused : f.site = table.site[d]
    BY DEF DeadSubsystemsReported
  <2>1. LeastClosed("unused", reached["unused"])
    BY DEF IInv, WalksFinished
  <2>2. ASSUME NEW c, Met(c), c.id \in C PROVE c.from # {} /\ c.from \subseteq C
    <3>1. CASE \E m \in table.mentions : c \in MentionCalls(table, m)
      BY <2>2, <3>1 DEF DeadSubsystem
    <3>2. ASSUME NEW e \in used, c \in AliasCalls(table, e) PROVE c.from # {} /\ c.from \subseteq C
      <4>1. e \in table.aliases
        BY <3>2 DEF AliasCalls
      <4>2. c.from # {} /\ e \in C
        BY <2>2, <3>2, <4>1 DEF DeadSubsystem
      <4>3. c.from = {e}
        BY <3>2, <4>1, <4>2 DEF AliasCalls, PathCalls, NameCalls
      <4> QED BY <4>2, <4>3
    <3> QED BY <2>2, <3>1, <3>2 DEF Met
  <2>3. Closed("unused", Defs \ C)
    <3>1. Roots("unused") \subseteq Defs \ C
      <4>1. rooted \subseteq Defs \ C
        BY <2>2 DEF IInv, TypeOK, MarkingSound, DeadSubsystem
      <4> QED BY <4>1 DEF Roots, RootsOf, Walk, DeadSubsystem
    <3>2. \A e \in edges : e[1] \in Defs \ C => e[2] \in Defs \ C
      <4> SUFFICES ASSUME NEW e \in edges, e[2] \in C PROVE e[1] \in C
        BY DEF IInv, TypeOK
      <4>1. PICK c \in Call : Met(c) /\ e[1] \in c.from /\ e[2] = c.id
        BY DEF IInv, MarkingSound
      <4> QED BY <2>2, <4>1
    <3> QED BY <3>1, <3>2 DEF Closed
  <2>4. reached["unused"] \cap C = {}
    BY <2>1, <2>3 DEF LeastClosed
  <2>5. table.site[d] \notin SitesOf(table, reached["unused"])
    <3> SUFFICES ASSUME NEW e \in reached["unused"], table.site[e] = table.site[d] PROVE FALSE
      BY DEF SitesOf
    <3>1. e \in Defs
      BY DEF IInv, TypeOK, Walk
    <3> QED BY <2>4, <3>1 DEF DeadSubsystem, SitesOf
  <2>6. table.site[d] \in Candidates(table.api)
    BY DEF Candidates, SitesOf, DeadSubsystem, IsRoot
  <2> DEFINE f == [site |-> table.site[d], onlyFromUnreached |-> table.site[d] \in SitesOf(table, used)]
  <2>7. f \in UnusedList(reached["unused"])
    BY <2>5, <2>6 DEF UnusedList
  <2>8. f \in unused
    BY <2>7 DEF IInv, WalksFinished
  <2> QED BY <2>8
<1> QED BY <1>1, Invariance, PTL

-------------------------------------------------------------------------------
(* The refinement: what marking collects is what is named, and what a walk   *)
(* reaches is what is alive.                                                 *)

(* After marking, the marked items are those the promise calls named.        *)
LEMMA UsedIsNamed ==
  ASSUME IInv, pc # "mark"
  PROVE  used = Promise!NamedDefs(table)
<1>1. Promise!NamingClosed(table, used)
  BY SameCalls DEF Promise!NamingClosed, IInv, MarkingComplete, Recorded
<1>2. Promise!NamedDefs(table) \subseteq used
  BY <1>1 DEF Promise!NamedDefs, IInv, TypeOK
<1> QED BY <1>2 DEF IInv, MarkingSound

(* After marking, the promise's uses are the calls met.                      *)
LEMMA UsesAreMet ==
  ASSUME IInv, pc # "mark", NEW c
  PROVE  c \in Promise!Uses(table) <=> Met(c)
<1>1. c \in Promise!Uses(table)
        <=> \/ \E m \in table.mentions : c \in Promise!MentionCalls(table, m)
            \/ \E d \in Promise!NamedDefs(table) : c \in Promise!AliasCalls(table, d)
  BY DEF Promise!Uses
<1> QED BY <1>1, UsedIsNamed, SameCalls DEF Met

(* A set closed under the walk's edges is one the promise calls closed.      *)
LEMMA ClosedIsLiveClosed ==
  ASSUME IInv, pc # "mark", NEW w \in Walk, NEW S \in SUBSET Defs
  PROVE  Closed(w, S) <=> Promise!LiveClosed(table, Promise!Uses(table), RootsOf[w], S)
<1>1. ASSUME Closed(w, S)
      PROVE  Promise!LiveClosed(table, Promise!Uses(table), RootsOf[w], S)
  <2>1. table.spliced \subseteq S
    BY <1>1 DEF Closed, Roots, IInv, MarkingComplete
  <2>2. \A d \in Defs : Promise!IsRoot(table, RootsOf[w], d) => d \in S
    BY <1>1, SameRoots DEF Closed, Roots
  <2>3. ASSUME NEW c, Met(c), Promise!Holds(c, S) PROVE c.id \in S
    <3>1. Recorded(c)
      BY <2>3 DEF IInv, MarkingComplete, Met
    <3>2. CASE c.from = {}
      BY <1>1, <3>1, <3>2 DEF Recorded, Closed, Roots
    <3>3. ASSUME NEW d \in c.from, d \in S PROVE c.id \in S
      BY <1>1, <3>1, <3>3 DEF Recorded, Closed
    <3> QED BY <2>3, <3>2, <3>3 DEF Promise!Holds
  <2> QED BY <2>1, <2>2, <2>3, UsesAreMet DEF Promise!LiveClosed
<1>2. ASSUME Promise!LiveClosed(table, Promise!Uses(table), RootsOf[w], S)
      PROVE  Closed(w, S)
  <2>1. ASSUME NEW c, Met(c), Promise!Holds(c, S) PROVE c.id \in S
    BY <1>2, <2>1, UsesAreMet DEF Promise!LiveClosed
  <2>2. rooted \subseteq S
    <3> SUFFICES ASSUME NEW d \in rooted, d \notin table.spliced PROVE d \in S
      BY <1>2 DEF Promise!LiveClosed
    <3>1. PICK c \in Call : Met(c) /\ c.from = {} /\ c.id = d
      BY DEF IInv, MarkingSound
    <3> QED BY <2>1, <3>1 DEF Promise!Holds
  <2>3. \A d \in Defs : IsRoot(table, RootsOf[w], d) => d \in S
    BY <1>2, SameRoots DEF Promise!LiveClosed
  <2>4. ASSUME NEW e \in edges, e[1] \in S PROVE e[2] \in S
    <3>1. PICK c \in Call : Met(c) /\ e[1] \in c.from /\ e[2] = c.id
      BY DEF IInv, MarkingSound
    <3> QED BY <2>1, <2>4, <3>1 DEF Promise!Holds
  <2> QED BY <2>2, <2>3, <2>4 DEF Closed, Roots
<1> QED BY <1>1, <1>2

(* The least closed set is what the promise calls live.                      *)
LEMMA LeastIsLive ==
  ASSUME IInv, pc # "mark", NEW w \in Walk, NEW L \in SUBSET Defs, LeastClosed(w, L)
  PROVE  L = Promise!LiveDefs(table, RootsOf[w])
<1>1. \A d \in Defs : d \in Promise!LiveDefs(table, RootsOf[w])
        <=> \A S \in SUBSET Defs : Closed(w, S) => d \in S
  BY ClosedIsLiveClosed DEF Promise!LiveDefs
<1>2. Promise!LiveDefs(table, RootsOf[w]) \subseteq Defs
  BY DEF Promise!LiveDefs
<1> QED BY <1>1, <1>2 DEF LeastClosed

(* A definition site is marked, reached and reportable as the promise says   *)
(* of it.                                                                    *)
LEMMA SitesNamedAndLive ==
  ASSUME IInv, pc # "mark", NEW s \in Sites
  PROVE  /\ s \in SitesOf(table, used) <=> Promise!SiteNamed(table, s)
         /\ \A w \in Walk, L \in SUBSET Defs :
              LeastClosed(w, L) =>
                (s \in SitesOf(table, L) <=> Promise!SiteLive(table, RootsOf[w], s))
         /\ \A exempt : s \in Candidates(exempt) <=> Promise!Reportable(table, s, exempt)
<1>1. s \in SitesOf(table, used) <=> Promise!SiteNamed(table, s)
  BY UsedIsNamed DEF SitesOf, Promise!SiteNamed
<1>2. ASSUME NEW w \in Walk, NEW L \in SUBSET Defs, LeastClosed(w, L)
      PROVE  s \in SitesOf(table, L) <=> Promise!SiteLive(table, RootsOf[w], s)
  BY <1>2, LeastIsLive DEF SitesOf, Promise!SiteLive
<1>3. ASSUME NEW exempt
      PROVE  s \in Candidates(exempt) <=> Promise!Reportable(table, s, exempt)
  BY SameRoots DEF Candidates, SitesOf, Promise!Reportable
<1> QED BY <1>1, <1>2, <1>3

(* Listing the unused items is the promise's own step.                       *)
LEMMA ListUnusedRefines ==
  ASSUME IInv, ListUnused
  PROVE  Promise!ListUnused
<1>1. pc = "unused" /\ stack = {} /\ unused = NotYet /\ UNCHANGED <<table, testOnly>>
  BY DEF ListUnused, IInv, WalksFinished, Finished
<1>2. LeastClosed("unused", seen) /\ seen \in SUBSET Defs
  BY <1>1, WalkEnds DEF WalkingInv, IInv, Walk, TypeOK
<1>3. Candidates(table.api) \subseteq Sites
  BY DEF Candidates, SitesOf, IInv, TypeOK, Table
<1>4. \A s \in Sites :
        /\ s \in SitesOf(table, used) <=> Promise!SiteNamed(table, s)
        /\ s \in SitesOf(table, seen) <=> Promise!SiteLive(table, "Full", s)
        /\ s \in Candidates(table.api) <=> Promise!Reportable(table, s, table.api)
  <2>1. RootsOf["unused"] = "Full" /\ "unused" \in Walk /\ pc # "mark"
    BY <1>1 DEF RootsOf, Walk
  <2> QED BY <1>2, <2>1, SitesNamedAndLive
<1> DEFINE dead == {s \in Sites : /\ Promise!Reportable(table, s, table.api)
                                 /\ ~ (Promise!SiteNamed(table, s) /\ Promise!SiteLive(table, "Full", s))}
<1>5. dead = Candidates(table.api) \ (SitesOf(table, used) \cap SitesOf(table, seen))
  BY <1>3, <1>4
<1>6. unused' = {f \in [site: dead, onlyFromUnreached: BOOLEAN] :
                   f.onlyFromUnreached <=> f.site \in SitesOf(table, used)}
  BY <1>5 DEF ListUnused, UnusedList
<1>7. \A s \in dead : s \in SitesOf(table, used) <=> Promise!SiteNamed(table, s)
  BY <1>4
<1>8. \A s : Promise!SiteNamed(table, s) \in BOOLEAN
  BY DEF Promise!SiteNamed
<1> HIDE DEF dead
<1>9. unused' = {[site |-> s, onlyFromUnreached |-> Promise!SiteNamed(table, s)] : s \in dead}
  BY <1>6, <1>7, <1>8
<1> QED BY <1>1, <1>9 DEF Promise!ListUnused, dead

(* Listing the test-only items is the promise's own step.                    *)
LEMMA ListTestOnlyRefines ==
  ASSUME IInv, ListTestOnly
  PROVE  Promise!ListTestOnly
<1>1. /\ pc = "testWithout" /\ stack = {} /\ unused # NotYet /\ testOnly = NotYet
      /\ UNCHANGED <<table, unused>>
  BY DEF ListTestOnly, IInv, WalksFinished, Finished
<1>2. LeastClosed("testWithout", seen) /\ seen \in SUBSET Defs
  BY <1>1, WalkEnds DEF WalkingInv, IInv, Walk, TypeOK
<1>3. LeastClosed("testFull", reached["testFull"]) /\ reached["testFull"] \in SUBSET Defs
  BY <1>1 DEF IInv, WalksFinished, Finished, TypeOK, Walk
<1>4. Candidates({}) \subseteq Sites
  BY DEF Candidates, SitesOf, IInv, TypeOK, Table
<1>5. \A s \in Sites :
        /\ s \in SitesOf(table, used) <=> Promise!SiteNamed(table, s)
        /\ s \in SitesOf(table, reached["testFull"]) <=> Promise!SiteLive(table, "Full", s)
        /\ s \in SitesOf(table, seen) <=> Promise!SiteLive(table, "WithoutTests", s)
        /\ s \in Candidates({}) <=> Promise!Reportable(table, s, {})
  <2>1. /\ RootsOf["testFull"] = "Full" /\ RootsOf["testWithout"] = "WithoutTests"
        /\ "testFull" \in Walk /\ "testWithout" \in Walk /\ pc # "mark"
    BY <1>1 DEF RootsOf, Walk
  <2> QED BY <1>2, <1>3, <2>1, SitesNamedAndLive
<1>6. testOnly' = {s \in Sites : /\ Promise!Reportable(table, s, {})
                                /\ Promise!SiteNamed(table, s)
                                /\ Promise!SiteLive(table, "Full", s)
                                /\ ~ Promise!SiteLive(table, "WithoutTests", s)}
  BY <1>4, <1>5 DEF ListTestOnly
<1> QED BY <1>1, <1>6 DEF Promise!ListTestOnly

(* The pass keeps the promise of LiveCode, for every workspace and whatever  *)
(* the order it visits things in (src/resolve.rs:896-1076).                  *)
THEOREM Refinement == Spec => ImplementsPromise
<1>1. Init => Promise!Init
  BY TablesAreTyped DEF Init, Promise!Init, Table, Mention, Path, EntryPoint,
     Promise!Table, Promise!Mention, Promise!Path, Promise!EntryPoint
<1>2. IInv /\ [Next]_vars => [Promise!Next]_Promise!vars
  <2> SUFFICES ASSUME IInv, [Next]_vars PROVE [Promise!Next]_Promise!vars
    OBVIOUS
  <2>1. ASSUME UNCHANGED <<table, unused, testOnly>> PROVE [Promise!Next]_Promise!vars
    BY <2>1 DEF Promise!vars
  <2> USE DEF markVars, tableVars, walkVars, listVars
  <2>2. ASSUME NEW m \in unread, Visit(m) PROVE [Promise!Next]_Promise!vars
    BY <2>1, <2>2 DEF Visit
  <2>3. ASSUME NEW c \in calls, MarkDef(c) PROVE [Promise!Next]_Promise!vars
    BY <2>1, <2>3 DEF MarkDef
  <2>4. CASE BeginWalks
    BY <2>1, <2>4 DEF BeginWalks
  <2>5. ASSUME NEW d \in stack, Expand(d) PROVE [Promise!Next]_Promise!vars
    BY <2>1, <2>5 DEF Expand
  <2>6. CASE ListUnused
    BY <2>6, ListUnusedRefines DEF Promise!Next
  <2>7. CASE EndFullWalk
    BY <2>1, <2>7 DEF EndFullWalk
  <2>8. CASE ListTestOnly
    BY <2>8, ListTestOnlyRefines DEF Promise!Next
  <2>9. CASE UNCHANGED vars
    BY <2>1, <2>9 DEF vars
  <2> QED BY <2>2, <2>3, <2>4, <2>5, <2>6, <2>7, <2>8, <2>9 DEF Next
<1> QED BY <1>1, <1>2, Invariance, PTL DEF Spec, ImplementsPromise, Promise!Spec

===============================================================================
