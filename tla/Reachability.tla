------------------------------ MODULE Reachability ------------------------------
(*****************************************************************************)
(* The usage pass as src/resolve.rs runs it.  record_references visits the   *)
(* mentions one at a time and marks what each names, expanding an alias the  *)
(* first time it is named; then three walks over the recorded edges - one    *)
(* for unused_definitions and two for test_only_definitions - each with its  *)
(* own stack, and the two lists.                                             *)
(*                                                                           *)
(* The recursion of mark_def_used is a set of pending calls and the walk's   *)
(* stack is a set: the code visits both depth first, starting from hash sets *)
(* whose order is unspecified, and nothing here may depend on the order.     *)
(*****************************************************************************)
EXTENDS SymbolTables

VARIABLES table,     \* the symbol table, fixed once built
          pc,        \* which part of the pass is running
          unread,    \* mentions the walker has not visited
          calls,     \* mark_def_used calls not yet made
          used,      \* SymbolTable::used
          rooted,    \* SymbolTable::rooted
          edges,     \* SymbolTable::edges, as <<referrer, target>> pairs
          stack,     \* reachable(): definitions to expand
          seen,      \* reachable(): definitions met
          reached,   \* what each finished walk returned
          unused,    \* the list of unused_definitions
          testOnly   \* the list of test_only_definitions

tableVars == <<used, rooted, edges>>
markVars  == <<unread, calls, tableVars>>
walkVars  == <<stack, seen, reached>>
listVars  == <<unused, testOnly>>
vars      == <<table, pc, markVars, walkVars, listVars>>

(* The three walks, and the root set each starts from. *)
Walk == {"unused", "testFull", "testWithout"}
RootsOf == [w \in Walk |-> IF w = "testWithout" THEN "WithoutTests" ELSE "Full"]

Init ==
  /\ table \in Tables
  /\ pc = "mark"
  /\ unread = table.mentions
  /\ calls = {}
  /\ used = {}
  /\ rooted = table.spliced     \* imports of spliced files are rooted by build
  /\ edges = {}
  /\ stack = {} /\ seen = {} /\ reached = [w \in Walk |-> {}]
  /\ unused = NotYet /\ testOnly = NotYet

-------------------------------------------------------------------------------
(* The walker meets its next mention once the last one is fully marked. *)
Visit(m) ==
  /\ pc = "mark" /\ calls = {} /\ m \in unread
  /\ unread' = unread \ {m}
  /\ calls' = MentionCalls(table, m)
  /\ UNCHANGED <<table, pc, tableVars, walkVars, listVars>>

(* A slip: the edge recorded after the visited check. *)
MarkDefOnce(c) ==
  /\ pc = "mark" /\ c \in calls
  /\ LET fresh == IF c.id \in used THEN {} ELSE {c.id}
     IN  IF c.from = {}
           THEN rooted' = rooted \cup fresh /\ UNCHANGED edges
           ELSE edges' = edges \cup (c.from \X fresh) /\ UNCHANGED rooted
  /\ used' = used \cup {c.id}
  /\ calls' = (calls \ {c}) \cup (IF c.id \in used THEN {} ELSE AliasCalls(table, c.id))
  /\ UNCHANGED <<table, pc, unread, walkVars, listVars>>

(* mark_def_used: the edge is recorded whether or not the definition has     *)
(* been named before; only the alias expansion happens once.                 *)
MarkDef(c) ==
  /\ pc = "mark" /\ c \in calls
  /\ IF c.from = {}
       THEN rooted' = rooted \cup {c.id} /\ UNCHANGED edges
       ELSE edges' = edges \cup (c.from \X {c.id}) /\ UNCHANGED rooted
  /\ used' = used \cup {c.id}
  /\ calls' = (calls \ {c}) \cup (IF c.id \in used THEN {} ELSE AliasCalls(table, c.id))
  /\ UNCHANGED <<table, pc, unread, walkVars, listVars>>

(* A slip: sites where ids belong. *)
RootsBySite(w) ==
  SitesOf(table, rooted \cup {d \in Defs : IsRoot(table, RootsOf[w], d)})

(* reachable(): the stack starts as everything rooted and every root. *)
Roots(w) == rooted \cup {d \in Defs : IsRoot(table, RootsOf[w], d)}
Start(w) == stack' = Roots(w) /\ seen' = Roots(w)

BeginWalks ==
  /\ pc = "mark" /\ unread = {} /\ calls = {}
  /\ pc' = "unused"
  /\ Start("unused")
  /\ UNCHANGED <<table, markVars, reached, listVars>>

Successors(d) == {e \in Defs : <<d, e>> \in edges}

(* A slip: successors expanded each time they are met. *)
ExpandAgain(d) ==
  /\ d \in stack
  /\ stack' = (stack \ {d}) \cup Successors(d)
  /\ seen' = seen \cup Successors(d)
  /\ UNCHANGED <<table, pc, markVars, reached, listVars>>

Expand(d) ==
  /\ d \in stack
  /\ stack' = (stack \ {d}) \cup (Successors(d) \ seen)
  /\ seen' = seen \cup Successors(d)
  /\ UNCHANGED <<table, pc, markVars, reached, listVars>>

-------------------------------------------------------------------------------
(* A slip: a `pub use` on the surface judged like any other item. *)
CandidatesOfAll(exempt) == SitesOf(table, table.reportable \ exempt)

(* The sites with a reportable definition that `exempt` does not excuse. *)
Candidates(exempt) ==
  SitesOf(table, {d \in table.reportable \ exempt : IsWorthReporting(table, d)})

(* A slip: the pass as it was before reachability, one layer per run. *)
UnusedListNamed(walked) ==
  [site: Candidates(table.api) \ SitesOf(table, used), onlyFromUnreached: BOOLEAN]

UnusedList(walked) ==
  [site: Candidates(table.api) \ (SitesOf(table, used) \cap SitesOf(table, walked)),
   onlyFromUnreached: BOOLEAN]

ListUnused ==
  /\ pc = "unused" /\ stack = {}
  /\ reached' = [reached EXCEPT !["unused"] = seen]
  /\ unused' = {f \in UnusedList(seen) : f.onlyFromUnreached <=> f.site \in SitesOf(table, used)}
  /\ pc' = "testFull"
  /\ Start("testFull")
  /\ UNCHANGED <<table, markVars, testOnly>>

EndFullWalk ==
  /\ pc = "testFull" /\ stack = {}
  /\ reached' = [reached EXCEPT !["testFull"] = seen]
  /\ pc' = "testWithout"
  /\ Start("testWithout")
  /\ UNCHANGED <<table, markVars, listVars>>

ListTestOnly ==
  /\ pc = "testWithout" /\ stack = {}
  /\ reached' = [reached EXCEPT !["testWithout"] = seen]
  /\ testOnly' = (Candidates({}) \cap SitesOf(table, used)
                    \cap SitesOf(table, reached["testFull"])) \ SitesOf(table, seen)
  /\ pc' = "done"
  /\ UNCHANGED <<table, markVars, stack, seen, unused>>

Next ==
  \/ \E m \in unread : Visit(m)
  \/ \E c \in calls : MarkDef(c)
  \/ BeginWalks
  \/ \E d \in stack : Expand(d)
  \/ ListUnused
  \/ EndFullWalk
  \/ ListTestOnly

(* One function call, run to its end on one thread. *)
Spec == Init /\ [][Next]_vars /\ WF_vars(Next)

-------------------------------------------------------------------------------
TypeOK ==
  /\ table \in Table
  /\ pc \in {"mark", "done"} \cup Walk
  /\ unread \subseteq table.mentions
  /\ calls \subseteq Call
  /\ used \subseteq Defs /\ rooted \subseteq Defs
  /\ edges \subseteq Defs \X Defs
  /\ stack \subseteq Defs /\ seen \subseteq Defs
  /\ reached \in [Walk -> SUBSET Defs]
  /\ unused = NotYet \/ unused \subseteq UnusedFinding
  /\ testOnly = NotYet \/ testOnly \subseteq Sites

-------------------------------------------------------------------------------
(* src/resolve.rs:896-913 and docs/ANALYSIS.md, "Resolution and          *)
(* reachability": whatever order the walker and the stack work in, the two   *)
(* lists are the ones the least live set gives.                              *)
Promise == INSTANCE LiveCode
ImplementsPromise == Promise!Spec

(* A live use is never ignored.  No site is reported unused if one of its    *)
(* definitions is mentioned outside every definition, through an opaque      *)
(* channel, or inside a definition the first walk reached (src/resolve.rs:909).  *)
NoLiveUseReported ==
  unused # NotYet =>
    \A m \in table.mentions : \A c \in MentionCalls(table, m) :
      (c.from = {} \/ c.from \cap reached["unused"] # {})
        => \A f \in unused : f.site # table.site[c.id]

(* A dead subsystem comes out whole.  A set of definitions that contains     *)
(* every copy of its sites, holds no root, and is named only from inside     *)
(* itself has each of its reportable members reported, cycles included       *)
(* (src/resolve.rs:908-912).                                                     *)
DeadSubsystem(C) ==
  /\ \A d \in Defs : table.site[d] \in SitesOf(table, C) => d \in C
  /\ \A d \in C : ~ IsRoot(table, "Full", d) /\ d \notin table.spliced
  /\ \A m \in table.mentions : \A c \in MentionCalls(table, m) :
       c.id \in C => c.from # {} /\ c.from \subseteq C
  /\ \A a \in table.aliases : \A c \in AliasCalls(table, a) :
       c.id \in C => c.from # {} /\ a \in C

DeadSubsystemsReported ==
  unused # NotYet =>
    \A C \in SUBSET Defs : DeadSubsystem(C) =>
      \A d \in C \cap table.reportable :
        IsWorthReporting(table, d) => \E f \in unused : f.site = table.site[d]

(* The two claims are never made about one definition, though they come from *)
(* different walks (src/resolve.rs:954-961, src/unused.rs:79-81).                *)
ListsDisjoint ==
  unused # NotYet /\ testOnly # NotYet =>
    \A f \in unused : f.site \notin testOnly

(* Nothing on a library's public surface, and nothing [public-api] declares, *)
(* is called test-only, whatever the tests do (src/resolve.rs:965-974).          *)
SurfaceNeverTestOnly ==
  testOnly # NotYet =>
    \A d \in Defs : d \in (table.public \cap table.surface) \cup table.api
                      => table.site[d] \notin testOnly

(* The two evidences read apart: "never referenced" only where no mention    *)
(* names any copy of the site, "only from items that nothing reaches" only   *)
(* where some mention does (src/resolve.rs:519-522).                             *)
EvidenceHonest ==
  unused # NotYet =>
    \A f \in unused :
      f.onlyFromUnreached <=>
        \/ \E m \in table.mentions : \E c \in MentionCalls(table, m) : table.site[c.id] = f.site
        \/ \E a \in used : \E c \in AliasCalls(table, a) : table.site[c.id] = f.site

(* The second Full walk starts over from hash sets in another order and must *)
(* answer as the first did; taking the test entry points out can only shrink *)
(* the answer.                                                               *)
WalksAgree ==
  pc = "done" => /\ reached["testFull"] = reached["unused"]
                 /\ reached["testWithout"] \subseteq reached["testFull"]

(* Aliases may name each other in a cycle, and so may functions: the pass    *)
(* still ends.                                                               *)
Terminates == <>(pc = "done")

-------------------------------------------------------------------------------
(* The inductive invariant the proofs rest on.                               *)

(* What a call asks for is in the table. *)
Recorded(c) ==
  /\ c.id \in used
  /\ c.from = {} => c.id \in rooted
  /\ \A d \in c.from : <<d, c.id>> \in edges

(* A mention makes the call, or an alias something has named. *)
Met(c) ==
  \/ \E m \in table.mentions : c \in MentionCalls(table, m)
  \/ \E d \in used : c \in AliasCalls(table, d)

(* Nothing met so far is lost: it is recorded or still pending. *)
MarkingComplete ==
  /\ table.spliced \subseteq rooted
  /\ \A m \in table.mentions \ unread : \A c \in MentionCalls(table, m) :
       c \in calls \/ Recorded(c)
  /\ \A d \in used : \A c \in AliasCalls(table, d) : c \in calls \/ Recorded(c)
  /\ pc # "mark" => unread = {} /\ calls = {}

(* Nothing is recorded that was not met. *)
MarkingSound ==
  /\ \A c \in calls : Met(c)
  /\ \A d \in used : \E c \in Call : Met(c) /\ c.id = d
  /\ \A d \in rooted : d \in table.spliced \/ \E c \in Call : Met(c) /\ c.from = {} /\ c.id = d
  /\ \A e \in edges : \E c \in Call : Met(c) /\ e[1] \in c.from /\ e[2] = c.id
  /\ used \subseteq Promise!NamedDefs(table)

Closed(w, S) == Roots(w) \subseteq S /\ \A e \in edges : e[1] \in S => e[2] \in S

LeastClosed(w, L) == Closed(w, L) /\ \A S \in SUBSET Defs : Closed(w, S) => L \subseteq S

(* Half way through a walk: only what is on the stack may have successors    *)
(* outside `seen`, and nothing is in `seen` that need not be.                *)
WalkInProgress ==
  pc \in Walk =>
    /\ Roots(pc) \subseteq seen
    /\ stack \subseteq seen
    /\ \A e \in edges : e[1] \in seen \ stack => e[2] \in seen
    /\ \A S \in SUBSET Defs : Closed(pc, S) => seen \subseteq S

Finished == CASE pc = "testFull"    -> {"unused"}
              [] pc = "testWithout" -> {"unused", "testFull"}
              [] pc = "done"        -> Walk
              [] OTHER              -> {}

WalksFinished ==
  /\ \A w \in Finished : LeastClosed(w, reached[w])
  /\ unused # NotYet <=> "unused" \in Finished
  /\ testOnly # NotYet <=> pc = "done"
  /\ unused # NotYet =>
       unused = {f \in UnusedList(reached["unused"]) :
                   f.onlyFromUnreached <=> f.site \in SitesOf(table, used)}
  /\ testOnly # NotYet =>
       testOnly = (Candidates({}) \cap SitesOf(table, used)
                     \cap SitesOf(table, reached["testFull"]))
                  \ SitesOf(table, reached["testWithout"])

IInv == TypeOK /\ MarkingComplete /\ MarkingSound /\ WalkInProgress /\ WalksFinished

===============================================================================
