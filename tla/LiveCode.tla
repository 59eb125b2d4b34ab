-------------------------------- MODULE LiveCode --------------------------------
(*****************************************************************************)
(* What the usage pass promises, with no worklist and no order in it: which  *)
(* definitions are named at all, which are alive, and which two lists of     *)
(* findings follow.  "Alive" is the least set that holds the roots and every *)
(* definition a live one names.                                              *)
(*****************************************************************************)
EXTENDS SymbolTables

VARIABLES table,     \* the workspace under analysis, fixed
          unused,    \* unused_definitions, or NotYet
          testOnly   \* test_only_definitions, or NotYet

vars == <<table, unused, testOnly>>

(* Some path, however dead the code it is written in, names them. *)
NamingClosed(t, M) ==
  /\ \A m \in t.mentions : \A c \in MentionCalls(t, m) : c.id \in M
  /\ \A a \in M : \A c \in AliasCalls(t, a) : c.id \in M

NamedDefs(t) ==
  {d \in Defs : \A M \in SUBSET Defs : NamingClosed(t, M) => d \in M}

(* Every use there is: what a mention makes, and what a named alias makes. *)
Uses(t) == UNION ({MentionCalls(t, m) : m \in t.mentions}
                   \cup {AliasCalls(t, a) : a \in NamedDefs(t)})

(* A use holds by itself when it is written inside no definition, and        *)
(* otherwise as soon as one of the definitions it is written inside is alive.*)
Holds(c, L) == c.from = {} \/ \E d \in c.from : d \in L

LiveClosed(t, uses, roots, L) ==
  /\ t.spliced \subseteq L
  /\ \A d \in Defs : IsRoot(t, roots, d) => d \in L
  /\ \A c \in uses : Holds(c, L) => c.id \in L

LiveDefs(t, roots) ==
  LET uses == Uses(t)
  IN  {d \in Defs : \A L \in SUBSET Defs : LiveClosed(t, uses, roots, L) => d \in L}

-------------------------------------------------------------------------------
(* One site can hold several definitions: a file pulled into two crates is   *)
(* indexed once per crate, and it is used if any copy is.                    *)
SiteNamed(t, s)       == \E d \in NamedDefs(t) : t.site[d] = s
SiteLive(t, roots, s) == \E d \in LiveDefs(t, roots) : t.site[d] = s

Reportable(t, s, exempt) ==
  \E d \in t.reportable : t.site[d] = s /\ IsWorthReporting(t, d) /\ d \notin exempt

Init == /\ table \in Table
        /\ unused = NotYet
        /\ testOnly = NotYet

(* Dead: nothing names it, or nothing live does. *)
ListUnused ==
  /\ unused = NotYet
  /\ unused' = {[site |-> s, onlyFromUnreached |-> SiteNamed(table, s)] :
                  s \in {x \in Sites : /\ Reportable(table, x, table.api)
                                       /\ ~ (SiteNamed(table, x) /\ SiteLive(table, "Full", x))}}
  /\ UNCHANGED <<table, testOnly>>

(* Not dead, and alive only because of the tests. *)
ListTestOnly ==
  /\ unused # NotYet /\ testOnly = NotYet
  /\ testOnly' = {s \in Sites : /\ Reportable(table, s, {})
                                /\ SiteNamed(table, s)
                                /\ SiteLive(table, "Full", s)
                                /\ ~ SiteLive(table, "WithoutTests", s)}
  /\ UNCHANGED <<table, unused>>

Next == ListUnused \/ ListTestOnly

Spec == Init /\ [][Next]_vars

===============================================================================
