------------------------------ MODULE SymbolTables ------------------------------
(*****************************************************************************)
(* What the usage pass of src/resolve.rs reads: a symbol table (every        *)
(* definition of the workspace, with what the index recorded about it) and   *)
(* the mentions its reference walker meets, each already resolved to the     *)
(* definitions it names.  Resolution itself (scopes, aliases, globs) is what *)
(* produced `reached` and `opaque`; this module is about what is done with   *)
(* the answer.                                                               *)
(*****************************************************************************)

CONSTANTS Defs,    \* definition ids: the indices of SymbolTable::defs
          Names,   \* identifiers
          Sites,   \* (file, line, name): where a definition is written
          Tables,  \* the workspaces under analysis
          NotYet   \* a list that has not been produced

EntryPoint == {"None", "Test", "NonTest"}
RootSet    == {"Full", "WithoutTests"}

(* A path, walked: the definitions its segments name, and the names of the   *)
(* segments from the first one resolution could not account for.             *)
Path == [reached: SUBSET Defs, opaque: SUBSET Names]

(* One thing the walker meets.  `from` is the definitions it is written      *)
(* inside, {} standing for Referrer::Root; `strings` are the words of an     *)
(* attribute's string arguments.                                             *)
Mention == [from: SUBSET Defs, path: Path, strings: SUBSET Names]

Table ==
  [ name:       [Defs -> Names],
    site:       [Defs -> Sites],
    entry:      [Defs -> EntryPoint],
    aliases:    SUBSET Defs,            \* `use` bindings: Import and Reexport
    target:     [Defs -> Path],         \* what an alias imports
    reexports:  SUBSET Defs,            \* the `pub use` ones
    public:     SUBSET Defs,            \* Def::is_pub
    surface:    SUBSET Defs,            \* written in an externally reachable module
    api:        SUBSET Defs,            \* covered by [public-api]
    reportable: SUBSET Defs,
    spliced:    SUBSET Defs,            \* imports admitted from spliced files
    inside:     [Names -> SUBSET Defs], \* items of the modules a name opens
    mentions:   SUBSET Mention ]

ASSUME TablesAreTyped == Tables \subseteq Table

(* What unused_definitions returns for a site, and its evidence.             *)
UnusedFinding == [site: Sites, onlyFromUnreached: BOOLEAN]

ASSUME NotYetIsNoList == /\ \A list \in SUBSET UnusedFinding : list # NotYet
                         /\ \A list \in SUBSET Sites : list # NotYet

-------------------------------------------------------------------------------
(* A call of mark_def_used: `id` is named from inside `from`. *)
Call == [from: SUBSET Defs, id: Defs]

Named(t, names) == {d \in Defs : t.name[d] \in names}

(* mark_name_used: every definition of that name, unconditionally. *)
NameCalls(t, names) == [from: {{}}, id: Named(t, names)]

(* mark_path_used: what the path reached, on behalf of `from`; and every     *)
(* definition sharing a name with its unaccounted tail.                      *)
PathCalls(t, from, path) ==
  [from: {from}, id: path.reached] \cup NameCalls(t, path.opaque)

(* mark_name_in_attr_string_used: the name, and the items of any module it   *)
(* opens.                                                                    *)
StringCalls(t, names) ==
  NameCalls(t, names) \cup [from: {{}}, id: UNION {t.inside[n] : n \in names}]

MentionCalls(t, m) == PathCalls(t, m.from, m.path) \cup StringCalls(t, m.strings)

(* Reaching an alias reaches what it imports, from the alias. *)
AliasCalls(t, d) ==
  IF d \in t.aliases THEN PathCalls(t, {d}, t.target[d]) ELSE {}

-------------------------------------------------------------------------------
(* RootSet::admits *)
Admits(roots, entry) == entry = "NonTest" \/ (entry = "Test" /\ roots = "Full")

(* A slip: the surface a root of the analysed build only. *)
IsRootWithTests(t, roots, d) ==
  \/ Admits(roots, t.entry[d])
  \/ roots = "Full" /\ d \in t.public /\ d \in t.surface
  \/ d \in t.api

(* is_root: alive before any edge is followed. *)
IsRoot(t, roots, d) ==
  \/ Admits(roots, t.entry[d])
  \/ d \in t.public /\ d \in t.surface
  \/ d \in t.api

(* is_worth_reporting: a `pub use` on the public surface is doing its job. *)
IsWorthReporting(t, d) == d \notin t.reexports \/ d \notin t.surface

SitesOf(t, defs) == {t.site[d] : d \in defs}

===============================================================================
