---------------------------- MODULE MCReachability ----------------------------
(*****************************************************************************)
(* Small workspaces for the usage pass: three definitions, of which b and c  *)
(* share a name and, in half of the workspaces, a site (one file compiled    *)
(* into two crates).  Every workspace is one SymbolTable::build can produce: *)
(* an alias is itself a mention of its target, only a `pub` item is          *)
(* reportable, and an entry point never is.                                  *)
(*****************************************************************************)
EXTENDS Reachability, FiniteSetsExt, TLC

CONSTANTS a, b, c,          \* the definitions
          p, q, r,          \* identifiers; nothing is named r
          s1, s2, s3,       \* the sites
          MaxPlain          \* mentions beside the aliases' own

To(defs)     == [reached |-> defs, opaque |-> {}]
Lost(names)  == [reached |-> {}, opaque |-> names]
NoPath       == To({})

Mentioned(from, path) == [from |-> from, path |-> path, strings |-> {}]

(* What the walker can meet: calls along and against the alphabet, a mention *)
(* outside every definition, an `impl` hanging off two definitions, a path   *)
(* whose tail is lost, and an attribute string.                              *)
Plain ==
  { Mentioned({a}, To({b})), Mentioned({b}, To({c})), Mentioned({c}, To({b})),
    Mentioned({}, To({a})),  Mentioned({a, b}, To({c})),
    Mentioned({c}, Lost({q})),
    [from |-> {}, path |-> NoPath, strings |-> {p}] }

(* No alias; one; a cycle of two; one reached through the other. *)
AliasShapes ==
  { [d \in {} |-> NoPath],
    a :> To({b}),
    a :> To({b}) @@ b :> To({a}),
    a :> To({b}) @@ c :> Lost({p}) }

Sharing == { b :> s2 @@ c :> s3, b :> s2 @@ c :> s2 }

Entries == { [d \in Defs |-> "None"],
             [d \in Defs |-> IF d = a THEN "NonTest" ELSE "None"],
             [d \in Defs |-> IF d = a THEN "Test" ELSE "None"],
             [d \in Defs |-> IF d = c THEN "Test" ELSE IF d = a THEN "NonTest" ELSE "None"] }

(* Which definitions are written in a module a consumer can name, and which  *)
(* [public-api] lists.                                                       *)
Exposures == { [surface |-> {}, api |-> {}],  [surface |-> {a}, api |-> {}],
               [surface |-> {b}, api |-> {}], [surface |-> {}, api |-> {c}] }

(* b is the private one, or nothing is. *)
Publics == { {a, c}, {a, b, c} }

Workspace(shape, sharing, entry, exposure, public, plain) ==
  LET aliases   == DOMAIN shape
      spliced   == IF c \in aliases THEN {c} ELSE {}
      isPub     == public \ spliced
  IN [ name       |-> a :> p @@ b :> q @@ c :> q,
       site       |-> a :> s1 @@ sharing,
       entry      |-> [d \in Defs |-> IF d \in aliases THEN "None" ELSE entry[d]],
       aliases    |-> aliases,
       target     |-> [d \in Defs |-> IF d \in aliases THEN shape[d] ELSE NoPath],
       reexports  |-> aliases \cap isPub,
       public     |-> isPub,
       surface    |-> exposure.surface,
       api        |-> exposure.api,
       reportable |-> {d \in isPub : d \in aliases \/ entry[d] = "None"},
       spliced    |-> spliced,
       inside     |-> p :> {c} @@ q :> {} @@ r :> {},
       mentions   |-> plain \cup {Mentioned({d}, shape[d]) : d \in aliases} ]

MCTables ==
  {Workspace(shape, sharing, entry, exposure, public, plain) :
     shape \in AliasShapes, sharing \in Sharing, entry \in Entries,
     exposure \in Exposures, public \in Publics,
     plain \in UNION {kSubset(k, Plain) : k \in 0..MaxPlain}}
===============================================================================
