---------------------------- MODULE MCBaselineRuns ----------------------------
(*****************************************************************************)
(* A workspace of two packages, one at the root and one below it, with two   *)
(* files and one file.  One item name, in two modules and both namespaces,   *)
(* beside a dead file: enough for two items that share a key, for a move     *)
(* with two candidates on either side, and for a move across packages.       *)
(*****************************************************************************)
EXTENDS BaselineRuns

MCPackageDirs == { [dir |-> <<>>, name |-> "root"], [dir |-> <<"beta">>, name |-> "beta"] }

RootA == <<"src", "a.rs">>
RootB == <<"src", "b.rs">>
Beta  == <<"beta", "lib.rs">>

MCPaths == {RootA, RootB, Beta}

Item(path, module, namespace, line) ==
  [ key  |-> [ kind |-> "unused_pub_item", file |-> path, name |-> "twin",
               module |-> module, namespace |-> namespace ],
    line |-> line ]

DeadFile(path) ==
  [ key  |-> [kind |-> "dead_file", file |-> path, name |-> None, module |-> None, namespace |-> None],
    line |-> 1 ]

MCUniverse ==
  { Item(RootA, "crate", "type", 1), Item(RootA, "crate", "value", 1),
    Item(RootA, "crate", "value", 2), Item(RootB, "crate::m", "both", 1),
    DeadFile(RootA) }

MCOutages == { {}, {"unused_pub_item"} }
===============================================================================
