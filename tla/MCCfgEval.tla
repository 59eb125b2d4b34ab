------------------------------ MODULE MCCfgEval ------------------------------
(*****************************************************************************)
(* Gates of every form over a manifest with two features, an optional        *)
(* dependency and a feature it does not declare; one file with an inline     *)
(* module, an item in it and one beside it.                                  *)
(*****************************************************************************)
EXTENDS CfgEval

MCNames == {"f", "g", "d", "nope"}
MCOSes  == {"linux", "windows", "wasi", "newos"}
MCListed == {"linux", "windows", "wasi"}
\* rustc puts newos with the unixes; family_of has never heard of it
MCFamilyOf == [o \in MCOSes |-> CASE o \in {"linux", "newos"} -> "unix"
                                    [] o = "windows" -> "windows"
                                    [] OTHER -> "neither"]

Atoms == [f     |-> [op |-> "feature", name |-> "f"],
          g     |-> [op |-> "feature", name |-> "g"],
          nope  |-> [op |-> "feature", name |-> "nope"],
          linux |-> [op |-> "os", name |-> "linux"],
          unix  |-> [op |-> "family", name |-> "unix"],
          win   |-> [op |-> "family", name |-> "windows"],
          test  |-> [op |-> "test"],
          docs  |-> [op |-> "unknown"],
          never |-> [op |-> "any", args |-> {}]]
Compounds == [notF   |-> [op |-> "not", arg |-> "f"],
              notFs  |-> [op |-> "all", args |-> {"notF", "f"}],
              notT   |-> [op |-> "not", arg |-> "test"],
              notU   |-> [op |-> "not", arg |-> "unix"],
              hasN   |-> [op |-> "not", arg |-> "nope"],
              testU  |-> [op |-> "all", args |-> {"test", "unix"}],
              nopeT  |-> [op |-> "any", args |-> {"nope", "test"}],
              fOrW   |-> [op |-> "any", args |-> {"f", "win"}],
              notFW  |-> [op |-> "not", arg |-> "fOrW"],
              deep   |-> [op |-> "any", args |-> {"notFW", "test"}],
              docsN  |-> [op |-> "all", args |-> {"docs", "nope"}]]
MCPreds == DOMAIN Atoms \cup DOMAIN Compounds
MCSyntax == [p \in MCPreds |-> IF p \in DOMAIN Atoms THEN Atoms[p] ELSE Compounds[p]]

AllBuilds == [features: SUBSET MCNames, os: MCOSes, test: BOOLEAN, others: SUBSET {"docs"}]
MCHolds ==
  [b \in AllBuilds |->
    LET holds[p \in MCPreds] ==
          LET s == MCSyntax[p]
          IN  CASE s.op = "feature" -> s.name \in b.features
                [] s.op = "os"      -> b.os = s.name
                [] s.op = "family"  -> MCFamilyOf[b.os] = s.name
                [] s.op = "test"    -> b.test
                [] s.op = "unknown" -> p \in b.others
                [] s.op = "not"     -> ~holds[s.arg]
                [] s.op = "all"     -> \A q \in s.args : holds[q]
                [] s.op = "any"     -> \E q \in s.args : holds[q]
    IN  holds]

MCItems == {"file", "mod", "inner", "beside"}
MCWithin == [i \in MCItems |-> CASE i = "file" -> Outside [] i = "inner" -> "mod" [] OTHER -> "file"]

R(feature, form, name) == [feature |-> feature, form |-> form, name |-> name]
Implicit == R("d", "dep", "d")    \* what cargo synthesizes for an optional d
\* A chain that ends in a dependency, a cycle, and `d/x` where d is a feature.
Tables ==
  { [keys |-> {"f", "g"}, rows |-> {R("f", "feature", "g"), R("f", "weak", "d"), R("g", "dep", "d")}],
    [keys |-> {"f", "g", "d"}, rows |-> {R("f", "feature", "g"), R("g", "feature", "f"), Implicit}],
    [keys |-> {"f", "d"}, rows |-> {R("f", "slash", "d"), Implicit}],
    [keys |-> {"f", "g"}, rows |-> {R("f", "slash", "d"), R("g", "weak", "d")}] }
Entries == {[key |-> "d", gate |-> g] : g \in {"unix", "never", "hasN"}}
Matrices ==
  [requested: {Unnarrowed, {}, {"f"}, {"g"}}, os: {Unnarrowed, {}, {"linux"}, {"linux", "windows"}, {"newos"}},
   test: BOOLEAN]
Base(table, matrix) ==
  [keys |-> table.keys, rows |-> table.rows, optional |-> {"d"}, requested |-> matrix.requested, os |-> matrix.os,
   test |-> matrix.test, within |-> MCWithin, entries |-> Entries,
   gates |-> [i \in MCItems |-> {}], tests |-> {}]

\* What is gated: the file, the module and what is in it, or all three.
Gated(file, mod, inner) ==
  [i \in MCItems |-> CASE i = "file" -> file [] i = "mod" -> mod [] i = "inner" -> inner [] OTHER -> {"test"}]
Files == {Gated({}, {p}, {q}) : p \in {"nope", "fOrW", "hasN"}, q \in {"nope", "testU", "notFs", "nopeT"}}
   \cup {Gated({}, {"unix", "docsN"}, {"notU"}), Gated({"notF"}, {"nope"}, {"never"}),
         Gated({"docsN"}, {"nope"}, {"f"}), Gated({}, {"notT"}, {"linux", "deep"})}

MCPackages ==
  UNION {{[Base(t, m) EXCEPT !.gates = g, !.tests = {"inner"}] : g \in Files}
           : t \in Tables, m \in Matrices}
===============================================================================
