-------------------------- MODULE MCNameResolution --------------------------
(*****************************************************************************)
(* Three crates: k, with modules a and b, and the libraries w and v.  Each   *)
(* family of workspaces is a few declarations taken from a handful that      *)
(* together make one part of the resolution work.                            *)
(*****************************************************************************)
EXTENDS NameResolution, FiniteSetsExt

K == <<"k">>
A == <<"k", "a">>
B == <<"k", "b">>
C == <<"k", "a", "c">>
W == <<"w">>
V == <<"v">>

P(segments) == [absolute |-> FALSE, segments |-> segments]
Root(segments) == [absolute |-> TRUE, segments |-> segments]
Decl(line, form, m, name, pub) ==
  [line |-> line, form |-> form, in |-> m, name |-> name, pub |-> pub, gated |-> FALSE]
Mod(line, m, name, pub) == Decl(line, "mod", m, name, pub)
Item(line, m, name, kind, pub) == Decl(line, "item", m, name, pub) @@ [kind |-> kind]
Extern(line, m, crate, name) == Decl(line, "extern", m, name, FALSE) @@ [crate |-> crate]
Uses(line, m, tree, pub) ==
  Decl(line, "use", m, "", pub) @@ [tree |-> tree, absolute |-> FALSE, top |-> TRUE]
Gated(d)    == [d EXCEPT !.gated = TRUE]
Nested(d)   == [d EXCEPT !.top = FALSE]
Absolute(d) == [d EXCEPT !.absolute = TRUE]

Name(n)       == [node |-> "name", name |-> n]
As(n, alias)  == [node |-> "rename", name |-> n, as |-> alias]
Star          == [node |-> "glob"]
In(n, tree)   == [node |-> "path", name |-> n, rest |-> tree]
Group(trees)  == [node |-> "group", members |-> trees]

Core == {Mod(1, K, "a", TRUE), Mod(2, K, "b", FALSE)}

\* Namespaces, named imports and chains of globs, rings of them included.
Globs ==
  { Item(11, A, "T", "UnitStruct", TRUE), Item(12, B, "x", "Fn", TRUE), Item(13, B, "y", "Const", FALSE),
    Item(17, B, "T", "Fn", TRUE), Item(16, C, "x", "Fn", TRUE),
    Mod(18, B, "c", TRUE), Item(19, Append(B, "c"), "T", "Struct", TRUE),
    Uses(20, K, In("a", Name("x")), FALSE), Uses(21, K, In("b", Star), TRUE),
    Uses(22, K, In("b", As("x", "y")), TRUE),
    Uses(30, A, In("super", In("b", Star)), TRUE), Uses(31, A, In("super", Star), FALSE),
    Uses(40, B, In("super", In("a", Star)), TRUE), Uses(41, B, In("std", Star), FALSE),
    Uses(42, B, In("crate", In("a", Group(<<Name("self"), Name("T")>>))), TRUE),
    Uses(24, K, In("a", Star), TRUE), Uses(25, K, In("b", Name("T")), TRUE), Uses(44, B, In("super", In("c", Star)), TRUE),
    Uses(32, A, In("self", In("c", Group(<<Name("self"), As("x", "y")>>))), FALSE) }

GlobsBase == {Item(10, A, "x", "Fn", TRUE), Item(14, B, "T", "Struct", TRUE), Mod(15, A, "c", TRUE)}

\* Declarations that some builds lack.
Gates ==
  { Gated(Item(11, A, "T", "Struct", TRUE)), Gated(Item(12, A, "T", "Enum", TRUE)),
    Gated(Item(13, B, "x", "Fn", TRUE)), Gated(Item(14, B, "x", "Const", TRUE)),
    Gated(Uses(20, K, In("a", Star), TRUE)), Gated(Uses(21, K, In("b", Star), TRUE)),
    Gated(Uses(22, K, As("a", "c"), TRUE)), Gated(Uses(23, K, As("b", "c"), TRUE)),
    Uses(24, K, In("c", Name("x")), TRUE), Uses(29, K, In("c", Star), FALSE), Uses(25, K, In("a", Name("T")), TRUE),
    Gated(Uses(30, A, In("super", In("b", Star)), TRUE)), Gated(Mod(26, K, "c", TRUE)), Gated(Mod(27, K, "c", FALSE)), Item(28, <<"k", "c">>, "x", "Fn", TRUE) }

GatesBase == {Item(10, A, "x", "Fn", TRUE)}

\* Other crates: their names, `extern crate`, absolute paths, a spliced file.
Crates ==
  { Uses(20, K, Name("w"), TRUE), Extern(21, K, "w", "y"),
    Uses(22, K, In("z", Name("x")), FALSE), Uses(23, K, In("w", Star), TRUE),
    Absolute(Uses(24, A, In("w", Name("x")), TRUE)), Uses(25, B, In("w", In("a", Star)), TRUE),
    Extern(26, A, "z", "y"),
    Mod(51, W, "a", TRUE), Item(52, <<"w", "a">>, "T", "Struct", TRUE),
    Item(60, V, "x", "Fn", TRUE) }
CratesBase == {Item(10, A, "x", "Fn", TRUE), Item(15, B, "y", "Struct", TRUE), Item(50, W, "x", "Fn", TRUE)}
Splices == { Item(70, K, "T", "Fn", TRUE), Uses(71, K, In("a", Star), FALSE), Mod(72, K, "c", TRUE),
             Item(73, <<"k", "c">>, "x", "Fn", TRUE), Uses(74, <<"k", "c">>, In("super", In("w", Name("x"))), FALSE),
             Uses(75, K, In("b", Star), TRUE) }

\* Chains of imports, longer than the walk follows.
Chain(i, j) ==
  LET ofItem == <<Uses(20, K, In("a", As("x", "d1")), TRUE), Uses(21, K, As("d1", "d2"), TRUE),
                 Uses(22, K, As("d2", "d3"), TRUE), Uses(23, K, As("d3", "d4"), TRUE)>>
      ofMod  == <<Uses(30, K, As("a", "e1"), FALSE), Uses(31, K, As("e1", "e2"), FALSE),
                 Uses(32, K, As("e2", "e3"), FALSE), Uses(33, B, In("super", In("e3", Name("x"))), TRUE),
                 Uses(34, K, As("e3", "e4"), FALSE), Uses(35, K, In("e4", Star), TRUE)>>
  IN  {Item(10, A, "x", "Fn", TRUE)} \cup ToSet(SubSeq(ofItem, 1, i)) \cup ToSet(SubSeq(ofMod, 1, j))

\* A `use` in the body of a function of b.
Bodies ==
  { Item(10, A, "x", "Fn", TRUE), Item(11, A, "T", "UnitStruct", TRUE), Item(12, K, "x", "Const", FALSE),
    Uses(40, B, In("super", Star), FALSE), Item(41, B, "y", "Fn", FALSE),
    Nested(Uses(42, B, In("crate", In("a", Name("x"))), FALSE)), Nested(Uses(43, B, In("crate", In("a", Star)), FALSE)) }

\* One name in two namespaces, declared and brought by globs.
Merging ==
  { Item(10, A, "T", "Fn", TRUE), Item(11, B, "T", "Struct", TRUE), Item(12, A, "x", "Fn", TRUE),
    Uses(20, K, In("a", Star), FALSE), Uses(21, K, In("b", Star), FALSE),
    Uses(30, A, In("super", In("b", Star)), FALSE) }

\* In the order of their lines.
Within(decls, ms) ==
  LET here  == {d \in decls : d.in \in ms}
      lines == SelectSeq([i \in 1 .. 80 |-> i], LAMBDA i : \E d \in here : d.line = i)
  IN  [i \in DOMAIN lines |-> CHOOSE d \in here : d.line = lines[i]]
Inside(m) == {m, Append(m, "c"), Append(m, "a")}
ProjectOf(chosen, spliced, z, edition) ==
  [ files |-> <<[module |-> K, items |-> Within(Core \cup chosen, {K, <<"k", "c">>})],
                [module |-> A, items |-> Within(chosen, Inside(A))],
                [module |-> B, items |-> Within(chosen, Inside(B))],
                [module |-> W, items |-> Within(chosen, Inside(W))],
                [module |-> V, items |-> Within(chosen, {V})]>>,
    spliced |-> IF spliced = {} THEN <<>> ELSE <<[module |-> K, items |-> Within(spliced, {K, <<"k", "c">>})]>>,
    names |-> [k |-> <<"k">>, w |-> <<"w", "z">>, v |-> <<"v", "z">>],
    prelude |-> {[in |-> "k", name |-> "w", crate |-> "w"], [in |-> "k", name |-> "z", crate |-> z]},
    edition |-> edition ]

Few(n, decls) == UNION {kSubset(i, decls) : i \in 0 .. n}
Plain(decls) == ProjectOf(decls, {}, "w", 2018)
Workspaces ==
       {Plain(GlobsBase \cup c) : c \in Few(3, Globs)}
  \cup {Plain(GatesBase \cup c) : c \in Few(4, Gates)}
  \cup {ProjectOf(CratesBase \cup c, s, "w", 2018) : c \in Few(3, Crates), s \in Few(2, Splices)}
  \cup {ProjectOf(CratesBase \cup c, {}, "v", 2015) : c \in Few(3, Crates)}
  \cup {Plain(Chain(i, j)) : i \in 0 .. 4, j \in 0 .. 6}
  \cup {Plain(c) : c \in SUBSET Bodies}
MCProjects == {p \in Workspaces : Compiles(p, {"std"})}
MCMerging  == {p \in {Plain(c) : c \in SUBSET Merging} : Compiles(p, {"std"})}

Names == {"a", "b", "c", "T", "x", "y", "w"}
MCMentions ==
  {[in |-> m, path |-> q] : m \in {K, A, B},
     q \in {P(<<n>>) : n \in Names \cup {"d1", "d2", "d4"}}
           \cup {P(<<h, n>>) : h \in {"a", "b", "c", "w", "z", "crate", "super", "e3", "e4"}, n \in {"T", "x", "y", "d3"}}
           \cup {Root(<<h, "x">>) : h \in {"w", "z"}}}
MCConsumers ==
  {P(<<c>> \o s) : c \in {"k", "w"}, s \in {<<n>> : n \in Names \cup {"d4"}}
                                        \cup {<<h, n>> : h \in {"a", "b", "c"}, n \in {"T", "x", "y"}}}
=============================================================================
