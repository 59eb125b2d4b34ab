--------------------------- MODULE MCLexicalScopes ---------------------------
(*****************************************************************************)
(* Small files for LexicalScopes.  The names: `h` is a function of the       *)
(* module and every local's name, `C` a const, `U` a name of a glob the      *)
(* table cannot follow, `S` and `Tr` a struct and a trait, `f` and `m` the   *)
(* function and the module the bodies are written in, `u` an import and `n`  *)
(* a module the table does not have.                                         *)
(*****************************************************************************)
EXTENDS LexicalScopes

MCCollected == {<<"top", x>> : x \in {"h", "C", "S", "Tr", "f", "m", "u"}} \cup {<<"m", x>> : x \in {"f", "S", "u"}}
MCMayName   == {<<"top", "C">>, <<"top", "U">>}
MCConstants == {<<"top", "C">>}
MCOwners    == [path \in {<<"S">>, <<"m", "S">>, <<"T">>, <<"Vec">>, <<"Tr">>, <<"n", "S">>, <<>>} |->
                  CASE path = <<"S">> -> {<<"top", "S">>}
                    [] path = <<"m", "S">> -> {<<"m", "S">>}
                    [] path = <<"n", "S">> -> {<<"top", "u">>}
                    [] path = <<"T">> -> {<<"top", "h">>}
                    [] path = <<"Tr">> -> {<<"top", "Tr">>}
                    [] OTHER -> {}]
MCBareMeans == {<<"top", <<"m", "S">>, "S">>}

(* Nodes *)
Names(space, segments, args) == [node |-> "path", space |-> space, segments |-> segments, kids |-> args]
Value(x)  == Names("Value", <<x>>, <<>>)
Type(x)   == Names("Type", <<x>>, <<>>)
Struct(x) == Names("Bare", <<x>>, <<>>)
Macro(x, tokens) == [node |-> "macro", segments |-> <<x>>, tokens |-> tokens, kids |-> <<>>]
Attribute(x) == [node |-> "attribute", tokens |-> <<x>>, kids |-> <<>>]
Use(alias) == [node |-> "use", name |-> alias, kids |-> <<>>]

Pat(node, kids) == [node |-> node, kids |-> kids]
Name(x)         == [node |-> "ident", name |-> x, forced |-> FALSE, kids |-> <<>>]
Ref(x)          == [node |-> "ident", name |-> x, forced |-> TRUE, kids |-> <<>>]
Whole(x, p)     == [node |-> "ident", name |-> x, forced |-> TRUE, kids |-> <<p>>]
Unpack(x, kids) == [node |-> "unpack", segments |-> <<x>>, kids |-> kids]

Of(node, kids) == [node |-> node, kids |-> kids]
Block(stmts)   == Of("block", stmts)
Let(init, p)   == Of("let", <<init, p>>)
Test(init, p)  == Of("case", <<init, p>>)
Arm(p, body)   == Of("arm", <<p, body>>)

Param(space, x) == [space |-> space, name |-> x]
Item(x, generics, kids)  == [node |-> "item", name |-> x, generics |-> generics, kids |-> kids]
Member(generics, kids)   == [node |-> "member", generics |-> generics, kids |-> kids]
Mod(x, items)            == [node |-> "mod", name |-> x, generics |-> <<>>, kids |-> items]
Impl(path, trait, generics, heads, members) ==
  [node |-> "impl", segments |-> path, trait |-> trait, generics |-> generics,
   heads |-> Len(heads), kids |-> heads \o members]
File(items) == [node |-> "file", spliced |-> FALSE, kids |-> items]

-------------------------------------------------------------------------------
(* What may bind a name, and what may name it. *)
Pats == {Name("h"), Name("C"), Name("U"), Ref("h"), Whole("h", Name("C")), Name("g"),
         Unpack("S", <<Name("h")>>), Unpack("h", <<Ref("h"), Name("U")>>),
         Pat("typed", <<Type("h"), Name("h")>>), Pat("either", <<Name("C"), Name("h")>>)}

Uses == {Value("h"), Value("C"), Value("U"), Type("h"), Struct("h"),
         Names("Value", <<"h", "k">>, <<>>), Macro("h", <<"h">>),
         Names("Value", <<"g">>, <<Type("h"), Macro("h", <<>>)>>)}

Block1(x) == Block(<<x>>)

(* Each construct with a pattern, and its own and another use in every place. *)
Binders(p, u) ==
  {Let(u, p),
   Of("let", <<u, Block1(u), p>>),
   Of("if", <<Test(u, p), Block1(u), Block1(u)>>),
   Of("if", <<Of("chain", <<Test(u, p), u, Test(u, Name("g"))>>), Block1(u)>>),
   Of("while", <<Test(u, p), Block1(u)>>),
   Of("for", <<u, p, Block1(u)>>),
   Of("exprs", <<u, Arm(p, u), Arm(Name("g"), u)>>),
   Of("exprs", <<u, Arm(Pat("guarded", <<p, u>>), u), Arm(Pat("either", <<>>), u)>>),
   Of("closure", <<p, Pat("typed", <<Type("h"), Name("g")>>), u>>),
   Block(<<Let(u, p), u>>),
   Block(<<u, Item("u", <<>>, <<Type("h"), p, Block1(u)>>), Let(u, p), Item("u", <<>>, <<Block1(u)>>), u>>),
   Block(<<Let(u, p), Use("u"), Impl(<<"S">>, <<>>, <<>>, <<>>, <<Member(<<>>, <<p, Block(<<u, Value("S")>>)>>)>>), u>>)}

Body(stmts) == File(<<Item("f", <<>>, <<Block(stmts)>>)>>)

(* A construct, then a use; one construct within or after another. *)
One   == {Body(<<c, Value("h"), u, Value("h")>>) : c \in UNION {Binders(p, v) : p \in Pats, v \in {Value("h"), Value("U"), Type("h")}},
                                     u \in Uses}
Two   == {Body(<<c, d, Value("h")>>) :
            c \in UNION {Binders(p, Value("h")) : p \in {Name("h"), Name("C")}},
            d \in UNION {Binders(p, Value("h")) : p \in {Name("h"), Name("U")}}}
Within == {Body(<<c, Value("h")>>) :
            c \in UNION {Binders(p, Block1(d)) : p \in {Name("h"), Name("g")},
                                            d \in Binders(Name("h"), Value("h"))}}

-------------------------------------------------------------------------------
(* Items around a body: generics and parameters, impls of every kind of      *)
(* type, modules and imports.                                                *)
Bodies == {Block(<<u, v>>) : u \in {Value("h"), Type("h"), Value("S"), Names("Value", <<"S", "new">>, <<>>), Struct("S")},
                             v \in {Type("T"), Names("Value", <<"g">>, <<Type("h"), Block1(Value("h"))>>),
                                    Item("u", <<Param("Type", "T")>>, <<Type("T"), Block(<<Type("S"), Value("h")>>)>>)}}

Generic == {<<>>, <<Param("Type", "h")>>, <<Param("Value", "h")>>, <<Param("Type", "T"), Param("Value", "N")>>}

Around(body, mod) ==
  {File(<<Use(x), Item("f", g, <<Attribute("h"), Type("h"), Pat("typed", <<Type("h"), Name("h")>>), body>>), Item("h", <<>>, <<Type("h")>>)>>) :
     g \in Generic, x \in {"u", "_"}}
  \cup {File(<<Impl(path, trait, g, <<Type("S"), Type("h")>>,
                    <<Member(<<>>, <<Type("S")>>), Member(m, <<Name("h"), body>>), Member(<<>>, <<body>>)>>), Item("f", <<>>, <<body>>)>>) :
          path \in {<<"S">>, <<"m", "S">>, <<"n", "S">>, <<"T">>, <<"Vec">>}, trait \in {<<>>, <<"Tr">>},
          g \in {<<>>, <<Param("Type", "T")>>}, m \in {<<>>, <<Param("Type", "h")>>}}
  \cup {File(<<Mod(mod, <<Use("u"), Macro("h", <<"S">>), Attribute("h"), Item("f", <<>>, <<Name("h"), body>>), Impl(<<"S">>, <<>>, <<>>, <<>>, <<Member(<<>>, <<body>>)>>)>>),
               Item("f", g, <<body>>), Item("Tr", g, <<Type("h"), Member(<<>>, <<Name("h"), body>>), Member(g, <<body>>)>>)>>) :
          g \in Generic}

(* A module in a function body. *)
InBody(body) == Body(<<Let(Value("h"), Name("h")), Mod("n", <<Use("u"), Macro("h", <<>>), Item("f", <<>>, <<body>>)>>), Value("h")>>)

Analysed == One \cup Two \cup Within \cup UNION {Around(body, "m") \cup {InBody(body)} : body \in Bodies}
Spliced == {[f EXCEPT !.spliced = TRUE] : f \in Around(Block(<<Value("h"), Use("u"), Type("h")>>), "n")}

(* The nested nodes above as one function of their addresses. *)
RECURSIVE AddressesIn(_)
AddressesIn(n) == {<<>>} \cup UNION {{<<k>> \o at : at \in AddressesIn(n.kids[k])} : k \in DOMAIN n.kids}
NodeAt(n, at) == FoldLeft(LAMBDA p, k : p.kids[k], n, at)
Tree(n) == [at \in AddressesIn(n) |-> [NodeAt(n, at) EXCEPT !.kids = Len(@)]]
MCFiles == {Tree(f) : f \in Analysed \cup Spliced}
===============================================================================
