------------------------------ MODULE MCModuleWalk ------------------------------
(*****************************************************************************)
(* Crates of six files.  The root mounts a.rs twice, once for tests only     *)
(* (`#[cfg(test)] mod a;` and `#[path = "a.rs"] mod a2;`, at most), beside   *)
(* an include, inline blocks or a missing module; b.rs mounts a.rs back and  *)
(* defines the macro that a.rs and the root invoke; g.rs and h.rs are        *)
(* included, by each other too.                                              *)
(*****************************************************************************)
EXTENDS ModuleWalk

CONSTANTS lib, a, b, g, h, off, m

Always(f) == [r \in BOOLEAN |-> f]
Decl(kind, name, target, rule, confined) ==
  [kind |-> kind, name |-> name, within |-> <<>>, at |-> Always(target),
   childRule |-> rule, confined |-> confined, macro |-> m]

ModA      == Decl("mod", "a", a, FALSE, TRUE)
ModAAgain == Decl("mod", "a2", a, TRUE, FALSE)  \* #[path = "a.rs"]
ModB      == Decl("mod", "b", b, FALSE, FALSE)
ModBHere  == [Decl("mod", "c", b, TRUE, FALSE) EXCEPT !.within = <<"inner">>]
ModBack   == Decl("mod", "a", a, TRUE, FALSE)
ModRoot   == Decl("mod", "top", lib, TRUE, FALSE)
ModH      == Decl("mod", "h", h, FALSE, FALSE)
ModGone   == [Decl("mod", "gone", Missing, FALSE, FALSE)
                EXCEPT !.at = [r \in BOOLEAN |-> IF r THEN Ignored ELSE Missing]]
ModOff    == Decl("ruled out mod", "off", off, FALSE, FALSE)
IncludeG  == Decl("include", "", g, TRUE, FALSE)
IncludeGInTests == Decl("include", "", g, TRUE, TRUE)
IncludeH  == Decl("include", "", h, TRUE, FALSE)
ClaimH    == Decl("claim", "h", h, FALSE, FALSE)
Imp       == Decl("inline", "imp", Missing, FALSE, FALSE)
ImpInTests == Decl("inline", "imp", Missing, FALSE, TRUE)
Define    == Decl("define", "m", Missing, FALSE, FALSE)
Invoke    == Decl("invoke", "h", h, FALSE, FALSE)
InvokeInTests == Decl("invoke", "h", h, FALSE, TRUE)

(* What the root may hold: its modules in every order. *)
RootItems ==
  {Append(s, y) : s \in SetToSeqs({ModA, ModAAgain}) \cup SetToSeqs({ModA, ModB}),
                  y \in {IncludeG, IncludeGInTests, InvokeInTests, ModOff}}
    \cup SetToSeqs({ModA, ModAAgain, ModB})

AItems == {<<x, y>> : x \in {IncludeG, ModBHere, ClaimH}, y \in {Invoke, Imp, ImpInTests, ModGone}}
            \cup {<<Imp, ImpInTests>>}
BItems == {<<Define>>, <<ModBack, Define>>, <<IncludeH>>, <<ModRoot>>}
GItems == {<<IncludeH>>, <<Define, IncludeG>>, <<ModH>>}
HItems == {<<IncludeG>>, <<ImpInTests>>}

MCCrates ==
  {[items  |-> [f \in Files |-> CASE f = lib -> r [] f = a -> x [] f = b -> y [] f = g -> z [] OTHER -> w],
    health |-> [f \in Files |-> IF f = h THEN k ELSE "sound"]] :
   r \in RootItems, x \in AItems, y \in BItems, z \in GItems, w \in HItems,
   k \in {"sound", "ruled out"}}
     \cup
  {[items  |-> [f \in Files |-> CASE f = lib -> <<ModA, ModAAgain, IncludeG>> [] f = a -> x [] OTHER -> <<IncludeG>>],
    health |-> [f \in Files |-> IF f = s THEN k ELSE "sound"]] :
   x \in AItems, s \in Files, k \in Healths}
===============================================================================
