---------------------------- MODULE LexicalScopes ----------------------------
(*****************************************************************************)
(* How the reference walk of src/resolve.rs (RefWalker) tells the names of a *)
(* body that are locals from those that name items, and on whose behalf it   *)
(* records the latter.  What it hands to mark_path_used are the mentions     *)
(* that NameResolution and Reachability take as given.                       *)
(*                                                                           *)
(* The files, and the reading of their names the walk is compared with, are  *)
(* in RustScopes.  The recursion of the walk is kept as the list of what is  *)
(* left to do.                                                               *)
(*****************************************************************************)
EXTENDS RustScopes

CONSTANTS Files       \* under analysis

ASSUME FilesAreRust == \A t \in Files : IsFile(t)

VARIABLES file,      \* fixed
          todo,      \* what the recursion has yet to do
          values,    \* value_scopes, innermost last
          types,     \* type_scopes
          pos,       \* namespace of the paths now met
          self,      \* impl_self: the head of the self type, or ""
          enclosing, \* on whose behalf: {} is Referrer::Root
          module,
          marked     \* calls of mark_path_used
vars == <<file, todo, values, types, pos, self, enclosing, module, marked>>

(* What is left to do: a node to visit, a pattern to bind, or the end of     *)
(* what was set for the length of a body.                                    *)
Task(t, at) == [do |-> IF t[at].node \in Patterns THEN "bind" ELSE "visit", at |-> at]
Parts(t, at, from, to) == [i \in 1 .. (to - from + 1) |-> Task(t, Append(at, from + i - 1))]
AllParts(t, at) == Parts(t, at, 1, t[at].kids)

Doing(what) == todo # <<>> /\ Head(todo).do = what
At == Head(todo).at
Node == file[At]
Visiting(nodes) == Doing("visit") /\ Node.node \in nodes
Binding(nodes) == Doing("bind") /\ Node.node \in nodes
Then(tasks) == todo' = tasks \o Tail(todo)

Init ==
  /\ file \in Files
  /\ todo = AllParts(file, <<>>)
  /\ values = <<>> /\ types = <<>>
  /\ pos = "Other" /\ self = "" /\ enclosing = {} /\ module = "top"
  /\ marked = {}

-------------------------------------------------------------------------------
(* Items *)

(* defined_at: what the table has of this name, written here.                *)
DefinedAt(name) == {<<module, name>>} \cap Collected

(* item_referrer: describe knows no `mod`, and the table no item of a body   *)
(* or of a file that is only spliced in.                                     *)
ItemReferrer(n, at) == IF n.node = "item" /\ InTable(file, at) THEN DefinedAt(n.name) ELSE {}

(* What visit_item, within and visit_impl_body put back at the end. *)
Restoring == [do |-> "restore", values |-> values, types |-> types, pos |-> pos,
              enclosing |-> enclosing, self |-> self, module |-> module]

(* A slip: the scopes around it stay in place, merely shadowed. *)
Stacked(n) == values' = Append(values, Params(n, "Value")) /\ types' = Append(types, Params(n, "Type")) /\ pos' = "Other"

(* An item starts from scopes of its own. *)
Afresh(n) == values' = <<Params(n, "Value")>> /\ types' = <<Params(n, "Type")>> /\ pos' = "Other"

(* visit_item: an item does not see the bindings around it, and what it      *)
(* names it names on its own behalf.                                         *)
VisitItem ==
  /\ Visiting({"item"})
  /\ Afresh(Node)
  /\ enclosing' = ItemReferrer(Node, At)
  /\ Then(AllParts(file, At) \o <<Restoring>>)
  /\ UNCHANGED <<file, self, module, marked>>

(* visit_item, then visit_item_mod: what is written directly in a module     *)
(* counts on its own.                                                        *)
VisitMod ==
  /\ Visiting({"mod"})
  /\ Afresh(Node)
  /\ enclosing' = ItemReferrer(Node, At)
  /\ module' = IF InTable(file, At) THEN Node.name ELSE module
  /\ Then(AllParts(file, At) \o <<Restoring>>)
  /\ UNCHANGED <<file, self, marked>>

(* visit_item_use: on behalf of the name it binds; a glob and `as _` bind    *)
(* none.  An import in a body is collected like any other, and so are those  *)
(* of a spliced file.                                                        *)
VisitUse ==
  /\ Visiting({"use"})
  /\ marked' = marked \cup {[at |-> At, from |-> DefinedAt(Node.name), module |-> module]}
  /\ Then(<<>>)
  /\ UNCHANGED <<file, values, types, pos, self, enclosing, module>>

(* impl_owner: an impl of its own parameter, or of a type the table does not *)
(* know, hangs off nothing; any other off its type and its trait.            *)
OwnersOf(n) ==
  LET type == Owners[n.segments]
  IN  IF type = {} \/ (Len(n.segments) = 1 /\ n.segments[1] \in Params(n, "Type")) THEN {}
      ELSE type \cup Owners[n.trait]

(* visit_impl_body: how its members would spell the type itself. *)
SelfName(n) ==
  IF Len(n.segments) = 1 \/ <<module, n.segments, Last(n.segments)>> \in BareMeans THEN Last(n.segments) ELSE ""

(* visit_item_impl: its generics, trait and type arguments are resolved      *)
(* before any path of its members can be a self-reference.                   *)
VisitImpl ==
  /\ Visiting({"impl"})
  /\ Afresh(Node)
  /\ enclosing' = OwnersOf(Node)
  /\ Then(Parts(file, At, 1, Node.heads) \o <<[do |-> "members", name |-> SelfName(Node)]>>
            \o Parts(file, At, Node.heads + 1, Node.kids) \o <<Restoring>>)
  /\ UNCHANGED <<file, self, module, marked>>

EnterMembers ==
  /\ Doing("members")
  /\ self' = Head(todo).name
  /\ Then(<<>>)
  /\ UNCHANGED <<file, values, types, pos, enclosing, module, marked>>

Restore ==
  /\ Doing("restore")
  /\ values' = Head(todo).values /\ types' = Head(todo).types /\ pos' = Head(todo).pos
  /\ enclosing' = Head(todo).enclosing /\ self' = Head(todo).self /\ module' = Head(todo).module
  /\ Then(<<>>)
  /\ UNCHANGED <<file, marked>>

-------------------------------------------------------------------------------
(* Scopes *)

(* in_scope *)
Scoped(tasks) == <<[do |-> "open", values |-> {}, types |-> {}]>> \o tasks \o <<[do |-> "close"]>>

Open ==
  /\ Doing("open")
  /\ values' = Append(values, Head(todo).values) /\ types' = Append(types, Head(todo).types)
  /\ Then(<<>>)
  /\ UNCHANGED <<file, pos, self, enclosing, module, marked>>

(* A slip: the types stay open. *)
CloseValues ==
  /\ Doing("close")
  /\ values' = Front(values)
  /\ Then(<<>>)
  /\ UNCHANGED <<file, types, pos, self, enclosing, module, marked>>

Close ==
  /\ Doing("close")
  /\ values' = Front(values) /\ types' = Front(types)
  /\ Then(<<>>)
  /\ UNCHANGED <<file, pos, self, enclosing, module, marked>>

(* visit_impl_item, visit_trait_item: on top of the scope of the block. *)
VisitMember ==
  /\ Visiting({"member"})
  /\ Then(<<[do |-> "open", values |-> Params(Node, "Value"), types |-> Params(Node, "Type")]>>
            \o AllParts(file, At) \o <<[do |-> "close"]>>)
  /\ UNCHANGED <<file, values, types, pos, self, enclosing, module, marked>>

(* Which of its parts a construct has in a scope of its own: a block, an     *)
(* arm, a closure and a `while` all of them, an `if` not its `else`, a `for` *)
(* not its iterator.  A `let` opens none and binds after its initializer and *)
(* its `else`, a condition after its scrutinee.                              *)
OfConstruct(t, at) ==
  LET n == t[at]
  IN  CASE n.node \in {"block", "arm", "closure", "while"} -> Scoped(AllParts(t, at))
        [] n.node = "if"  -> Scoped(Parts(t, at, 1, 2)) \o Parts(t, at, 3, n.kids)
        [] n.node = "for" -> Parts(t, at, 1, 1) \o Scoped(Parts(t, at, 2, n.kids))
        [] OTHER          -> AllParts(t, at)

VisitConstruct ==
  /\ Visiting(Constructs)
  /\ Then(OfConstruct(file, At))
  /\ UNCHANGED <<file, values, types, pos, self, enclosing, module, marked>>

-------------------------------------------------------------------------------
(* Names *)

BoundIn(frames, name) == \E i \in DOMAIN frames : name \in frames[i]

(* shadowed: a bare name, by any frame, in the namespace of the position. *)
Shadowed(space, segments) ==
  /\ Len(segments) = 1
  /\ \/ space = "Value" /\ BoundIn(values, segments[1])
     \/ space = "Type" /\ BoundIn(types, segments[1])

(* visit_path *)
Mention(space, segments, at) ==
  IF segments[1] = self \/ Shadowed(space, segments) THEN {}
  ELSE {[at |-> at, from |-> enclosing, module |-> module]}

(* with_pos, over a node and what is inside it. *)
Positioned(space) ==
  /\ pos' = space
  /\ Then(AllParts(file, At) \o <<[do |-> "position", pos |-> pos]>>)

(* visit_expr_path, visit_type_path, visit_trait_bound; a struct literal and *)
(* the trait of an impl set no position.  The generic arguments of a path    *)
(* are paths of their own.                                                   *)
VisitPath ==
  /\ Visiting({"path"})
  /\ Positioned(IF Node.space = "Bare" THEN pos ELSE Node.space)
  /\ marked' = marked \cup Mention(pos', Node.segments, At)
  /\ UNCHANGED <<file, values, types, self, enclosing, module>>

LeavePosition ==
  /\ Doing("position")
  /\ pos' = Head(todo).pos
  /\ Then(<<>>)
  /\ UNCHANGED <<file, values, types, self, enclosing, module, marked>>

(* visit_macro: its name, and every identifier of its input as a root.       *)
(* visit_attribute: every identifier.                                        *)
VisitTokens ==
  /\ Visiting({"macro", "attribute"})
  /\ marked' = marked \cup AsRoots(Node.tokens, At)
                 \cup (IF Node.node = "macro" THEN Mention("Other", Node.segments, At) ELSE {})
  /\ Then(<<>>)
  /\ UNCHANGED <<file, values, types, pos, self, enclosing, module>>

(* bind_value *)
Bind(frames, name) == [frames EXCEPT ![Len(frames)] = @ \cup {name}]

(* bind_pat_inner, a name: `ref x`, `mut x` and `x @ p` are bindings, a      *)
(* plain name is unless it may name an item.                                 *)
IsBinding(n) == n.forced \/ <<module, n.name>> \notin MayName

BindIdent ==
  /\ Binding({"ident"})
  /\ Positioned("Other")
  /\ \/ IsBinding(Node) /\ values' = Bind(values, Node.name) /\ UNCHANGED marked
     \/ /\ ~ IsBinding(Node) /\ UNCHANGED values
        /\ marked' = marked \cup {[at |-> At, from |-> enclosing, module |-> module]}
  /\ UNCHANGED <<file, types, self, enclosing, module>>

(* bind_pat_inner, the rest: a struct or tuple pattern is a use of its path, *)
(* a type comes before the pattern, a guard after it.                        *)
BindParts ==
  /\ Binding(Patterns \ {"ident"})
  /\ Positioned("Other")
  /\ marked' = marked \cup (IF Node.node = "unpack" THEN Mention("Other", Node.segments, At) ELSE {})
  /\ UNCHANGED <<file, values, types, self, enclosing, module>>

Next ==
  \/ VisitItem \/ VisitMod \/ VisitUse \/ VisitImpl \/ EnterMembers \/ Restore
  \/ Open \/ Close \/ VisitMember \/ VisitConstruct
  \/ VisitPath \/ LeavePosition \/ VisitTokens \/ BindIdent \/ BindParts

Spec == Init /\ [][Next]_vars

Done == todo = <<>>

-------------------------------------------------------------------------------
(* The two stacks of scopes grow and shrink together, a pattern is bound     *)
(* with one open, and the walk leaves everything as it found it: in_scope,   *)
(* with_pos, within and visit_item each restore what they set                *)
(* (src/resolve.rs:2115-2137, 2289-2303).                                    *)
TypeOK ==
  /\ Len(values) = Len(types)
  /\ pos \in {"Value", "Type", "Other"}
  /\ enclosing \subseteq Collected
  /\ Doing("bind") => values # <<>>
  /\ Done => values = <<>> /\ pos = "Other" /\ self = "" /\ enclosing = {} /\ module = "top"

(* What is recorded is every name that RustScopes has for an item's, on      *)
(* behalf of what it is written in and looked up in its module, and no name  *)
(* of a local.  A local taken too widely, into an `else`, past its block,    *)
(* over an item inside the body or in the wrong namespace, hides a use and a *)
(* live item is reported; one taken too narrowly keeps a dead one, and a use *)
(* charged to the wrong item dies with it.  Only where a pattern is in doubt *)
(* may more be recorded (src/resolve.rs:2139-2193, 2283-2515).               *)
MentionsAreExact ==
  Done => /\ Mentions(file) \subseteq marked
          /\ \A r \in marked \ Mentions(file) : InDoubt(file, r)
===============================================================================
