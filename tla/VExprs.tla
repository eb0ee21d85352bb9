------------------------------- MODULE VExprs -------------------------------
(***************************************************************************)
(* lower_expression of the SystemVerilog front end.                        *)
(*                                                                         *)
(* A source expression is a node of the concrete syntax tree: its kind,    *)
(* its attribute and the expressions in it.  "paren", "name", "number",    *)
(* "literal" ('0, a string, a time), "index" (a[i]), "range" (a[7:4]),     *)
(* "call" (of a function, its arguments inside) and "repeat" ({n{a, b}})   *)
(* are the primaries.  The lowerer looks for the first node of a kind      *)
(* anywhere in the tree, in pre-order, and tries the kinds in a fixed      *)
(* order, so it need not start at the root.  What it makes is a tree of sv *)
(* operations with their result types.                                     *)
(***************************************************************************)
EXTENDS SvOps, VNumbers, SequencesExt

CONSTANT Exprs  \* the expressions of the source, with those inside them

Node(kind, attr, in) == [kind |-> kind, attr |-> attr, in |-> in]

NoAttr == << >>

\* No expression: a connection left empty, a search without result.
NoExpr == Node("none", NoAttr, << >>)

\* A value is the expression operation that makes it, or a name of the scope.
Named(name, ty) == Expr("name", name, << >>, ty)

\* An expression that cannot be lowered.
Unresolved == Expr("error", NoAttr, << >>, NoType)

Primaries == {"paren", "name", "number", "literal", "index", "range", "call", "repeat"}

\* How many expressions an operator is written with; those of a concatenation, of a
\* call and of an index are as many as there are.
Arity(kind) ==
  CASE kind \in {"binary", "range", "repeat"} -> 2
    [] kind \in {"unary", "paren"}             -> 1
    [] kind = "mux"                            -> 3
    [] OTHER                                   -> 0

\* The bounds of a part-select are constants, here plain numbers.
IsExpr(e) ==
  /\ e.kind \in Primaries \cup {"binary", "unary", "mux", "concat"}
  /\ e.in \in Seq(Exprs)
  /\ e.kind \notin {"concat", "call", "index"} => Len(e.in) = Arity(e.kind)
  /\ e.kind = "number" => IsLiteral(e.attr)
  /\ e.kind = "range" => e.in[1].kind = "number" /\ e.in[2].kind = "number"
  /\ e.kind = "repeat" => e.in[2].kind = "concat"

\* The levels of expressions below this one.
Height[e \in Exprs] ==
  IF e.in = << >> THEN 0 ELSE 1 + Max({Height[e.in[k]] : k \in DOMAIN e.in})

\* A syntax tree: no expression is inside itself.
ASSUME ExprsAssumption ==
  \A e \in Exprs : /\ IsExpr(e)
                   /\ Height[e] \in Nat
                   /\ \A k \in DOMAIN e.in : Height[e.in[k]] < Height[e]

\* The first node of one of the kinds in pre-order, given those inside the
\* expressions of e.
First(e, kinds, found) ==
  IF e.kind \in kinds THEN e
  ELSE LET holding == {k \in DOMAIN e.in : found[e.in[k]] # NoExpr}
       IN IF holding = {} THEN NoExpr ELSE found[e.in[Min(holding)]]

\* unwrap_node!
unwrap_node(e, kinds) ==
  LET found[x \in Exprs] == First(x, kinds, found) IN First(e, kinds, found)

HasKind(e, kinds) == unwrap_node(e, kinds) # NoExpr

resolve_val(scope, name) ==
  IF name \in DOMAIN scope THEN scope[name] ELSE Unresolved

SumWidths(values) ==
  FoldLeft(LAMBDA sum, v : sum + (IF IsInt(v.ty) THEN v.ty.width ELSE 1), 0, values)

AllResolved(values) == \A k \in DOMAIN values : values[k] # Unresolved

\* The operands from left to right, then the operation; `lower` is what every
\* expression is lowered to.
Lowered(in, lower, Make(_)) ==
  LET values == [k \in DOMAIN in |-> lower[in[k]]]
  IN IF AllResolved(values) THEN Make(values) ELSE Unresolved

\* A binary operation has the type of its left operand, a comparison too.
lower_binary_expression(e, lower) ==
  Lowered(e.in, lower, LAMBDA v : BinaryExprOp(e.attr, v[1], v[2], v[1].ty))

lower_unary_expression(e, lower) ==
  Lowered(e.in, lower, LAMBDA v : UnaryExprOp(e.attr, v[1], v[1].ty))

lower_conditional_expression(e, lower) ==
  Lowered(e.in, lower, LAMBDA v : MuxExprOp(v[1], v[2], v[3], v[2].ty))

lower_concatenation(e, lower) ==
  Lowered(e.in, lower, LAMBDA v : ConcatExprOp(v, IntType(SumWidths(v))))

\* The attribute of a number is the literal.
lower_number_literal(e) ==
  LET n == parse_number_literal(Text(e.attr)) IN
    ConstantExprOp(int_attr(n.width, n.value), n.width, IntType(n.width))

\* The first expression inside comes before the name and before its selects, so that
\* those are never reached; a literal that is no number is not supported.
lower_primary(e, scope, lower) ==
  IF e.in # << >> THEN lower[e.in[1]]
  ELSE IF e.kind = "number" THEN lower_number_literal(e)
  ELSE IF e.kind = "literal" THEN Unresolved
  ELSE resolve_val(scope, e.attr)

\* The body of lower_expression, which calls itself as `lower`.
LowerNode(e, scope, lower) ==
  IF HasKind(e, {"binary"}) THEN lower_binary_expression(unwrap_node(e, {"binary"}), lower)
  ELSE IF HasKind(e, {"unary"}) THEN lower_unary_expression(unwrap_node(e, {"unary"}), lower)
  ELSE IF HasKind(e, {"mux"}) THEN lower_conditional_expression(unwrap_node(e, {"mux"}), lower)
  ELSE IF HasKind(e, {"concat"}) THEN lower_concatenation(unwrap_node(e, {"concat"}), lower)
  ELSE lower_primary(unwrap_node(e, Primaries), scope, lower)

lower_expression(e, scope) ==
  LET lower[x \in Exprs] == LowerNode(x, scope, lower) IN LowerNode(e, scope, lower)

-----------------------------------------------------------------------------
(* What the source says.                                                    *)

\* The names an expression reads, given those that the expressions inside it read.
Names(e, inside) ==
  (IF e.kind \in {"name", "index", "range", "call"} THEN {e.attr} ELSE {})
  \cup UNION {inside[e.in[k]] : k \in DOMAIN e.in}

NamesOf[e \in Exprs] == Names(e, NamesOf)
=============================================================================
