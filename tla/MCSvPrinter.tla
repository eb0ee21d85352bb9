---------------------------- MODULE MCSvPrinter ----------------------------
(***************************************************************************)
(* The printer, asked for a module or for an expression.                   *)
(*                                                                         *)
(* Modules are over a clock, a reset, a word and a bit, with operands that *)
(* are these inputs or the results of the first two operations.            *)
(* Expressions have up to two operators over names and constants, or are   *)
(* chains of three unary operators.                                        *)
(***************************************************************************)
EXTENDS SvPrinter, SvExprPrinter

-----------------------------------------------------------------------------
(* Modules.                                                                 *)

clk == 1
rst == 2
d == 3
e == 4
first == 5     \* the result of the first operation
second == 6

MCInputs ==
  << [name |-> <<"clk">>, ty |-> Clock], [name |-> <<"rst">>, ty |-> Reset],
     [name |-> <<"d">>, ty |-> IntType(4)], [name |-> <<"e">>, ty |-> IntType(1)] >>

X == <<"x">>
Y == <<"y">>

Named(kind, target, attr, in, ty, name) ==
  [id |-> 0, kind |-> kind, target |-> target, attr |-> attr, in |-> in, ty |-> ty,
   name |-> name]

Plus(in, name) == Named("binary", NoTarget, <<"+">>, in, IntType(4), name)
Decl(kind, w) == Named(kind, X, "", << >>, IntType(w), X)
Assign(target, v, w, name) == Named("assign", target, "", <<v>>, IntType(w), name)
Memory(depth, target) == Named("mem_decl", target, "", << >>, MemOf(depth, 4), target)
ReadPort(w, mem) == Named("mem_read", X, "", <<clk, mem, e>>, IntType(w), X)

Wires ==
  {Decl("logic_decl", 4), Decl("wire_decl", 4), Decl("reg_decl", 1)}
  \cup {Assign(X, v, 4, X) : v \in {d, first}}
  \cup {Assign(Y, first, 4, n) : n \in {Y, Unnamed}}
  \cup {Assign(<<"d">>, d, 4, <<"d">>), Assign(X, e, 1, X),
        Named("assign", X, "", <<clk>>, Clock, X)}

Processes ==
  {Named("always_comb", t, "", <<v>>, NoType, Unnamed) : t \in {X, Y}, v \in {d, first}}
  \cup {Named("always_ff_no_reset", t, "", <<clk, v>>, NoType, Unnamed) : t \in {X, Y}, v \in {e, second}}
  \cup {Named("always_ff", X, "active_low", <<c, first, rst, d>>, NoType, Unnamed) : c \in {clk, e}}

Memories ==
  {Memory(2, Y), Memory(2, X), Memory(0, Y)}
  \cup {ReadPort(w, first) : w \in {4, 1}}
  \cup {Named("mem_write", X, "", <<clk, first, e, d, e>>, NoType, Unnamed)}

Others ==
  { Named("instance", Y, "child", <<second, d>>, NoType, Unnamed),
    Named("bpa", X, "", <<d>>, NoType, Unnamed), Named("nba", X, "", <<e>>, NoType, Unnamed),
    Named("case", X, "", <<e>>, NoType, Unnamed),
    Plus(<<d, d>>, Unnamed), Plus(<<first, d>>, X),
    Named("mux", NoTarget, << >>, <<e, clk, clk>>, Clock, Unnamed),
    Named("always_ff_no_reset", X, "", <<first, d>>, NoType, Unnamed),
    Named("constant", NoTarget, <<3, 4>>, << >>, IntType(4), Unnamed),
    Named("compreg", NoTarget, "", <<d, clk>>, IntType(4), X),
    Named("output", NoTarget, "", <<d>>, NoType, Unnamed),
    Named("comb", NoTarget, "", <<d, d>>, IntType(4), Unnamed) }

MCTemplates == Wires \cup Processes \cup Memories \cup Others

-----------------------------------------------------------------------------
(* Expressions.                                                             *)

Binaries == {<<"|", "|">>, <<"&">>, <<"^">>, <<"=", "=">>, <<"<">>, <<">", ">">>,
             <<"+">>, <<"-">>, <<"*">>}
Unaries == UnaryOperators

Atoms == {Name("a"), Node("constant", <<5, 32>>, << >>), Node("constant", <<5, 2>>, << >>)}

\* Every expression with the operands drawn from `x` and `y`.
Over(x, y) ==
  {Node("binary", o, <<l, r>>) : o \in Binaries, l \in x, r \in y}
  \cup {Node("unary", o, <<l>>) : o \in Unaries, l \in x}
  \cup {Node("mux", NoAttr, <<c, l, Name("d")>>) : c \in x, l \in y}
  \cup {Node("mux", NoAttr, <<Name("c"), l, r>>) : l \in x, r \in y}
  \cup {Node("concat", NoAttr, <<l, r>>) : l \in x, r \in y}
  \cup {Node("concat", NoAttr, <<l>>) : l \in x}
  \cup {Node("slice", <<1, w>>, <<l>>) : w \in 1..2, l \in x}
  \cup {Node("index", NoAttr, <<l, r>>) : l \in x, r \in y}

Flat == Over({Name("a"), Node("constant", <<3, 4>>, << >>)}, {Name("b")})

MCExprs ==
  Atoms \cup Over(Atoms, {Name("b")})
  \cup Over(Flat, {Name("b")}) \cup Over({Name("b")}, Flat)
  \cup {Node("unary", o, <<Node("unary", p, <<Node("unary", q, <<Name("a")>>)>>)>>) :
          o, p, q \in Unaries}

\* (a + b) * c.
Grouped == {Node("binary", <<"*">>, <<Node("binary", <<"+">>, <<Name("a"), Name("b")>>), Name("c")>>)}

-----------------------------------------------------------------------------
(* What it is asked for.                                                    *)

\* No expression is printed, no module is.
NoExprAsked == expr = NoTree /\ text = << >> /\ reread = NoTree /\ phase = "none"

NoModuleAsked ==
  /\ body = << >> /\ next_id = 1
  /\ pos = 0 /\ ports = << >> /\ declared_names = {} /\ declarations = << >> /\ statements = << >>
  /\ status = "none"

PrinterInit ==
  \/ Init /\ NoExprAsked
  \/ ExprInit /\ NoModuleAsked

PrinterNext ==
  \/ Next /\ UNCHANGED expr_vars
  \/ ExprNext /\ UNCHANGED vars

PrinterSpec == PrinterInit /\ [][PrinterNext]_<<vars, expr_vars>>
=============================================================================
