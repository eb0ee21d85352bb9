------------------------------- MODULE SvOps -------------------------------
(***************************************************************************)
(* The operations of the sv dialect and what their verifiers accept.       *)
(*                                                                         *)
(* An operation is seen as its kind, its target name (of an instance, its  *)
(* own name), its attribute, the types of its operands and the type of its *)
(* result.  The attribute is the operator of a unary or binary expression, *)
(* <<value, width>> of a constant, <<low, width>> of a slice, the polarity *)
(* of an always_ff and the module of an instance.                          *)
(***************************************************************************)
EXTENDS Naturals, Sequences

\* An empty name.
NoTarget == << >>

NoType == [sort |-> "none"]

IntType(w) == [sort |-> "int", width |-> w]

Clock == [sort |-> "clock"]

Reset == [sort |-> "reset"]

MemOf(depth, w) == [sort |-> "mem", depth |-> depth, width |-> w]

IsInt(ty) == ty.sort = "int"

\* Operators are the sequences of their characters.
BinaryOperators ==
  {<<"+">>, <<"-">>, <<"*">>, <<"/">>, <<"%">>, <<"<", "<">>, <<">", ">">>,
   <<">", ">", ">">>, <<"&">>, <<"|">>, <<"^">>, <<"~", "^">>, <<"^", "~">>,
   <<"=", "=">>, <<"!", "=">>, <<"<">>, <<"<", "=">>, <<">">>, <<">", "=">>,
   <<"&", "&">>, <<"|", "|">>}

UnaryOperators ==
  {<<"~">>, <<"!">>, <<"-">>, <<"&">>, <<"|">>, <<"^">>, <<"~", "&">>,
   <<"~", "|">>, <<"~", "^">>, <<"^", "~">>}

Polarities == {"active_high", "active_low"}

Declarations == {"logic_decl", "wire_decl", "reg_decl"}

Expressions == {"binary", "unary", "mux", "concat", "slice", "index", "constant"}

\* Kinds of which nothing is asked but a target.
Targeted == Declarations \cup {"always_comb", "bpa", "nba", "case"}

-----------------------------------------------------------------------------
(* The constructors.  An operation that makes no value has no result type;   *)
(* that of an assignment is the type of the value assigned.                  *)

Op(kind, target, attr, in, ty) ==
  [kind |-> kind, target |-> target, attr |-> attr, in |-> in, ty |-> ty]

LogicDeclOp(target, ty) == Op("logic_decl", target, "", << >>, ty)
WireDeclOp(target, ty) == Op("wire_decl", target, "", << >>, ty)
RegDeclOp(target, ty) == Op("reg_decl", target, "", << >>, ty)
MemDeclOp(target, ty) == Op("mem_decl", target, "", << >>, ty)

AssignOp(target, value) == Op("assign", target, "", <<value>>, value.ty)
AlwaysCombOp(target, value) == Op("always_comb", target, "", <<value>>, NoType)

AlwaysFfNoResetOp(target, clock, input) ==
  Op("always_ff_no_reset", target, "", <<clock, input>>, NoType)

AlwaysFfOp(target, clock, input, reset, reset_value, polarity) ==
  Op("always_ff", target, polarity, <<clock, input, reset, reset_value>>, NoType)

InstanceOp(name, module, inputs) == Op("instance", name, module, inputs, NoType)

\* Expression operations are the values they make.
Expr(kind, attr, in, ty) == [kind |-> kind, attr |-> attr, in |-> in, ty |-> ty]

BinaryExprOp(operator, lhs, rhs, ty) == Expr("binary", operator, <<lhs, rhs>>, ty)
UnaryExprOp(operator, val, ty) == Expr("unary", operator, <<val>>, ty)
MuxExprOp(cond, true_val, false_val, ty) == Expr("mux", << >>, <<cond, true_val, false_val>>, ty)
ConcatExprOp(inputs, ty) == Expr("concat", << >>, inputs, ty)
ConstantExprOp(value, width, ty) == Expr("constant", <<value, width>>, << >>, ty)

-----------------------------------------------------------------------------
(* The verifiers.                                                            *)

verify_instance(op) == op.target # NoTarget /\ op.attr # ""

verify_mem_decl(op) == op.target # NoTarget /\ op.ty.sort = "mem"

\* A slip: the result is not compared with the element type.
verify_mem_read_any(op) ==
  op.in[1] = Clock /\ op.in[2].sort = "mem" /\ op.target # NoTarget

verify_mem_read(op) ==
  /\ op.in[1] = Clock
  /\ op.in[2].sort = "mem" /\ op.ty = IntType(op.in[2].width)
  /\ op.target # NoTarget

verify_mem_write(op) ==
  /\ op.in[1] = Clock /\ op.in[5] = IntType(1)
  /\ op.in[2].sort = "mem" /\ op.in[4] = IntType(op.in[2].width)
  /\ op.target # NoTarget

verify_assign(op) == op.target # NoTarget /\ op.in[1] = op.ty

verify_always_ff(op) ==
  /\ op.in[1] = Clock /\ op.in[3] = Reset /\ op.in[2] = op.in[4]
  /\ op.target # NoTarget /\ op.attr \in Polarities

verify_always_ff_no_reset(op) == op.in[1] = Clock /\ op.target # NoTarget

\* The types of the operands and of the result are not looked at.
verify_binary(op) == op.attr \in BinaryOperators

verify_unary(op) == op.attr \in UnaryOperators

verify_mux(op) == op.in[1] = IntType(1) /\ op.in[2] = op.in[3] /\ op.in[2] = op.ty

\* The result is not compared with the operands.
verify_concat(op) == op.in # << >>

\* Neither the low bit nor the operand is looked at.
verify_slice(op) == op.attr[2] > 0 /\ (IsInt(op.ty) => op.ty.width = op.attr[2])

\* The value is not compared with the width.
verify_constant(op) == op.attr[2] > 0 /\ (IsInt(op.ty) => op.ty.width = op.attr[2])

verify(op) ==
  CASE op.kind \in Targeted             -> op.target # NoTarget
    [] op.kind = "instance"             -> verify_instance(op)
    [] op.kind = "mem_decl"             -> verify_mem_decl(op)
    [] op.kind = "mem_read"             -> verify_mem_read(op)
    [] op.kind = "mem_write"            -> verify_mem_write(op)
    [] op.kind = "assign"               -> verify_assign(op)
    [] op.kind = "always_ff"            -> verify_always_ff(op)
    [] op.kind = "always_ff_no_reset"   -> verify_always_ff_no_reset(op)
    [] op.kind = "binary"               -> verify_binary(op)
    [] op.kind = "unary"                -> verify_unary(op)
    [] op.kind = "mux"                  -> verify_mux(op)
    [] op.kind = "concat"               -> verify_concat(op)
    [] op.kind = "slice"                -> verify_slice(op)
    [] op.kind = "constant"             -> verify_constant(op)
    [] OTHER                            -> TRUE
=============================================================================
