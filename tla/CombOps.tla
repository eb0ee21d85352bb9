------------------------------ MODULE CombOps ------------------------------
(***************************************************************************)
(* The operations of the comb dialect and what their verifiers accept.     *)
(*                                                                         *)
(* A type is [sort, width]; an operation is seen as its name, the types of *)
(* its operands, the type of its result and its one attribute: low_bit of    *)
(* comb.extract, count of comb.replicate, predicate of comb.icmp.  The     *)
(* number of operands that NOpdsInterface fixes is verified with the rest. *)
(***************************************************************************)
EXTENDS Naturals, Sequences, SequencesExt

BinaryArithmetic ==
  {"comb.add", "comb.sub", "comb.mul", "comb.divu", "comb.divs", "comb.modu",
   "comb.mods", "comb.shl", "comb.shru", "comb.shrs"}

VariadicBitwise == {"comb.and", "comb.or", "comb.xor"}

Unary == {"comb.not", "comb.neg"}

Reductions == {"comb.any", "comb.all", "comb.parity"}

Predicates ==
  {"eq", "ne", "slt", "sle", "sgt", "sge", "ult", "ule", "ugt", "uge"}

IntType(w) == [sort |-> "signless", width |-> w]

verify_integer_type(ty) == ty.sort = "signless" /\ ty.width > 0

verify_i1(ty) == verify_integer_type(ty) /\ ty.width = 1

verify_binary_arithmetic(op) ==
  /\ Len(op.in) = 2
  /\ verify_integer_type(op.in[1]) /\ verify_integer_type(op.in[2])
  /\ op.in[1].width = op.in[2].width
  /\ verify_integer_type(op.out) /\ op.out.width = op.in[1].width

verify_unary(op) ==
  /\ Len(op.in) = 1
  /\ verify_integer_type(op.in[1])
  /\ verify_integer_type(op.out) /\ op.out.width = op.in[1].width

verify_reduction(op) ==
  Len(op.in) = 1 /\ verify_integer_type(op.in[1]) /\ verify_i1(op.out)

\* A slip: the operands after the first are not compared with it.
verify_variadic_bitwise_first(op) ==
  /\ op.in # << >>
  /\ \A i \in DOMAIN op.in : verify_integer_type(op.in[i])
  /\ verify_integer_type(op.out) /\ op.out.width = op.in[1].width

verify_variadic_bitwise(op) ==
  /\ op.in # << >>
  /\ \A i \in DOMAIN op.in : /\ verify_integer_type(op.in[i])
                             /\ op.in[i].width = op.in[1].width
  /\ verify_integer_type(op.out) /\ op.out.width = op.in[1].width

\* The branches are compared with each other and with the result, and nothing
\* else is asked of their type.
verify_mux(op) ==
  /\ Len(op.in) = 3
  /\ verify_i1(op.in[1])
  /\ op.in[2] = op.in[3] /\ op.out = op.in[2]

verify_icmp(op) ==
  /\ op.attr \in Predicates
  /\ Len(op.in) = 2
  /\ verify_integer_type(op.in[1]) /\ verify_integer_type(op.in[2])
  /\ op.in[1].width = op.in[2].width
  /\ verify_i1(op.out)

SumOf(widths) == FoldLeft(LAMBDA sum, w : sum + w, 0, widths)

TotalWidth(types) == SumOf([k \in DOMAIN types |-> types[k].width])

verify_concat(op) ==
  /\ op.in # << >>
  /\ \A i \in DOMAIN op.in : verify_integer_type(op.in[i])
  /\ verify_integer_type(op.out) /\ op.out.width = TotalWidth(op.in)

verify_extract(op) ==
  /\ Len(op.in) = 1
  /\ verify_integer_type(op.in[1]) /\ verify_integer_type(op.out)
  /\ op.attr + op.out.width <= op.in[1].width

verify_replicate(op) ==
  /\ Len(op.in) = 1
  /\ verify_integer_type(op.in[1]) /\ verify_integer_type(op.out)
  /\ op.attr > 0 /\ op.out.width = op.in[1].width * op.attr

verify(op) ==
  \/ op.name \in BinaryArithmetic /\ verify_binary_arithmetic(op)
  \/ op.name \in VariadicBitwise  /\ verify_variadic_bitwise(op)
  \/ op.name \in Unary            /\ verify_unary(op)
  \/ op.name \in Reductions       /\ verify_reduction(op)
  \/ op.name = "comb.mux"         /\ verify_mux(op)
  \/ op.name = "comb.icmp"        /\ verify_icmp(op)
  \/ op.name = "comb.concat"      /\ verify_concat(op)
  \/ op.name = "comb.extract"     /\ verify_extract(op)
  \/ op.name = "comb.replicate"   /\ verify_replicate(op)
=============================================================================
