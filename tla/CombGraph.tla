----------------------------- MODULE CombGraph -----------------------------
(***************************************************************************)
(* The body of one hw.module as the combinational cycle check sees it.     *)
(*                                                                         *)
(* The block holds N operations, numbered in block order.  name[o] is the  *)
(* operation's opid and operands[o] lists, for each operand, the operation *)
(* that defines it; Arg stands for an operand no operation defines (a      *)
(* block argument).  An hw.module is a graph region, so an operand may be  *)
(* defined by a later operation, or by the operation itself.               *)
(*                                                                         *)
(* The code compares Operation::get_opid(op).name with "comb." and with    *)
(* "hw.concat", so the name is taken to be the qualified one.              *)
(***************************************************************************)
EXTENDS Naturals, Sequences

CONSTANTS N,            \* number of operations in the block
          MaxOperands,  \* most operands an operation has
          Names         \* opids the operations are drawn from

ASSUME SizeAssumption == N \in Nat /\ MaxOperands \in Nat

Ops == 1..N

\* Value::defining_op of a block argument: none.
Arg == 0

OperandLists == UNION {[1..m -> Ops \cup {Arg}] : m \in 0..MaxOperands}

\* The operations the comb dialect registers, all named "comb.*".
CombDialect ==
  {"comb.add", "comb.sub", "comb.mul", "comb.divu", "comb.divs", "comb.modu",
   "comb.mods", "comb.shl", "comb.shru", "comb.shrs", "comb.and", "comb.or",
   "comb.xor", "comb.not", "comb.neg", "comb.any", "comb.all", "comb.parity",
   "comb.mux", "comb.icmp", "comb.concat", "comb.extract", "comb.replicate"}

\* The hw operations the check lists by name.
ListedRouting ==
  {"hw.concat", "hw.slice", "hw.bitcast", "hw.struct_create",
   "hw.struct_extract", "hw.union_create", "hw.union_extract",
   "hw.array_create", "hw.array_slice", "hw.array_get"}

\* A slip: storage is followed as if it were combinational.
storage_too(opid) == opid \in CombDialect \cup ListedRouting \cup {"seq.compreg"}

is_combinational_op(opid) == opid \in CombDialect \cup ListedRouting

\* hw operations that pass a value through with no storage and that the check
\* does not list.
UnlistedRouting ==
  {"hw.wire", "hw.array_concat", "hw.array_inject", "hw.struct_inject",
   "hw.struct_explode"}

\* Defining operations among o's operands.
Inputs(operands, o) == {operands[o][k] : k \in 1..Len(operands[o])}

CombSet(name) == {o \in Ops : is_combinational_op(name[o])}

ZeroLatency(name) ==
  {o \in Ops : name[o] \in CombDialect \cup ListedRouting \cup UnlistedRouting}

(***************************************************************************)
(* A closed dependency loop within the operations S: a non-empty part of S *)
(* every member of which takes an operand from that part.  In a finite     *)
(* graph this is the existence of a directed cycle.                        *)
(***************************************************************************)
HasLoop(operands, S) ==
  \E L \in SUBSET S : L # {} /\ \A o \in L : Inputs(operands, o) \cap L # {}

\* C holds the operands that operation o and the members of C have in S.
Feeds(operands, S, o, C) ==
  \A x \in C \cup {o} : Inputs(operands, x) \cap S \subseteq C

\* Where operands lead from o through operations of S: what every such C holds.
Upstream(operands, S, o) ==
  {d \in S : \A C \in SUBSET S : Feeds(operands, S, o, C) => d \in C}

\* A path of operands leads from o back to o.
OnLoop(operands, S, o) == o \in Upstream(operands, S, o)
=============================================================================
