-------------------------- MODULE CombCanonicalize --------------------------
(***************************************************************************)
(* canonicalize_block on the basic block of one hw.module.                 *)
(*                                                                         *)
(* An operation is [name, in, w, attr]: its operands, the width of its      *)
(* result and its attribute (of hw.constant, the value).  A value is the   *)
(* number of the operation that defines it or of a block argument.  ops     *)
(* grows with each operation created; block lists the operations in it and *)
(* outputs the operands of hw.output.  A constant passes all the rules by  *)
(* its name.                                                               *)
(***************************************************************************)
EXTENDS CombEval

CONSTANTS ArgWidth,  \* the width of each block argument
          Blocks     \* initial contents, [ops, block, outputs]

Args == DOMAIN ArgWidth

Values == Args \cup (Nat \ {0})

IsOperation(op) ==
  /\ op = [name |-> op.name, in |-> op.in, w |-> op.w, attr |-> op.attr]
  /\ op.in \in Seq(Values) /\ op.w \in Nat

TypeOf(arena, v) == IntType(IF v \in Args THEN ArgWidth[v] ELSE arena[v].w)

\* What the verifiers accept of the operations in `live`: uses of values that
\* are there, operands and results of types that go together.
Verified(arena, live, outs) ==
  /\ Range(outs) \subseteq Args \cup live
  /\ \A o \in live :
       /\ Range(arena[o].in) \subseteq Args \cup live
       /\ arena[o].name # "hw.constant" =>
            verify([name |-> arena[o].name,
                    in   |-> [k \in DOMAIN arena[o].in |-> TypeOf(arena, arena[o].in[k])],
                    out  |-> TypeOf(arena, o), attr |-> arena[o].attr])

\* Among any operations one uses no result of the others or its own.
NoLoop(arena, live) ==
  \A S \in SUBSET live : S # {} => \E o \in S : Range(arena[o].in) \cap S = {}

ASSUME ArgsAssumption == \A a \in Args : a \notin Nat /\ ArgWidth[a] \in Nat

\* The block is one that verifies, without combinational loops, and lists each
\* operation once.
ASSUME BlocksAssumption ==
  \A b \in Blocks :
    /\ b.ops \in Seq(Range(b.ops)) /\ \A op \in Range(b.ops) : IsOperation(op)
    /\ b.block \in Seq(DOMAIN b.ops) /\ IsInjective(b.block)
    /\ b.outputs \in Seq(Values)
    /\ Verified(b.ops, Range(b.block), b.outputs) /\ NoLoop(b.ops, Range(b.block))

VARIABLES ops, block, outputs,
          todo,      \* what is left of the sweep's snapshot of the block
          changed,
          phase      \* "running", "done" or "panicked"

vars == <<ops, block, outputs, todo, changed, phase>>

WidthOf(v) == IF v \in Args THEN ArgWidth[v] ELSE ops[v].w

\* get_constant_value(v) is some constant.
IsConst(v) == v \notin Args /\ ops[v].name = "hw.constant"

HasValue(v, n) == IsConst(v) /\ ops[v].attr = n

Constant(w, n) == [name |-> "hw.constant", in |-> << >>, w |-> w, attr |-> n]

-----------------------------------------------------------------------------
(* The rules.  op is an operation, as a record.                             *)

Commutative == {"comb.add", "comb.mul", "comb.and", "comb.or", "comb.xor"}

\* A slip: two constants are swapped as well.
const_first_any(op) ==
  op.name \in Commutative /\ Len(op.in) = 2 /\ IsConst(op.in[1])

const_first(op) ==
  /\ op.name \in Commutative /\ Len(op.in) = 2
  /\ IsConst(op.in[1]) /\ ~IsConst(op.in[2])

canonicalize_commutative(op) ==
  IF const_first(op) THEN [op EXCEPT !.in = <<op.in[2], op.in[1]>>] ELSE op

\* A slip: the number of operands of a variadic operation is not looked at.
Simplifies_any(op) == op.name \in Commutative /\ Len(op.in) >= 2

\* comb.and, comb.or and comb.xor take any number of operands.
Simplifies(op) == op.name \in Commutative /\ Len(op.in) = 2

Neutral(op, v) ==
  HasValue(v, CASE op.name = "comb.mul" -> 1
                [] op.name = "comb.and" -> 2^WidthOf(op.in[1]) - 1
                [] OTHER                -> 0)

Absorbing(op, v) == op.name \in {"comb.mul", "comb.and"} /\ HasValue(v, 0)

\* Both operands are read before the number of operands is looked at.
IndexPanics(op) == op.name \in VariadicBitwise /\ Len(op.in) < 2

XorSelf(op) == op.name = "comb.xor" /\ Simplifies(op) /\ op.in[1] = op.in[2]

\* The rules that answer with a value that is there already, in their order.
canonicalize_identities(op) ==
  LET lhs == op.in[1]
      rhs == op.in[2]
  IN IF Simplifies(op)
       THEN << [when |-> Neutral(op, rhs),   to |-> lhs],
               [when |-> Absorbing(op, rhs), to |-> rhs],
               [when |-> Neutral(op, lhs),   to |-> rhs],
               [when |-> Absorbing(op, lhs), to |-> lhs] >>
     ELSE IF op.name = "comb.extract"
       THEN << [when |-> op.attr = 0 /\ WidthOf(lhs) = op.w, to |-> lhs] >>
     ELSE IF op.name = "comb.replicate"
       THEN << [when |-> op.attr = 1, to |-> lhs] >>
       ELSE << >>

canonicalize_mux(op) ==
  << [when |-> op.in[2] = op.in[3], to |-> op.in[2]],
     [when |-> op.w = 1 /\ HasValue(op.in[2], 1) /\ HasValue(op.in[3], 0),
      to   |-> op.in[1]] >>

Rules(op) ==
  IF op.name = "comb.mux" THEN canonicalize_mux(op) ELSE canonicalize_identities(op)

Matching(op) == {k \in DOMAIN Rules(op) : Rules(op)[k].when}

SubOfConst(op) == op.name = "comb.sub" /\ IsConst(op.in[2])

-----------------------------------------------------------------------------
(* Editing the block.                                                       *)

Replace(s, old, new) == [k \in DOMAIN s |-> IF s[k] = old THEN new ELSE s[k]]

\* A slip: the operands of hw.output keep naming the erased operation.
ReplaceUses_ops_only(arena, old, new) ==
  /\ ops' = [k \in DOMAIN arena |-> [arena[k] EXCEPT !.in = Replace(@, old, new)]]
  /\ UNCHANGED outputs

\* replace_some_uses_with(.., |_, _| true, ..)
ReplaceUses(arena, old, new) ==
  /\ ops' = [k \in DOMAIN arena |-> [arena[k] EXCEPT !.in = Replace(@, old, new)]]
  /\ outputs' = Replace(outputs, old, new)

Position(o) == CHOOSE k \in DOMAIN block : block[k] = o

\* A slip: the new operations go to the end of the block.
InsteadOf_append(o, new) == block' = RemoveAt(block, Position(o)) \o new

\* insert_before(o) for each of new, then erase(o).
InsteadOf(o, new) ==
  LET p == Position(o)
  IN block' = SubSeq(block, 1, p - 1) \o new \o SubSeq(block, p + 1, Len(block))

-----------------------------------------------------------------------------
(* The loop.                                                                *)

Init ==
  /\ \E b \in Blocks : ops = b.ops /\ block = b.block /\ outputs = b.outputs
  /\ todo = << >>
  /\ changed = TRUE
  /\ phase = "running"

NextSweep ==
  /\ phase = "running" /\ todo = << >> /\ changed
  /\ todo' = block
  /\ changed' = FALSE
  /\ UNCHANGED <<ops, block, outputs, phase>>

Finish ==
  /\ phase = "running" /\ todo = << >> /\ ~changed
  /\ phase' = "done"
  /\ UNCHANGED <<ops, block, outputs, todo, changed>>

\* The operation visited, after its operands were put in order.
Visited == canonicalize_commutative(ops[Head(todo)])

Visit == phase = "running" /\ todo # << >> /\ todo' = Tail(todo)

Rewritten == changed' = TRUE /\ UNCHANGED phase

\* The first rule that matches gives the value that replaces the result.
VisitReplace ==
  /\ Visit
  /\ ~IndexPanics(Visited) /\ ~XorSelf(Visited)
  /\ \E k \in Matching(Visited) :
       /\ \A j \in Matching(Visited) : k <= j
       /\ ReplaceUses(ops, Head(todo), Rules(Visited)[k].to)
  /\ InsteadOf(Head(todo), << >>)
  /\ Rewritten

\* xor(x, x) becomes a new constant.
VisitXorSelf ==
  /\ Visit
  /\ XorSelf(Visited)
  /\ LET zero == Len(ops) + 1
     IN /\ ReplaceUses(Append(ops, Constant(WidthOf(Visited.in[1]), 0)), Head(todo), zero)
        /\ InsteadOf(Head(todo), <<zero>>)
  /\ Rewritten

\* canonicalize_sub_to_add
SubToAdd ==
  LET sub == Visited
      neg == Len(ops) + 1
      add == Len(ops) + 2
      arena == ops \o << Constant(WidthOf(sub.in[2]),
                                  eval_neg(Wrap(WidthOf(sub.in[2]),
                                                ops[sub.in[2]].attr)).value.v),
                         [sub EXCEPT !.name = "comb.add", !.in = <<sub.in[1], neg>>] >>
  IN /\ SubOfConst(sub)
     /\ ReplaceUses(arena, Head(todo), add)
     /\ InsteadOf(Head(todo), <<neg, add>>)

\* A slip: a rewritten subtraction does not ask for another sweep.
VisitSub_quiet == Visit /\ SubToAdd /\ UNCHANGED <<changed, phase>>

VisitSub == Visit /\ SubToAdd /\ Rewritten

\* No rule but the order of the operands.
VisitLeave ==
  /\ Visit
  /\ ~IndexPanics(Visited) /\ ~XorSelf(Visited) /\ ~SubOfConst(Visited)
  /\ Matching(Visited) = {}
  /\ ops' = [ops EXCEPT ![Head(todo)] = Visited]
  /\ changed' = (changed \/ const_first(ops[Head(todo)]))
  /\ UNCHANGED <<block, outputs, phase>>

\* get_operand(1) of an operation with one operand.
VisitPanic ==
  /\ Visit
  /\ IndexPanics(Visited)
  /\ phase' = "panicked"
  /\ UNCHANGED <<ops, block, outputs, changed>>

Returned == phase # "running" /\ UNCHANGED vars

Next ==
  \/ NextSweep \/ Finish
  \/ VisitReplace \/ VisitXorSelf \/ VisitSub \/ VisitLeave \/ VisitPanic
  \/ Returned

Spec == Init /\ [][Next]_vars /\ WF_vars(Next)

-----------------------------------------------------------------------------
(* Properties.                                                              *)

Live == Range(block)

\* Between any two rewrites the block is one the verifiers accept, no use is
\* left of an operation that was erased, and the snapshot of the sweep names no
\* erased operation (so the code's test for one never fails).
WellFormed == Verified(ops, Live, outputs) /\ Range(todo) \subseteq Live

\* The assignments of a bit pattern to every argument.
Inputs ==
  {env \in [Args -> 0..(2^Max(Range(ArgWidth)) - 1)] : \A a \in Args : env[a] < 2^ArgWidth[a]}

\* What the outputs carry when the arguments carry env.  The recursion ends
\* because combinational loops are illegal, whatever the order of the block.
OutputsFor(env) ==
  LET value[v \in Args \cup DOMAIN ops] ==
        CASE v \in Args -> Wrap(ArgWidth[v], env[v])
          [] IsConst(v) -> Wrap(ops[v].w, ops[v].attr)
          [] OTHER      -> Evaluate(ops[v].name, ops[v].attr, ops[v].w,
                             [k \in DOMAIN ops[v].in |-> value[ops[v].in[k]]]).value
  IN [k \in DOMAIN outputs |-> value[outputs[k]]]

\* No rewrite changes what the module computes: "Constant folding and identity
\* simplification preserve bit-level values identically across all possible
\* input bit patterns" (docs/order_preservation_and_transformations.md:46).
ValuesPreserved ==
  [][\A env \in Inputs : OutputsFor(env)' = OutputsFor(env)]_<<ops, outputs>>

\* The operands of each operation are defined before it.
InOrder ==
  \A k \in DOMAIN block :
    Range(ops[block[k]].in) \subseteq Args \cup {block[j] : j \in 1..(k - 1)}

\* A block in which definitions precede their uses stays one, the constants and
\* additions the rewrites create included ("provided all inputs dominate (or
\* causally precede) their uses", the same document, line 45).
OrderPreserved == [][InOrder => InOrder']_vars

\* No constant is left of an operand that is not one, nothing subtracts a constant,
\* no mux has one branch twice or spells its condition, and no neutral element is
\* added, or-ed or multiplied.
Canonical(o) ==
  LET op == ops[o]
      Is(k, n) == op.in[k] \notin Args /\ ops[op.in[k]] = Constant(op.w, n)
      Fixed(k) == op.in[k] \notin Args /\ ops[op.in[k]].name = "hw.constant"
  IN /\ op.name \in Commutative /\ Len(op.in) = 2 => (Fixed(1) => Fixed(2))
     /\ op.name = "comb.sub" => ~Fixed(2)
     /\ op.name = "comb.mux" => op.in[2] # op.in[3] /\ (op.w = 1 => ~(Is(2, 1) /\ Is(3, 0)))
     /\ op.name \in {"comb.add", "comb.or", "comb.xor"} /\ Len(op.in) = 2 =>
          ~Is(1, 0) /\ ~Is(2, 0)
     /\ op.name = "comb.mul" => ~Is(1, 1) /\ ~Is(2, 1)

\* The canonical form promised at canonicalization.rs:3-7, of the whole block
\* when the loop ends.
CanonicalForm == phase = "done" => \A o \in Live : Canonical(o)

\* The loop "while changed" ends on every block, and ends normally unless comb.and,
\* comb.or or comb.xor has one operand, which the verifiers accept and the identity
\* rules do not expect.
Terminates ==
  <>(\/ phase = "done"
     \/ /\ phase = "panicked"
        /\ \E o \in Range(block) :
             ops[o].name \in {"comb.and", "comb.or", "comb.xor"} /\ Len(ops[o].in) = 1)
=============================================================================
