----------------------------- MODULE CombFold ------------------------------
(***************************************************************************)
(* fold_comb_op on one operation that the verifier accepts.  An operand is *)
(* an APInt when an hw.constant defines it.                                *)
(***************************************************************************)
EXTENDS CombEval

CONSTANT Operations  \* [name, in, out, attr], well typed or not

\* What the fields of an operation are, whatever its verifier says: a bit
\* position and a count are unsigned.
OperandTypes == [sort : STRING, width : Nat]

ASSUME OperationsAssumption ==
  \A o \in Operations :
    /\ o.in \in Seq(OperandTypes) /\ o.out \in OperandTypes
    /\ o.name \in {"comb.extract", "comb.replicate"} => o.attr \in Nat

VARIABLES operation, operands, answer

fold_vars == <<operation, operands, answer>>

Pending == Err("pending")

\* Ok(None).
NotFolded == Err("not folded")

Unknown == [bw |-> 0, v |-> 0]

\* get_constant_value of an operand of type ty.  The verifier of hw.constant
\* gives the attribute the width of its type.
ConstantsOf(ty) ==
  {Unknown} \cup IF ty.sort \in {"signless", "signed"} /\ ty.width > 0
                   THEN {[bw |-> ty.width, v |-> n] : n \in 0..(2^ty.width - 1)}
                   ELSE {}

FoldInit ==
  /\ operation \in {o \in Operations : verify(o)}
  /\ LET in == operation.in
         All == UNION {ConstantsOf(in[k]) : k \in DOMAIN in}
     IN operands \in {s \in [1..Len(in) -> All] : \A k \in DOMAIN in : s[k] \in ConstantsOf(in[k])}
  /\ answer = Pending

\* A slip: division by zero folds to the all-ones result of a hardware divider.
fold_comb_op_guess ==
  /\ answer = Pending
  /\ answer' = IF \E k \in DOMAIN operands : operands[k] = Unknown THEN NotFolded
               ELSE LET r == Evaluate(operation.name, operation.attr, operation.out.width, operands)
                    IN IF r.err \in Undefined THEN Ok(Wrap(operation.out.width, -1)) ELSE r
  /\ UNCHANGED <<operation, operands>>

\* An operand that is not constant, or an undefined result, leaves the
\* operation as it is.
fold_comb_op ==
  /\ answer = Pending
  /\ answer' = IF \E k \in DOMAIN operands : operands[k] = Unknown THEN NotFolded
               ELSE LET r == Evaluate(operation.name, operation.attr, operation.out.width, operands)
                    IN IF r.err \in Undefined THEN NotFolded ELSE r
  /\ UNCHANGED <<operation, operands>>

Answered == answer # Pending /\ UNCHANGED fold_vars

FoldNext == fold_comb_op \/ Answered

FoldSpec == FoldInit /\ [][FoldNext]_fold_vars

-----------------------------------------------------------------------------
(* Properties.                                                              *)

Known == answer # Pending /\ \A k \in DOMAIN operands : operands[k] # Unknown

\* What the verifiers accept, the evaluators can fold: an accepted operation on
\* constants never makes fold_comb_op fail, the folded value has the width of
\* the result type, and only a zero divisor stops it ("must not be
\* constant-folded to a guessed value", docs/comb_dialect.md).
VerifiedFolds ==
  Known =>
    IF operation.name \in {"comb.divu", "comb.divs", "comb.modu", "comb.mods"} /\ operands[2].v = 0
      THEN answer = NotFolded
      ELSE answer.err = "none" /\ answer.value.bw = operation.out.width

\* The number the operands spell, most significant first.
Spelled(s) == FoldLeft(LAMBDA n, x : n * 2^x.bw + x.v, 0, s)

\* The results eval.rs builds one bit at a time are the numbers the dialect
\* defines: concatenation spells its operands from high to low, replication
\* spells copies, a slice is a quotient modulo its width, and the parity of a
\* value is the exclusive or of its low bit and the parity of the rest.
BitsExact ==
  Known /\ answer.err = "none" =>
    CASE operation.name = "comb.concat"    -> answer.value.v = Spelled(operands)
      [] operation.name = "comb.replicate" -> answer.value.v = Spelled([k \in 1..operation.attr |-> operands[1]])
      [] operation.name = "comb.extract"   -> answer.value.v = (operands[1].v \div 2^operation.attr) % 2^operation.out.width
      [] operation.name = "comb.parity"    ->
           LET low == eval_extract(operands[1], 0, 1).value
               x   == operands[1]
           IN x.bw > 1 =>
                answer = eval_bitwise("comb.xor",
                           <<low, eval_parity(eval_extract(x, 1, x.bw - 1).value).value>>)
      [] OTHER -> TRUE
=============================================================================
