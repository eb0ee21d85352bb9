----------------------------- MODULE CombEval ------------------------------
(***************************************************************************)
(* The evaluators of the comb dialect and fold_comb_op.                    *)
(*                                                                         *)
(* An APInt is [bw, v] with v in 0..2^bw - 1; its arithmetic (wrap-around, *)
(* truncating signed division, shifts that run out of bits) belongs to a   *)
(* library and is given by Wrap, Signed, Quotient and the shifts below.    *)
(* What the evaluators build bit by bit out of masks is built bit by bit   *)
(* here.  A Result is [err, value], with err "none" for Ok.                *)
(***************************************************************************)
EXTENDS CombOps, Integers, FiniteSetsExt

Wrap(w, n) == [bw |-> w, v |-> n % 2^w]

Signed(x) == IF x.v >= 2^(x.bw - 1) THEN x.v - 2^x.bw ELSE x.v

Quotient(a, b) ==
  LET q == (IF a < 0 THEN -a ELSE a) \div (IF b < 0 THEN -b ELSE b)
  IN IF (a < 0) = (b < 0) THEN q ELSE -q

Remainder(a, b) == a - Quotient(a, b) * b

Least(a, b) == IF a < b THEN a ELSE b

\* val.and(1 << i) is not zero.
BitSet(x, i) == (x.v \div 2^i) % 2 = 1

PowerSum(bits) == MapThenSumSet(LAMBDA i : 2^i, bits)

\* The number of width w with those bits set.
FromBits(w, bits) == [bw |-> w, v |-> PowerSum(bits)]

Ok(x) == [err |-> "none", value |-> x]

Err(e) == [err |-> e, value |-> Wrap(1, 0)]

Truth(b) == Ok(Wrap(1, IF b THEN 1 ELSE 0))

-----------------------------------------------------------------------------
(* The evaluators.                                                          *)

\* eval_add, eval_sub, eval_mul and the shifts, which differ in one call.
eval_wrapping(name, lhs, rhs) ==
  IF lhs.bw # rhs.bw THEN Err("BitWidthMismatch")
  ELSE LET w == lhs.bw
           s == Least(rhs.v, w)
       IN Ok(CASE name = "comb.add"  -> Wrap(w, lhs.v + rhs.v)
               [] name = "comb.sub"  -> Wrap(w, lhs.v - rhs.v)
               [] name = "comb.mul"  -> Wrap(w, lhs.v * rhs.v)
               [] name = "comb.shl"  -> Wrap(w, lhs.v * 2^s)
               [] name = "comb.shru" -> Wrap(w, lhs.v \div 2^s)
               [] name = "comb.shrs" -> Wrap(w, Signed(lhs) \div 2^s))

eval_division(name, lhs, rhs) ==
  IF lhs.bw # rhs.bw THEN Err("BitWidthMismatch")
  ELSE IF rhs.v = 0
    THEN Err(IF name \in {"comb.divu", "comb.divs"} THEN "DivisionByZero"
                                                    ELSE "RemainderByZero")
  ELSE Ok(CASE name = "comb.divu" -> Wrap(lhs.bw, lhs.v \div rhs.v)
            [] name = "comb.divs" -> Wrap(lhs.bw, Quotient(Signed(lhs), Signed(rhs)))
            [] name = "comb.modu" -> Wrap(lhs.bw, lhs.v % rhs.v)
            [] name = "comb.mods" -> Wrap(lhs.bw, Remainder(Signed(lhs), Signed(rhs))))

\* eval_and, eval_or, eval_xor: the fold over the operands, bit by bit.
eval_bitwise(name, inputs) ==
  IF inputs = << >> THEN Err("EmptyOperands")
  ELSE IF \E k \in DOMAIN inputs : inputs[k].bw # inputs[1].bw
    THEN Err("BitWidthMismatch")
  ELSE LET Holding(i) == {k \in DOMAIN inputs : BitSet(inputs[k], i)}
           bit(i) == CASE name = "comb.and" -> Holding(i) = DOMAIN inputs
                       [] name = "comb.or"  -> Holding(i) # {}
                       [] name = "comb.xor" -> Cardinality(Holding(i)) % 2 = 1
       IN Ok(FromBits(inputs[1].bw, {i \in 0..(inputs[1].bw - 1) : bit(i)}))

eval_not(val) == Ok(FromBits(val.bw, {i \in 0..(val.bw - 1) : ~BitSet(val, i)}))

eval_neg(val) == Ok(Wrap(val.bw, 0 - val.v))

eval_any(val) == Truth(val.v # 0)

eval_all(val) == Truth(val.v = 2^val.bw - 1)

eval_parity(val) ==
  Truth(Cardinality({i \in 0..(val.bw - 1) : BitSet(val, i)}) % 2 = 1)

eval_icmp(pred, lhs, rhs) ==
  IF lhs.bw # rhs.bw THEN Err("BitWidthMismatch")
  ELSE Truth(CASE pred = "eq"  -> lhs = rhs
               [] pred = "ne"  -> lhs # rhs
               [] pred = "slt" -> Signed(lhs) < Signed(rhs)
               [] pred = "sle" -> Signed(lhs) <= Signed(rhs)
               [] pred = "sgt" -> Signed(lhs) > Signed(rhs)
               [] pred = "sge" -> Signed(lhs) >= Signed(rhs)
               [] pred = "ult" -> lhs.v < rhs.v
               [] pred = "ule" -> lhs.v <= rhs.v
               [] pred = "ugt" -> lhs.v > rhs.v
               [] pred = "uge" -> lhs.v >= rhs.v)

eval_mux(cond, true_val, false_val) ==
  IF cond.bw # 1 \/ true_val.bw # false_val.bw THEN Err("BitWidthMismatch")
  ELSE Ok(IF cond.v # 0 THEN true_val ELSE false_val)

\* The sum of the widths of the first n inputs.
WidthUpTo(inputs, n) == SumOf([k \in 1..n |-> inputs[k].bw])

\* A slip: the first operand ends up in the low bits.
eval_concat_low_first(inputs) ==
  IF inputs = << >> THEN Err("EmptyOperands")
  ELSE LET total_width == WidthUpTo(inputs, Len(inputs))
           shift_offset(k) == WidthUpTo(inputs, k - 1)
           bits(k) == {b \in 0..(inputs[k].bw - 1) : BitSet(inputs[k], b)}
       IN Ok(FromBits(total_width,
                      UNION {{shift_offset(k) + b : b \in bits(k)} : k \in DOMAIN inputs}))

\* The first operand in the high bits.
eval_concat(inputs) ==
  IF inputs = << >> THEN Err("EmptyOperands")
  ELSE LET total_width == WidthUpTo(inputs, Len(inputs))
           shift_offset(k) == total_width - WidthUpTo(inputs, k)
           bits(k) == {b \in 0..(inputs[k].bw - 1) : BitSet(inputs[k], b)}
       IN Ok(FromBits(total_width,
                      UNION {{shift_offset(k) + b : b \in bits(k)} : k \in DOMAIN inputs}))

eval_extract(val, low_bit, width) ==
  IF width = 0 THEN Err("ZeroWidth")
  ELSE IF low_bit + width > val.bw THEN Err("OutOfBounds")
  ELSE Ok(FromBits(width, {i \in 0..(width - 1) : BitSet(val, low_bit + i)}))

eval_replicate(val, count) ==
  IF count = 0 THEN Err("ZeroWidth")
  ELSE LET w == val.bw * count
       IN Ok(FromBits(w, {i \in 0..(w - 1) : BitSet(val, i % val.bw)}))

\* The arm of fold_comb_op for one operation; `attr` is its attribute and
\* res_w the width of its result type.
Evaluate(name, attr, res_w, opds) ==
  CASE name \in {"comb.divu", "comb.divs", "comb.modu", "comb.mods"}
                              -> eval_division(name, opds[1], opds[2])
    [] name \in {"comb.add", "comb.sub", "comb.mul", "comb.shl", "comb.shru", "comb.shrs"}
                              -> eval_wrapping(name, opds[1], opds[2])
    [] name \in VariadicBitwise -> eval_bitwise(name, opds)
    [] name = "comb.not"       -> eval_not(opds[1])
    [] name = "comb.neg"       -> eval_neg(opds[1])
    [] name = "comb.any"       -> eval_any(opds[1])
    [] name = "comb.all"       -> eval_all(opds[1])
    [] name = "comb.parity"    -> eval_parity(opds[1])
    [] name = "comb.mux"       -> eval_mux(opds[1], opds[2], opds[3])
    [] name = "comb.icmp"      -> eval_icmp(attr, opds[1], opds[2])
    [] name = "comb.concat"    -> eval_concat(opds)
    [] name = "comb.extract"   -> eval_extract(opds[1], attr, res_w)
    [] name = "comb.replicate" -> eval_replicate(opds[1], attr)
    [] OTHER                   -> Err("UnsupportedOperation")

Undefined == {"DivisionByZero", "RemainderByZero"}
=============================================================================
