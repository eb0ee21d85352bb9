------------------------------- MODULE MCComb -------------------------------
(***************************************************************************)
(* The comb dialect, asked to fold an operation or to canonicalize a       *)
(* block.                                                                  *)
(*                                                                         *)
(* It folds every operation over the integer types of width 1 to MaxWidth, *)
(* and over types the verifiers must refuse.  Blocks are of two            *)
(* operations, the second of which uses the first, in either order of the  *)
(* block, over 2-bit and 1-bit values.                                     *)
(***************************************************************************)
EXTENDS CombCanonicalize, CombFold

-----------------------------------------------------------------------------
(* Operations.                                                              *)

CONSTANT MaxWidth  \* bound on the width of an operand

IntTypes == {IntType(w) : w \in 1..MaxWidth}

Types == IntTypes \cup {IntType(0), [sort |-> "signed", width |-> 2],
                        [sort |-> "clock", width |-> 1]}

Narrow == {IntType(1), IntType(2)}

Tuples(S, n) == [1..n -> S]

Ops(names, inputs, results, attrs) ==
  [name : names, in : inputs, out : results, attr : attrs]

MCOperations ==
  Ops(BinaryArithmetic, Tuples(Types, 2), Types, {0})
    \cup Ops(VariadicBitwise, Tuples(Types, 1) \cup Tuples(Types, 2) \cup Tuples(Narrow, 3),
             Types, {0})
    \cup Ops(Unary \cup Reductions, Tuples(Types, 1), Types, {0})
    \cup Ops({"comb.mux"}, Tuples(Types, 3), Types, {0})
    \cup Ops({"comb.icmp"}, Tuples(Types, 2), {IntType(1), IntType(2)}, Predicates)
    \cup Ops({"comb.concat"}, Tuples(Types, 1) \cup Tuples(Types, 2) \cup Tuples(Narrow, 3),
             {IntType(w) : w \in 1..(2 * MaxWidth)}, {0})
    \cup Ops({"comb.extract"}, Tuples(Types, 1), Types, 0..MaxWidth)
    \cup Ops({"comb.replicate"}, Tuples(Types, 1),
             {IntType(w) : w \in 1..(2 * MaxWidth)}, 0..3)

-----------------------------------------------------------------------------
(* Blocks.                                                                  *)

x == -1
c == -2

MCArgWidth == x :> 2 @@ c :> 1

\* 0, 1 and all ones; false and true.
Constants == <<Constant(2, 0), Constant(2, 1), Constant(2, 3), Constant(1, 0), Constant(1, 1)>>

Word == {1, 2, 3, x}
Bit  == {4, 5, c}

Op(names, inputs, w, attr) == [name : names, in : inputs, w : {w}, attr : {attr}]

\* The operations on the 2-bit values of W and the 1-bit values of B.
Over(W, B) ==
  Op({"comb.add", "comb.sub", "comb.mul", "comb.and", "comb.or", "comb.xor"}, W \X W, 2, 0)
    \cup Op({"comb.mux"}, B \X W \X W, 2, 0)
    \cup Op({"comb.mux"}, B \X B \X B, 1, 0)
    \cup Op({"comb.extract"}, {<<v>> : v \in W}, 2, 0)
    \cup Op({"comb.extract"}, {<<v>> : v \in W}, 1, 1)
    \cup Op({"comb.replicate"}, {<<v>> : v \in W}, 2, 1)
    \cup Op({"comb.replicate"}, {<<v>> : v \in B}, 2, 2)

\* comb.and and comb.xor on one and on three operands.
Variadic(W) ==
  Op({"comb.and", "comb.xor"}, {<<v>> : v \in W} \cup W \X W \X W, 2, 0)

First == {o \in Over(Word, Bit) : o.name = "comb.mux" => o.in[1] \in {c, 5}}

Second(w) ==
  {o \in IF w = 2 THEN Over({1, 2, 3, x, 6}, {c}) \cup Variadic({2, 3, 6})
                  ELSE Over({2, x}, {4, 5, 6}) :
     6 \in Range(o.in)}

Pairs == UNION {{<<o, p>> : p \in Second(o.w)} : o \in First}

\* The constants a pair of operations uses.
Used(pair) ==
  SelectSeq(<<1, 2, 3, 4, 5>>, LAMBDA k : k \in Range(pair[1].in) \cup Range(pair[2].in))

MCBlocks ==
  UNION {[ops : {Constants \o pair},
          block : {Used(pair) \o <<6, 7>>, Used(pair) \o <<7, 6>>},
          outputs : {<<7, 6>>}] : pair \in Pairs}

-----------------------------------------------------------------------------
(* What is asked for.                                                       *)

\* Nothing is to be folded; a block of no operations is done.
NothingToFold ==
  /\ operation = CHOOSE o \in Operations : verify(o)
  /\ operands = <<Unknown>> /\ answer = NotFolded

EmptyBlock ==
  /\ ops = << >> /\ block = << >> /\ outputs = << >> /\ todo = << >>
  /\ changed = FALSE /\ phase = "done"

CombInit ==
  \/ NothingToFold /\ Init
  \/ EmptyBlock /\ FoldInit

CombNext ==
  \/ Next /\ UNCHANGED fold_vars
  \/ FoldNext /\ UNCHANGED vars

CombSpec ==
  /\ CombInit /\ [][CombNext]_<<vars, fold_vars>>
  /\ WF_vars(Next /\ UNCHANGED fold_vars)
=============================================================================
