----------------------------- MODULE SeqNetlist -----------------------------
(***************************************************************************)
(* The seq operations of one hw.module body: registers, and the ports of   *)
(* one memory.                                                             *)
(*                                                                         *)
(* `ops` is the block in order; an operation is identified by its          *)
(* position.  An operand is a position (the current result of that         *)
(* operation) or a member of Ports (a block argument).  A datapath between *)
(* two storage operations is left out: it samples its leaves at the same   *)
(* moment a direct connection would.                                       *)
(***************************************************************************)
EXTENDS Naturals, Sequences, FiniteSets

CONSTANTS Candidates,  \* sequences of operations, from which blocks are drawn
          Ports,       \* data block arguments, numbers above every position
          Clocks,      \* !seq.clock block arguments
          Policies     \* read_during_write attributes of the memory

Bit == {0, 1}

\* Words of the memory; an operand's value is its address.
Words == Bit

CompReg(clock, input, name) ==
  [kind |-> "compreg", clock |-> clock, input |-> input, name |-> name]

FirReg(clock, input, reset_value, async, polarity, name) ==
  [kind |-> "firreg", clock |-> clock, input |-> input,
   reset_value |-> reset_value, async |-> async, polarity |-> polarity,
   name |-> name]

MemRead(clock, address, name) ==
  [kind |-> "read", clock |-> clock, address |-> address, name |-> name]

MemWrite(clock, address, data, enable) ==
  [kind |-> "write", clock |-> clock, address |-> address, data |-> data,
   enable |-> enable]

\* The value operands of an operation; the clock and the reset are not data.
Operands(op) ==
  CASE op.kind = "compreg" -> {op.input}
    [] op.kind = "firreg"  -> {op.input, op.reset_value}
    [] op.kind = "read"    -> {op.address}
    [] op.kind = "write"   -> {op.address, op.data, op.enable}

Registers(ops) == {i \in DOMAIN ops : ops[i].kind \in {"compreg", "firreg"}}
Reads(ops)     == {i \in DOMAIN ops : ops[i].kind = "read"}
Writes(ops)    == {i \in DOMAIN ops : ops[i].kind = "write"}

\* The operations with a result, which is their current stored value.
Holders(ops) == Registers(ops) \cup Reads(ops)

\* SSA: an operand is a block argument or the result of an operation of the
\* block, a later one included (a graph region).
WellFormed(ops) ==
  \A i \in DOMAIN ops : Operands(ops[i]) \subseteq Ports \cup Holders(ops)

Blocks == {ops \in Candidates : WellFormed(ops)}

\* What the operation types of the dialect guarantee of a block, and that a block
\* argument and the result of an operation are two values.
ASSUME CandidatesAssumption ==
  \A ops \in Candidates : \A i \in DOMAIN ops :
    /\ i \notin Ports
    /\ ops[i].kind \in {"compreg", "firreg", "read", "write"}
    /\ ops[i].clock \in Clocks
    /\ ops[i].kind = "firreg" => ops[i].async \in BOOLEAN

\* The policies of the memory of a block, if it has one.
PoliciesOf(ops) == IF Reads(ops) \cup Writes(ops) = {} THEN {"none"} ELSE Policies

\* The level at which a reset line asserts a register's reset.
ActiveLevel(op) == IF op.polarity = "active_high" THEN 1 ELSE 0
=============================================================================
