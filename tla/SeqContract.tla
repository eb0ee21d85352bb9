---------------------------- MODULE SeqContract ----------------------------
(***************************************************************************)
(* What the seq dialect promises: a synchronous transition system.  At the *)
(* active edge of its clock a register takes its input, reset first; an    *)
(* asynchronous reset takes effect when it is asserted; a read port takes  *)
(* the addressed word and an enabled write commits, with the collision     *)
(* policy of the memory between them.                                      *)
(***************************************************************************)
EXTENDS SeqNetlist

VARIABLES
  ops,     \* the block
  policy,  \* read_during_write of the memory
  in,      \* values of the data block arguments
  clk,     \* levels of the clocks
  rst,     \* level of the reset line
  q,       \* current value of every operation with a result
  mem      \* the memory

vars == <<ops, policy, in, clk, rst, q, mem>>

Value(v) == IF v \in Ports THEN in[v] ELSE q[v]

Init ==
  /\ ops \in Blocks
  /\ policy \in PoliciesOf(ops)
  /\ in \in [Ports -> Bit]
  /\ clk = [c \in Clocks |-> 0]
  /\ rst \in Bit
  /\ q \in [Holders(ops) -> Bit]
  /\ mem \in [Words -> Bit]

\* The write ports of clock c that commit to word a.
Writers(c, a) ==
  {w \in Writes(ops) : /\ ops[w].clock = c
                       /\ Value(ops[w].address) = a
                       /\ Value(ops[w].enable) = 1}

\* What register i holds after an active edge: reset has priority over input.
NextState(i) ==
  IF ops[i].kind = "firreg" /\ rst = ActiveLevel(ops[i])
    THEN Value(ops[i].reset_value)
    ELSE Value(ops[i].input)

\* The words read port i may deliver at an edge of c that leaves `after` in
\* the memory.
ReadData(i, c, after) ==
  LET a == Value(ops[i].address) IN
    CASE Writers(c, a) = {} \/ policy = "read-first" -> {mem[a]}
      [] Writers(c, a) # {} /\ policy = "write-first" -> {after[a]}
      [] OTHER -> Bit

\* Two ports that write one word at one edge: either may win.
Commits(c, after) ==
  \A a \in Words : IF Writers(c, a) = {} THEN after[a] = mem[a]
                   ELSE \E w \in Writers(c, a) : after[a] = Value(ops[w].data)

ActiveEdge(c) ==
  /\ clk[c] = 0
  /\ clk' = [clk EXCEPT ![c] = 1]
  /\ mem' \in [Words -> Bit] /\ Commits(c, mem')
  /\ q' \in [Holders(ops) -> Bit]
  /\ \A i \in Holders(ops) :
       CASE ops[i].clock # c -> q'[i] = q[i]
         [] ops[i].clock = c /\ i \in Registers(ops) -> q'[i] = NextState(i)
         [] ops[i].clock = c /\ i \in Reads(ops) -> q'[i] \in ReadData(i, c, mem')
  /\ UNCHANGED <<ops, policy, in, rst>>

InactiveEdge(c) ==
  /\ clk[c] = 1
  /\ clk' = [clk EXCEPT ![c] = 0]
  /\ UNCHANGED <<ops, policy, in, rst, q, mem>>

\* The reset line changes; a register it asserts asynchronously loads at once.
Reset ==
  /\ rst' = 1 - rst
  /\ q' = [i \in Holders(ops) |->
             IF /\ ops[i].kind = "firreg" /\ ops[i].async
                /\ rst' = ActiveLevel(ops[i])
               THEN Value(ops[i].reset_value)
               ELSE q[i]]
  /\ UNCHANGED <<ops, policy, in, clk, mem>>

Drive(p) ==
  /\ in' \in [Ports -> Bit]
  /\ \A o \in Ports \ {p} : in'[o] = in[o]
  /\ UNCHANGED <<ops, policy, clk, rst, q, mem>>

Next ==
  \/ \E c \in Clocks : ActiveEdge(c) \/ InactiveEdge(c)
  \/ Reset
  \/ \E p \in Ports : Drive(p)

Spec == Init /\ [][Next]_vars
=============================================================================
