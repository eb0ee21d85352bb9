--------------------------- MODULE MCSvProcesses ---------------------------
(***************************************************************************)
(* SvProcesses on every pair of registers (chains, swaps and self-loops,   *)
(* both reset styles and polarities, named and unnamed, two clocks), and   *)
(* on every three ports and registers around one memory (ports that        *)
(* collide on a word, writes that store what another port reads, read      *)
(* results named so that a reader finds them, and ones nobody reads).      *)
(***************************************************************************)
EXTENDS SvProcesses

MCPorts == {8, 9}
MCNames == {NoName, <<"given", 1>>, <<"given", 2>>}
MCInputs == {1, 2, 8}

PlainRegisters == {CompReg(c, v, n) : c \in Clocks, v \in MCInputs, n \in MCNames}

ResetRegisters ==
  {FirReg("a", v, 9, async, polarity, n) :
     v \in MCInputs, async \in BOOLEAN, polarity \in {"active_high", "active_low"},
     n \in MCNames}

RegisterPairs == [1..2 -> PlainRegisters \cup ResetRegisters]

MemoryOperations ==
  {MemRead("a", 8, n) : n \in {NoName, <<"read_data_", 0>>}}
  \cup {MemWrite("a", a, d, 9) : a \in MCPorts, d \in {1, 8, 9}}
  \cup {CompReg("a", 1, <<"given", 1>>)}

AroundMemory == [1..3 -> MemoryOperations]

MCCandidates == RegisterPairs \cup AroundMemory
=============================================================================
