--------------------------- MODULE MCHwCollection ---------------------------
(***************************************************************************)
(* Collections of two modules of up to two operations: drivers,            *)
(* declarations and memory writes of two targets, instances of both        *)
(* dialects, and writes of one memory at two addresses.                    *)
(***************************************************************************)
EXTENDS HwCollection

Operation(kind, target, name, module, address, clock) ==
  [kind |-> kind, target |-> target, name |-> name, module |-> module,
   memory |-> "mem", address |-> address, clock_or_reset |-> clock]

Drive(kind, target) == Operation(kind, target, Empty, Empty, 0, FALSE)
Instance(kind, name, module) == Operation(kind, Empty, name, module, 0, FALSE)
Write(address) == Operation("write", Empty, Empty, Empty, address, FALSE)

Top == <<"top">>
Leaf == <<"leaf">>
Other == <<"other">>

MCSymbols == {Top, Leaf}

MCOperations ==
  { Drive("assign", <<"x">>), Drive("always_ff_no_reset", <<"x">>), Drive("mem_write", <<"x">>),
    Instance("hw.instance", <<"u">>, Leaf), Instance("sv.instance", <<"u">>, Top),
    Instance("sv.instance", <<"v">>, Other), Instance("hw.instance", Empty, Leaf),
    Write(1), Write(2), Operation("assign", <<"y">>, Empty, Empty, 0, TRUE) }
=============================================================================
