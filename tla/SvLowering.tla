----------------------------- MODULE SvLowering -----------------------------
(***************************************************************************)
(* lower_module and lower_module_registers, called again and again on one  *)
(* hw.module, and the validation of what they leave behind.                *)
(*                                                                         *)
(* The calls insert sv operations before hw.output, keep the seq           *)
(* operations they came from, and work in passes: every register is        *)
(* planned and then emitted, every memory declared, every memory port      *)
(* planned and then emitted.  A failing pass leaves the earlier ones in    *)
(* the module.                                                             *)
(***************************************************************************)
EXTENDS HwValidation, SequencesExt

CONSTANTS Sources,   \* operations the body is drawn from before the first call
          MaxSources,
          MaxCalls   \* bound on the calls

ASSUME BoundAssumption == MaxSources \in Nat

\* A call finds no sv state in the body that an earlier call did not make.
ASSUME SourcesAssumption ==
  \A op \in Sources :
    op.kind \notin {"output", "always_ff", "always_ff_no_reset", "mem_decl", "mem_read", "mem_write"}

VARIABLES
  body,           \* the block; an operation is identified by its position
  pass,           \* where the running call is, "idle" between calls
  entry,          \* which function was called
  plans,          \* operations the pass still has to insert, as a set: it inserts
                  \* them in the order of their sources
  memory_values,  \* source memory -> the mem_decl inserted for it
  converted,      \* registers and ports inserted by this call
  answer,         \* result of the last call; an Ok holds `converted`
  calls

vars == <<body, pass, entry, plans, memory_values, converted, answer, calls>>

\* The memory operand of a port whose memory is a block argument.
BlockArg == 0

NoName == << >>

RegisterKinds == {"compreg", "firreg"}
PortKinds == {"read", "write"}
EmittedKinds == {"always_ff", "always_ff_no_reset", "mem_decl", "mem_read", "mem_write"}

Positions(kinds) == {i \in DOMAIN body : body[i].kind \in kinds}

\* The plan whose turn it is.
Due(plan) == plan \in plans /\ \A other \in plans : plan.source <= other.source

\* How many operations of S come before i: the running ordinal of a pass.
Ordinal(i, S) == Cardinality({j \in S : j < i})

HasOutput == Positions({"output"}) # {}

output == CHOOSE i \in Positions({"output"}) : \A j \in Positions({"output"}) : i <= j

\* A slip: after the terminator instead of before it.
insert_before_after(op) == InsertAt(body, output + 1, op)

insert_before(op) == InsertAt(body, output, op)

\* SSA: a port's memory is a seq.hlmem of the body or a block argument.
WellFormed(b) ==
  \A i \in DOMAIN b : b[i].kind \in PortKinds =>
    b[i].memory = BlockArg \/ b[i].memory \in {j \in DOMAIN b : b[j].kind = "hlmem"}

Bodies ==
  LET Drawn == UNION {[1..n -> Sources] : n \in 0..MaxSources}
  IN {b \in {Append(d, [kind |-> "output"]) : d \in Drawn} \cup {<< >>} : WellFormed(b)}

Init ==
  /\ body \in Bodies
  /\ pass = "idle" /\ entry = "none"
  /\ plans = {} /\ memory_values = << >>
  /\ converted = 0 /\ answer = "none" /\ calls = 0

-----------------------------------------------------------------------------
(* The call and its failures.                                               *)

Call(function) ==
  /\ pass = "idle" /\ calls < MaxCalls
  /\ pass' = "plan_registers" /\ entry' = function
  /\ plans' = {} /\ memory_values' = << >>
  /\ converted' = 0 /\ answer' = "none" /\ calls' = calls + 1
  /\ UNCHANGED body

Fail ==
  /\ pass' = "idle" /\ answer' = "err"
  /\ UNCHANGED <<body, entry, plans, memory_values, converted, calls>>

\* An empty body verifies, but has no hw.output to insert before.
NoTerminator == pass = "plan_registers" /\ ~HasOutput /\ Fail

-----------------------------------------------------------------------------
(* Registers.                                                               *)

RegisterPlan(i) ==
  [kind |-> IF body[i].kind = "compreg" THEN "always_ff_no_reset" ELSE "always_ff",
   source |-> i,
   target |-> IF body[i].name # NoName THEN body[i].name
              ELSE <<"state_", Ordinal(i, Positions(RegisterKinds))>>]

PlanRegisters ==
  /\ pass = "plan_registers" /\ HasOutput
  /\ plans' = {RegisterPlan(i) : i \in Positions(RegisterKinds)}
  /\ pass' = "emit_registers"
  /\ UNCHANGED <<body, entry, memory_values, converted, answer, calls>>

EmitRegister(plan) ==
  /\ pass = "emit_registers" /\ Due(plan)
  /\ body' = insert_before(plan)
  /\ plans' = plans \ {plan}
  /\ converted' = converted + 1
  /\ UNCHANGED <<pass, entry, memory_values, answer, calls>>

RegistersDone ==
  /\ pass = "emit_registers" /\ plans = {} /\ entry = "lower_module_registers"
  /\ pass' = "idle" /\ answer' = "ok"
  /\ UNCHANGED <<body, entry, plans, memory_values, converted, calls>>

-----------------------------------------------------------------------------
(* Memories and their ports, lower_module only.                             *)

MemoryPlan(i) ==
  [kind |-> "mem_decl", source |-> i,
   target |-> IF body[i].name # NoName THEN body[i].name
              ELSE <<"memory_", Ordinal(i, Positions({"hlmem"}))>>]

PlanMemories ==
  /\ pass = "emit_registers" /\ plans = {} /\ entry = "lower_module"
  /\ plans' = {MemoryPlan(i) : i \in Positions({"hlmem"})}
  /\ pass' = "emit_memories"
  /\ UNCHANGED <<body, entry, memory_values, converted, answer, calls>>

\* A slip: memories are counted along with registers and ports.
EmitMemory_counted(plan) ==
  /\ pass = "emit_memories" /\ Due(plan)
  /\ body' = insert_before(plan)
  /\ memory_values' = [m \in DOMAIN memory_values \cup {plan.source} |->
                         IF m = plan.source THEN output ELSE memory_values[m]]
  /\ plans' = plans \ {plan}
  /\ converted' = converted + 1
  /\ UNCHANGED <<pass, entry, answer, calls>>

\* The declaration takes the position of hw.output.
EmitMemory(plan) ==
  /\ pass = "emit_memories" /\ Due(plan)
  /\ body' = insert_before(plan)
  /\ memory_values' = [m \in DOMAIN memory_values \cup {plan.source} |->
                         IF m = plan.source THEN output ELSE memory_values[m]]
  /\ plans' = plans \ {plan}
  /\ UNCHANGED <<pass, entry, converted, answer, calls>>

\* Ports on a memory that is not a seq.hlmem of the body.
Undeclared == {i \in Positions(PortKinds) : body[i].memory \notin DOMAIN memory_values}

\* A slip: the declaration is looked up by name.
PortPlan_by_name(i) ==
  [kind |-> IF body[i].kind = "read" THEN "mem_read" ELSE "mem_write",
   source |-> i,
   memory |-> CHOOSE d \in Positions({"mem_decl"}) :
                body[d].target = body[memory_values[body[i].memory]].target,
   target |-> <<IF body[i].kind = "read" THEN "read_data_" ELSE "write_mem_",
                Ordinal(i, Positions(PortKinds))>>]

PortPlan(i) ==
  [kind |-> IF body[i].kind = "read" THEN "mem_read" ELSE "mem_write",
   source |-> i,
   memory |-> memory_values[body[i].memory],
   target |-> <<IF body[i].kind = "read" THEN "read_data_" ELSE "write_mem_",
                Ordinal(i, Positions(PortKinds))>>]

UnknownMemory ==
  pass = "emit_memories" /\ plans = {} /\ Undeclared # {} /\ Fail

\* A slip: a port whose memory is unknown is passed over.
PlanPorts_partial ==
  /\ pass = "emit_memories" /\ plans = {}
  /\ plans' = {PortPlan(i) : i \in Positions(PortKinds) \ Undeclared}
  /\ pass' = "emit_ports"
  /\ UNCHANGED <<body, entry, memory_values, converted, answer, calls>>

PlanPorts ==
  /\ pass = "emit_memories" /\ plans = {} /\ Undeclared = {}
  /\ plans' = {PortPlan(i) : i \in Positions(PortKinds)}
  /\ pass' = "emit_ports"
  /\ UNCHANGED <<body, entry, memory_values, converted, answer, calls>>

EmitPort(plan) ==
  /\ pass = "emit_ports" /\ Due(plan)
  /\ body' = insert_before(plan)
  /\ plans' = plans \ {plan}
  /\ converted' = converted + 1
  /\ UNCHANGED <<pass, entry, memory_values, answer, calls>>

ModuleDone ==
  /\ pass = "emit_ports" /\ plans = {}
  /\ pass' = "idle" /\ answer' = "ok"
  /\ UNCHANGED <<body, entry, plans, memory_values, converted, calls>>

\* The caller has made its last call.
Stopped == pass = "idle" /\ calls = MaxCalls /\ UNCHANGED vars

Next ==
  \/ Call("lower_module") \/ Call("lower_module_registers")
  \/ NoTerminator \/ PlanRegisters \/ RegistersDone
  \/ PlanMemories \/ UnknownMemory \/ PlanPorts \/ ModuleDone
  \/ \E plan \in plans : EmitRegister(plan) \/ EmitMemory(plan) \/ EmitPort(plan)
  \/ Stopped

Spec == Init /\ [][Next]_vars

-----------------------------------------------------------------------------
(* Properties.                                                              *)

Accepted == pass = "idle" /\ validate_module(body)

Emitted == Positions(EmittedKinds)

\* hw.output stays the terminator whatever was inserted and however often, and
\* nothing is inserted among the source operations: a value keeps the position
\* an earlier plan recorded for it.
TerminatorLast ==
  HasOutput => /\ output = Len(body)
               /\ \A i \in Emitted : \A j \in (i + 1)..(output - 1) : j \in Emitted

\* A port uses the declaration made for its own seq.hlmem, inserted before it
\* by the same call, even when several memories share a name ("A partial mapping
\* would produce an SV process that references the wrong storage",
\* docs/pliron_hardware_ir_constraints.md, 13.7).
PortsUseOwnMemory ==
  \A i \in Positions({"mem_read", "mem_write"}) :
    LET m == body[i].memory IN
      /\ m < i /\ body[m].kind = "mem_decl"
      /\ body[m].source = body[body[i].source].memory

\* One port on an unknown memory stops every port of the module from being
\* lowered, in this call and in every retry.
NoPartialPorts ==
  (\E i \in Positions(PortKinds) : body[i].memory = BlockArg)
    => Positions({"mem_read", "mem_write"}) = {}

\* A module that passes validation holds the state of each seq operation at
\* most once and never two of them under one name, after any number of complete
\* or failed calls ("safe only while [...] duplicate state is not interpreted
\* as two physical registers", 13.5).
AcceptedStateIsSingle ==
  Accepted =>
    \A i, j \in Emitted : i # j =>
      /\ body[i].source # body[j].source
      /\ {body[i].kind, body[j].kind} \cap {"mem_write"} = {} =>
           body[i].target # body[j].target

\* The count a call returns is what it inserted, every register and port once.
CountIsComplete ==
  pass = "idle" /\ answer = "ok" =>
    LET wanted == Positions(RegisterKinds) \cup
                  IF entry = "lower_module" THEN Positions(PortKinds) ELSE {}
    IN /\ converted = Cardinality(wanted)
       /\ \A i \in wanted : \E j \in Emitted : body[j].source = i
=============================================================================
