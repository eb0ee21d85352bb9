---------------------------- MODULE SvProcesses ----------------------------
(***************************************************************************)
(* The SystemVerilog that lower_module and render_module make of a block,  *)
(* as a simulator runs it.                                                 *)
(*                                                                         *)
(* Every register and every memory port becomes one always_ff process that *)
(* schedules nonblocking assignments.  When a signal changes, the          *)
(* processes sensitive to that change run one after the other in any       *)
(* order; their assignments take effect when the last of them has run.     *)
(* The text refers to storage by name only, so a reader sees the storage   *)
(* of an operation only if the two names agree.                            *)
(***************************************************************************)
EXTENDS SeqNetlist

VARIABLES
  ops,      \* the block that was lowered
  policy,   \* read_during_write of its seq.hlmem
  in,       \* values of the data ports
  clk,      \* levels of the clock ports
  rst,      \* level of the reset port
  store,    \* the variables the always_ff processes assign, by name
  mem,      \* the sv.mem_decl array
  event,    \* the signal whose change is being processed, or "none"
  ready,    \* processes that change woke and that have not run yet
  pending   \* nonblocking assignments not yet applied, by location

block == <<ops, policy>>
signals == <<in, clk, rst>>
vars == <<ops, policy, in, clk, rst, store, mem, event, ready, pending>>

-----------------------------------------------------------------------------
(* Names.                                                                   *)

\* An operation whose result was given no name.
NoName == << >>

\* A word of the memory, as the target of an assignment.
Word(a) == <<"word", a>>

\* A clock is neither the reset nor the absence of an event, and no given name
\* spells a word of the memory.
ASSUME NamesAssumption ==
  /\ Clocks \cap {"none", "reset"} = {}
  /\ \A block_ops \in Candidates : \A i \in Holders(block_ops) : \A a \in Words :
       block_ops[i].name # Word(a)

Before(i, S) == Cardinality({j \in S : j < i})

\* The variable register i is lowered to; `ordinal` counts registers only.
result_target(i) ==
  IF ops[i].name # NoName THEN ops[i].name
                          ELSE <<"state_", Before(i, Registers(ops))>>

\* The variable read port i is lowered to; `ordinal` counts both port kinds.
read_target(i) == <<"read_data_", Before(i, Reads(ops) \cup Writes(ops))>>

Target(i) == IF i \in Registers(ops) THEN result_target(i) ELSE read_target(i)

\* How an expression refers to the result of operation i.
value_name(i) == IF ops[i].name # NoName THEN ops[i].name ELSE <<"op", i>>

\* What validate_module demands of the always_ff and read targets.
DistinctTargets ==
  \A i, j \in Holders(ops) : Target(i) = Target(j) => i = j

\* Every value an expression reads is referred to by the name of its storage.
ReferencesResolve ==
  \A i \in DOMAIN ops : \A v \in Operands(ops[i]) \ Ports :
    value_name(v) = Target(v)

\* The value of a name nothing drives.
Undriven == 2

\* A slip: an expression always uses the unique SSA name.
Sample_unique(v) ==
  IF v \in Ports THEN in[v]
  ELSE IF <<"op", v>> \in DOMAIN store THEN store[<<"op", v>>] ELSE Undriven

\* render_expr of a value, evaluated where it stands in the text.
Sample(v) ==
  IF v \in Ports THEN in[v]
  ELSE IF value_name(v) \in DOMAIN store THEN store[value_name(v)] ELSE Undriven

-----------------------------------------------------------------------------
(* Initial state: the block is lowered and printed.  The variables hold     *)
(* whatever bits they start with.                                           *)

\* Any initial level of the signals, the variables and the memory.
InitSignals ==
  /\ policy \in PoliciesOf(ops)
  /\ in \in [Ports -> Bit]
  /\ clk = [c \in Clocks |-> 0]
  /\ rst \in Bit
  /\ store \in [{Target(i) : i \in Holders(ops)} -> Bit]
  /\ mem \in [Words -> Bit]
  /\ event = "none"
  /\ ready = {}
  /\ pending = << >>

Init == ops \in Blocks /\ DistinctTargets /\ ReferencesResolve /\ InitSignals

\* The blocks the validator accepts, whether references resolve or not.
InitAnyNames == ops \in Blocks /\ DistinctTargets /\ InitSignals

-----------------------------------------------------------------------------
(* Signal changes.                                                          *)

\* A slip: every asynchronous process is sensitive to the rising edge.
ResetEvent_posedge(i) ==
  /\ ops[i].kind = "firreg" /\ ops[i].async
  /\ rst' = 1

\* `or posedge reset` / `or negedge reset` in the event control of process i.
ResetEvent(i) ==
  /\ ops[i].kind = "firreg" /\ ops[i].async
  /\ IF ops[i].polarity = "active_high" THEN rst' = 1 ELSE rst' = 0

ClockChange(c) ==
  /\ event = "none"
  /\ clk' = [clk EXCEPT ![c] = 1 - @]
  /\ event' = c
  /\ ready' = {i \in DOMAIN ops : ops[i].clock = c /\ clk[c] = 0}
  /\ UNCHANGED <<block, in, rst, store, mem, pending>>

ResetChange ==
  /\ event = "none"
  /\ rst' = 1 - rst
  /\ event' = "reset"
  /\ ready' = {i \in DOMAIN ops : ResetEvent(i)}
  /\ UNCHANGED <<block, in, clk, store, mem, pending>>

DataChange(p) ==
  /\ event = "none"
  /\ \E b \in Bit : in' = [in EXCEPT ![p] = b]
  /\ UNCHANGED <<block, clk, rst, store, mem, event, ready, pending>>

-----------------------------------------------------------------------------
(* The always_ff processes.                                                 *)

\* `location <= value`; a later assignment to a location replaces an earlier.
Schedule(location, value) ==
  pending' = [l \in DOMAIN pending \cup {location} |->
                IF l = location THEN value ELSE pending[l]]

Woken(i) == i \in ready /\ ready' = ready \ {i}

\* A slip: a blocking assignment.
PlainRegister_blocking(i) ==
  /\ Woken(i) /\ ops[i].kind = "compreg"
  /\ store' = [store EXCEPT ![Target(i)] = Sample(ops[i].input)]
  /\ UNCHANGED <<block, signals, mem, event, pending>>

\* sv.always_ff_no_reset: target <= input;
PlainRegister(i) ==
  /\ Woken(i) /\ ops[i].kind = "compreg"
  /\ Schedule(Target(i), Sample(ops[i].input))
  /\ UNCHANGED <<block, signals, store, mem, event>>

\* A slip: the condition of the `if` ignores the polarity.
InReset_high(i) == rst = 1

\* `if (reset)` or `if (!reset)`.
InReset(i) == IF ops[i].polarity = "active_high" THEN rst = 1 ELSE ~(rst = 1)

\* sv.always_ff: if (reset) target <= reset_value; else target <= input;
ResetRegister(i) ==
  /\ Woken(i) /\ ops[i].kind = "firreg"
  /\ Schedule(Target(i), IF InReset(i) THEN Sample(ops[i].reset_value)
                                       ELSE Sample(ops[i].input))
  /\ UNCHANGED <<block, signals, store, mem, event>>

\* sv.mem_read: target <= memory[address];
ReadPort(i) ==
  /\ Woken(i) /\ ops[i].kind = "read"
  /\ LET a == Sample(ops[i].address) IN
       Schedule(Target(i), IF a \in Words THEN mem[a] ELSE Undriven)
  /\ UNCHANGED <<block, signals, store, mem, event>>

\* A slip: the enable is not tested.
WritePort_always(i) ==
  /\ Woken(i) /\ ops[i].kind = "write"
  /\ LET a == Sample(ops[i].address) IN
       IF a \in Words THEN Schedule(Word(a), Sample(ops[i].data))
                      ELSE UNCHANGED pending
  /\ UNCHANGED <<block, signals, store, mem, event>>

\* sv.mem_write: if (enable) memory[address] <= data;
WritePort(i) ==
  /\ Woken(i) /\ ops[i].kind = "write"
  /\ LET a == Sample(ops[i].address) IN
       IF Sample(ops[i].enable) = 1 /\ a \in Words
         THEN Schedule(Word(a), Sample(ops[i].data))
         ELSE UNCHANGED pending
  /\ UNCHANGED <<block, signals, store, mem, event>>

Execute(i) ==
  PlainRegister(i) \/ ResetRegister(i) \/ ReadPort(i) \/ WritePort(i)

\* The nonblocking assignments take effect.
Update ==
  /\ event # "none" /\ ready = {}
  /\ store' = [n \in DOMAIN store |->
                 IF n \in DOMAIN pending THEN pending[n] ELSE store[n]]
  /\ mem' = [a \in Words |->
               IF Word(a) \in DOMAIN pending THEN pending[Word(a)] ELSE mem[a]]
  /\ event' = "none"
  /\ pending' = << >>
  /\ UNCHANGED <<block, signals, ready>>

Next ==
  \/ \E c \in Clocks : ClockChange(c)
  \/ ResetChange
  \/ \E p \in Ports : DataChange(p)
  \/ \E i \in ready : Execute(i)
  \/ Update

Spec == Init /\ [][Next]_vars
SpecAnyNames == InitAnyNames /\ [][Next]_vars

-----------------------------------------------------------------------------
(* Properties.                                                              *)

\* With every reference resolved no variable and no word is ever loaded from a
\* name nothing drives, and no process or assignment outlives its change.
TypeOK ==
  /\ ops \in Blocks /\ policy \in PoliciesOf(ops)
  /\ in \in [Ports -> Bit] /\ clk \in [Clocks -> Bit] /\ rst \in Bit
  /\ store \in [{Target(i) : i \in Holders(ops)} -> Bit]
  /\ mem \in [Words -> Bit]
  /\ event \in Clocks \cup {"none", "reset"}
  /\ ready \subseteq DOMAIN ops
  /\ event = "none" => ready = {} /\ pending = << >>

\* The state the seq dialect sees: that of the last settled moment.
settled_clk == [c \in Clocks |-> IF event = c THEN 1 - clk[c] ELSE clk[c]]
settled_rst == IF event = "reset" THEN 1 - rst ELSE rst
settled_q == [i \in Holders(ops) |-> store[Target(i)]]

\* The printed module behaves as the seq operations it was lowered from,
\* whatever order the simulator runs the processes in ("it models the resulting
\* synchronous state transition system", section 9.2 of
\* docs/dialect_relationships_and_semantic_contracts.md).
Contract == INSTANCE SeqContract
  WITH clk <- settled_clk, rst <- settled_rst, q <- settled_q

ContractSpec == Contract!Spec

\* Processes woken at this change and already run.
Ran == {i \in DOMAIN ops : /\ ops[i].clock = event /\ clk[event] = 1
                           /\ i \notin ready}

\* What an edge is about to store in a register is decided by the state before
\* the edge, reset first, and not by the processes that ran earlier at it
\* (seq/ops.rs: "its result is the current stored value, and `input` becomes
\* the stored value at the active clock edge").
StoredAtEdge ==
  \A i \in Ran \cap Registers(ops) :
    /\ Target(i) \in DOMAIN pending
    /\ pending[Target(i)] =
         LET Held(v) == IF v \in Ports THEN in[v] ELSE store[Target(v)]
         IN IF ops[i].kind = "firreg" /\ rst = ActiveLevel(ops[i])
              THEN Held(ops[i].reset_value) ELSE Held(ops[i].input)
=============================================================================
