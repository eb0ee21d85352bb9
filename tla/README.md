# pliron-circt in TLA+

pliron-circt is a set of hardware dialects for the pliron IR framework: `hw`
(modules, instances, aggregates), `comb` (combinational logic), `seq`
(registers, memories, clocks) and `sv` (SystemVerilog), with validation,
analysis, folding, a lowering from `seq` to `sv`, a SystemVerilog printer and a
parser front end (`v-parser`). This directory holds TLA+ models of it, the TLC
configurations that check them on small instances, and TLAPS proofs. Paths
below are relative to the repository.

Status: every component that keeps or changes state is modelled, from the
parser through validation, canonicalization and lowering to the printed text;
*Plan* lists what is left.

## Inventory

pliron itself (contexts, pointers, regions, `Operation`, use lists) is a
dependency whose source is not in the repository; it appears in the models only
through what this code relies on. The program is single-threaded. Its
concurrency is that of the hardware it describes: the processes of the
SystemVerilog it prints are run by a simulator in an order nobody chooses.

| Component | Source | State | Operations | Talks to |
|---|---|---|---|---|
| comb cycle check | `src/comb/cycles.rs` | `state_map` (absent, Visiting, Visited), call stack | `check_comb_cycles`, `dfs_check_cycles` | reads the module body; private, no caller in the repository |
| comb operations | `src/comb/ops.rs`, `types.rs`, `utils.rs` | attributes, operands | builders with assertions, verifiers, `hw.constant` materialisation | pliron |
| comb canonicalization | `src/comb/canonicalization.rs` | the block being rewritten | `canonicalize_block` and its four rules | edits the body in place |
| comb evaluation and folding | `src/comb/eval.rs` | none | per-operation evaluators over fixed-width integers, `fold_comb_op` | `eval_neg` is used by canonicalization |
| hw operations and types | `src/hw/ops.rs`, `types.rs` | module symbol, port list, aggregates | verifiers, `compute_type_bitwidth` | every other dialect |
| hw module validation | `src/hw/validation.rs` | names and writes seen so far in one scan | `validate_module`, `validate_modules` | reads hw, seq and sv operations |
| seq dialect | `src/seq/ops.rs`, `types.rs` | the registers and memories of the design | builders, verifiers | lowered by sv |
| sv operations | `src/sv/ops.rs` | attributes, operands | builders, verifiers | produced by the lowering, read by the printer |
| sv lowering | `src/sv/lowering.rs` | the body, plans of the pass, memory map | `lower_module_registers`, `lower_module`, `lower_*` | inserts sv operations next to the seq ones |
| sv printer | `src/sv/printer.rs` | declared names, output text | `render_module`, `render_op`, `render_expr` | reads hw, comb and sv operations |
| sv canonicalization | `src/sv/canonicalization.rs` | the block | `eliminate_redundant_assign` | edits the body |
| v-parser | `v-parser/src/*.rs` | syntax tree of sv-parser, symbol table | lowering of modules, expressions, always blocks | produces hw.module bodies of sv operations |
| dialect registration | `src/lib.rs`, `*/mod.rs` | none | straight-line calls | - |

What is hard, and what makes each part correct:

* **comb cycle check.** The search must tell an operation met again on the path
  from one met again after it was finished, on every graph, including
  self-loops, shared inputs and unreachable parts; it must end, search each
  operation once, and reject exactly the bodies with a loop.
* **sv lowering.** Passes plan first and insert later, into the block the plan
  was read from; a failing pass does not undo the earlier ones; the source
  operations stay, so a second call lowers them again. What is left must be a
  module whose processes use the right storage, or one the validator rejects.
* **sv printer.** One edge wakes many processes. The text must behave as the
  synchronous system the `seq` operations describe for every order the
  simulator may pick: register chains and swaps, asynchronous resets of both
  polarities, a read and a write of one word at one edge. It refers to storage
  by name, and the name is computed once where the storage is declared and
  again where it is read.
  Its expressions carry no parentheses, its declarations come where a name is
  first met, and what it has no text for is left out by name.
* **hw validation.** One scan with sets of what was seen: the verdict should not
  depend on the order of the operations, and an accepted collection should
  resolve every instance.
* **hw operations.** Widths are compared when they are known and summed in a
  machine word; a chain of casts, aggregates and slices must neither lose nor
  invent bits.
* **comb canonicalization and evaluation.** Each rewrite must preserve the value
  at the operation's width, and the loop must stop.
* **v-parser.** Nodes are picked out of a syntax tree by "first of this kind
  anywhere below", which must not lose an operator or an assignment; the clock
  and the reset of a process are cut out of text; names come into scope item by
  item and decide how an output is closed.

PROJECT.json lists the hazards at their lines, with the property that covers
each, or a note that says why none does.

## Modules

### The combinational cycle check

| Module | Role |
|---|---|
| `CombGraph` | the body as a graph: opids, defining operation of each operand, `is_combinational_op`, loops |
| `CombCycleVerdict` | abstract specification: one step that answers "err" iff the graph has a loop, and it is eventually taken |
| `CombCycles` | the search: one step is one loop iteration, one call or one return |
| `MCCombCycles` | instance for TLC, the claim that loops are closed paths, and a property a document states |
| `CombCyclesProofs` | the theorems |

`state` is `state_map`, `stack` the active calls of `dfs_check_cycles`,
`cursor[o]` the position of the operand iterator of the call on `o`, `root` the
outer loop, `result` the returned value. `SkipRoot`, `VisitRoot` and `Accept`
are the outer loop, `SkipOperand`, `FoundCycle`, `Descend` and `Return` the
inner one, arm by arm. An error unwinds all calls through `?` with no effect on
`state_map` that anybody sees, so `FoundCycle` leaves the stack as it was.

The code compares `Operation::get_opid(op).name` with `"comb."` and
`"hw.concat"`, as `eval.rs` and `canonicalization.rs` do; the model takes that
name to be the qualified one, as all of this code does. If pliron's `OpId.name`
excludes the dialect, the predicate is never true; that cannot be decided from
this repository. `check_comb_cycles` is marked `#[allow(dead_code)]` and has no
caller.

That an operation is on a loop (`OnLoop`) is said with closed sets: it is in every
set that contains the inputs of it and the inputs of its members. This is
reachability without counting steps, which the provers can reason about;
`LoopsArePaths` in `MCCombCycles`, which TLC evaluates, says that on every block of
the instance it is the transitive closure.

### Lowering and validation

| Module | Role |
|---|---|
| `HwValidation` | `validate_module` as a predicate on a body, `validate_modules` on a collection |
| `HwCollection` | a collection of modules that is built, validated and reordered |
| `MCHwCollection` | instance for TLC |
| `HwCollectionProofs` | the theorems |
| `SvLowering` | `lower_module` and `lower_module_registers`, pass by pass, repeated on one body |
| `MCSvLowering` | instance for TLC |
| `SvLoweringProofs` | where operations stand and which memory a port uses; what an inserted operation is lowered from, and under which name |

`body` is the block; `pass` and `plans` say where the running call is and which
operations it still has to insert. Planning is one step per pass (the code
collects a vector in one sweep; here `plans` is a set that is emptied in the order
of the sources) and each insertion is a step of its own, so a
property of the intermediate bodies is checked too. Operations are verified
and `hw.output` ends a body that is not empty, as the operation verifiers
demand.

In `HwCollection` the modules are a sequence of symbols and bodies, `Validate`
is a call of `validate_modules`, and `Reorder` exchanges two operations of a
body, which is a graph region (`ModuleOp::get_region_kind`): the order of its
operations is presentation. A verdict is kept across `Reorder` and dropped by
every other change.

### The printed SystemVerilog

| Module | Role |
|---|---|
| `SeqNetlist` | a body of registers, read ports and write ports of one memory |
| `SeqContract` | abstract specification: what `src/seq/ops.rs` promises of each operation, as a synchronous transition system |
| `SvProcesses` | the `always_ff` processes `render_op` prints, run by the scheduling rules of SystemVerilog, under the names the text uses |
| `MCSvProcesses` | instance for TLC |
| `SvProcessesProofs` | the theorems, with the refinement of `SeqContract` |
| `SvOps` | the sv operations: constructors, types and the verifier of each |
| `SvExprPrinter` | `render_expr`, and a reader that lexes and parses by the precedence of IEEE 1800 |
| `SvPrinter` | `render_module` operation by operation, and `eliminate_redundant_assign` before it |
| `MCSvPrinter` | instance for TLC, which prints a module or an expression |
| `SvPrinterProofs` | its theorems, for any body |

A change of a signal wakes the processes sensitive to it (`ClockChange`,
`ResetChange`), they run one at a time in any order (`PlainRegister`,
`ResetRegister`, `ReadPort`, `WritePort`), each scheduling its nonblocking
assignments, and `Update` applies them. These scheduling rules (active events,
then the nonblocking updates) belong to the SystemVerilog standard and are
external to the repository; everything else is what `lowering.rs` and
`printer.rs` write. `store` is indexed by *name*: `Target` is the name the
lowering gives a variable, `value_name` the name an expression prints.

The refinement mapping of `ContractSpec`: the `q` of a seq operation is the
variable its process assigns, and a clock or reset change takes effect for the
abstract system when the updates are applied. `Update` is then one `ActiveEdge`,
`InactiveEdge` or `Reset`, and every process step a stutter.

Abstractions: data are one bit and a memory has two words (an address that is
not a word is ignored, as the standard says); the datapath between two storage
operations is replaced by a direct connection, which samples its leaves at the
same moment; one signal changes at a time; variables and memory words start
with arbitrary bits; port names differ from the variables'. Two writes to one
word at one edge may be won by either.

`SvPrinter` builds any body from templates (`Insert`), may eliminate assignments
(`EliminateRedundantAssign`; pliron's rewriter redirects the uses), verifies, and
prints one operation per step: `PrintDeclaration`, `PrintStatement`, `Omit` or
`Unsupported`, by the lists of `render_module`. A template has the operands and
results its interfaces give it (`WellBuilt`). The text is kept as declarations
and statements with the names they drive and read. `EmptyMemory` is the
subtraction `depth() - 1` on a memory of no words. `SvExprPrinter` keeps the text
itself, as symbols, since grouping is a property of text; its reader is external,
being the SystemVerilog standard's.

### Combinational operations, folding and canonicalization

| Module | Role |
|---|---|
| `CombOps` | the operations, and what the verifier of each accepts |
| `CombEval` | the evaluators of `eval.rs`, with their errors |
| `CombFold` | `fold_comb_op` on one verified operation |
| `CombCanonicalize` | `canonicalize_block`: sweeps, rules, edits of the block |
| `MCComb` | instance for TLC, which folds an operation or canonicalizes a block |
| `CombCanonicalizeProofs` | the theorems about canonicalization and folding |

An `APInt` is a width and a number below 2^width. What the library computes
(wrapping arithmetic, signed division, shifts) is its mathematical meaning;
what `eval.rs` assembles bit by bit from masks is assembled bit by bit. The
decimal text that `eval_concat`, `eval_extract` and `eval_replicate` go through
is taken to parse: if it did not, they would fold to zero, which cannot be
decided from this repository.

In `CombCanonicalize`, `ops` is the arena, `block` the operations in the block,
`outputs` the operands of its `hw.output`, `todo` the rest of the snapshot of the
block that the `for` loop walks (constants included) and `changed` the flag of the `while` loop. One visit of one
operation is one step: the operands are put in order and then at most one of
`VisitReplace` (identities and mux), `VisitXorSelf`, `VisitSub` and `VisitLeave`
applies; `VisitPanic` is a visit that reads an operand that is not there. The
two `insert_operand` calls of the swap are taken to replace the operands ("swap
them to place constant on the right"), and to be possible while the function
still borrows the operation; both are up to pliron. The blocks of the run hold no
division, whose undefined results make "the same value" a weaker statement.
`BlocksAssumption` is what a block is when the function is called: it verifies,
lists each operation once and has no combinational loop, which the dialect
forbids. Without the last condition the function would erase operations that are
still used: in `x = add(y, 0)`, `y = add(x, 0)` the result of `x` is replaced by
`y`, which then adds 0 to itself.

### Types and operations of the hw dialect

| Module | Role |
|---|---|
| `HwTypes` | the types, and `compute_type_bitwidth` in a machine word of any size |
| `HwOps` | constructor and verifier of every operation on values, and bodies made with them |
| `MCHwOps` | instance for TLC |
| `HwOpsProofs` | its theorem, for any types |

An operation is inserted when its constructor makes it and its verifier accepts
it. `hw.slice` reads its low bit, an attribute of any width, into a machine word
(`to_u64`). Next to its type every value carries the bits that reach it when the
hardware is built as the operations say (`Reaching`), which no verifier computes:
`WidthExact` compares the two. `overflow_checks` is the build's choice, fixed for
a behaviour. The machine word is the constant `Word`; a small one makes a wrapped
sum reachable. `Types` is the context, the types made so far: `TypesAssumption` says
that the types a type is made of are among them and that no type is part of itself,
which holds because a type is made from handles to types that exist.
`OperationsAssumption` gives the fields of an operation the types the code gives
them. `WidthOf` is one turn of the recursion of `compute_type_bitwidth`, `WiresOf`
one of the reference it is compared with.

### The parser

| Module | Role |
|---|---|
| `VNumbers` | `parse_number_literal` |
| `VExprs` | syntax trees, the search for a node of a kind anywhere below, the lowering of every expression form |
| `VParser` | the header, the items, the scope and `hw.output`, and the properties of each |
| `VParserProofs` | their theorems |
| `VRoundTrip` | what source and result say, in one form, and that they say the same |
| `MCVParser` | instance for TLC |

`header`, `items` and the trees in them are the source; `ports`, `scope`, `body`
and `status` the state of `SvModuleLowerer`. `LowerHeader` is
`lower_ansi_module` up to its loop, each `LowerItem` disjunct one arm of
`lower_non_port_module_item`, `FinalizeOutputs` the end. The order of nodes in a tree
and the choice of the first one that matches (`unwrap_node!`) belong to sv-parser
and are external.

What the code reads as text is text here. A name is given as its pieces between the
letters "or", because the event control is cut there. A bound of a range has its
characters next to the number it says: `extract_range_width` reads the characters
with `parse_number_literal`, for which `WIDTH-1` is 0. A literal is its characters
too; values and widths are words of `WordBits` and `SizeBits` bits, beyond which the
code falls back to 0 and to 32, and `int_attr` keeps the bits that fit the width. A
declaration lists the identifiers that stand before its name, since the code takes
the first. An item of a form the code does not support ("other", such as a generate
block) is given by the supported items inside it, which the code searches: `Found` is
the one it lowers. A primary without a lowering (`'0`, a string, a time) makes every
expression around it fail, as a name that is not bound does; a call is lowered to
its first argument.

`Exprs` is the set of all syntax trees of the source; `ExprsAssumption` says that the parts of a tree are in it, are as many as the form
has, and are less deep than the tree. The recursions of the code over trees (the
search, the lowering) are functions on that set, of which `First` and `LowerNode` are
one turn. `SourceAssumption` says what the grammar guarantees of port lists and
items: lists have entries, and what is read as an expression is one; and that a bound
written as a plain decimal says that number. `BitsAssumption` makes the two bit counts
naturals. Left out: real numbers and the digits `x`, `z` and `?`, unpacked dimensions
of nets, parameters inside a part-select, and types whose name begins with "reg".

## Runs

Passing runs:

| Run | Instance | Shows |
|---|---|---|
| `comb_cycles` | all bodies of 3 operations, comb or storage, up to 2 operands each | the search keeps its invariant, is exact (`VerdictExact`), names an operation on a loop (`ErrorNamesCyclicOp`), never searches one twice (`SearchedOnce`), ends (`Termination`) and implements the verdict (`VerdictSpec`) |
| `sv_processes` | all pairs of registers on two clocks (chains, swaps, self-loops, both reset styles and polarities, named or not) and all triples of read ports, write ports and a register around one memory, policies read-first and undefined | for every process order the printed module is the synchronous system (`ContractSpec`), stores what the state before the edge says (`StoredAtEdge`), and never reads an undriven name (`TypeOK`) |
| `sv_lowering` | all bodies of up to 4 source operations, two calls of either entry point | the terminator stays last and values keep their positions (`TerminatorLast`), ports use the declaration of their own memory (`PortsUseOwnMemory`), an unknown memory stops all ports (`NoPartialPorts`), an accepted module holds each state once (`AcceptedStateIsSingle`), and the returned count is right (`CountIsComplete`) |
| `comb` | all operations on types of width 1 to 3 and on types to be refused, all constants; and all blocks of two operations, the second using the first, in both orders, with the constants 0, 1 and all ones | whatever verifies folds, to the width of its result type, unless it divides by zero (`VerifiedFolds`); concatenation, slices, replication and parity are exact (`BitsExact`); between rewrites the block verifies and nothing refers to an erased operation (`WellFormed`), computes the same outputs for every input (`ValuesPreserved`) and keeps definitions before uses (`OrderPreserved`); the loop ends (`Terminates`), by a panic only if a bitwise operation has one operand, otherwise in the canonical form (`CanonicalForm`) |
| `sv_printer` | all bodies of up to 3 operations drawn from the templates of `MCTemplates`, with eliminations; and all expressions of up to two operators over names and constants, and chains of three unary operators | each name of the text is declared once (`DeclaredOnce`); in an accepted body it is driven at most once (`DrivenOnce`) and has the type of what is stored in it (`TypeStored`); an elimination takes its driver from no name, unless an expression bears it (`EliminationKeepsDrivers`); the text of an expression reads back as that expression when no operand needed parentheses and no constant lost a size it needed (`ReadsBackWhenPlain`) |
| `v_parser` | five headers, modules of up to 2 items drawn from `MCItems`, values of 8 bits and widths of 6 | the result says what the source says when every item is of a supported form (`SaysWhatSourceSays`); literals without spaces whose first digit is no base letter and that fit the words are exact (`TightLiteralsExact`); an output that is an input or that an item bound carries the value of its name (`OutputsClosedByName`); ports have their direction, and their width where the range is one of plain numbers (`PortsKeptUnlessInherited`); what reads only bound names, in a basic form, is accepted (`BoundItemsAccepted`) |
| `hw_collection` | collections of two modules of up to two operations, reordered at any time | the verdict survives reordering if nothing writes a memory (`VerdictKept`), and paths of instances resolve if modules have distinct names (`HierarchyResolves`) |
| `hw_ops` | bodies of up to 3 values of 13 types, machine word of 3 bits, both builds | the bits that reach a value are the bits of its type (`WidthExact`), unless a type of unknown width, an empty array, a low bit beyond the machine word or a wrapped sum is involved |

Three operations are enough for a cycle with an entry leading into it, for a
diamond's re-convergence and for a self-loop beside a cycle; two registers for
a race at an edge; three ports for a read between two writes; two calls for a
retry after a failure and for a repeated success; width 3 for a signed minimum
away from -1, a shift past the width and a slice with bits on both sides; two
rewritable operations for a rewrite that enables or disturbs another, in the
same sweep or the next; two operators for every relation of an operator to its
operand on either side; three operations for a use, a declaration and a driver of
one name in any order; two items for a name that is bound and then read; two
modules for a path of instances through a repeated name; two operations on one
value for a cast that undoes a cast; 8 bits for a value and 6 for a width so that a
literal of a few digits is beyond either. `SvProcesses` starts from the
blocks with distinct targets, which `validate_module` demands, and, in the
passing run, whose references resolve (`ReferencesResolve`); `sv_register_name`
drops the second condition.

Runs that find a violation, each a finding in PROJECT.json:

| Run | Property | What it shows |
|---|---|---|
| `comb_cycles_unlisted` | `AcceptedHasNoZeroLatencyLoop` | `hw.array_inject`, `hw.array_concat`, `hw.struct_inject`, `hw.struct_explode` and `hw.wire` store nothing but end a path, so loops through them are accepted |
| `sv_register_name` | `StoredAtEdge` | a reader of an unnamed register prints its unique SSA name while its variable is `state_<n>` |
| `sv_expr_grouping` | `ReadsBack` | operands print without parentheses, so a product of a sum reads back as a sum of a product |
| `v_parser_dropped` | `NothingDropped` | the parser accepts a module and returns another one: a port `[W-1:0]` is one bit wide |

Each of these states what a document of the repository says, quoted with its line in
PROJECT.json, on small sources that show the disagreement; the passing runs
state what holds of the rest. `NothingDropped` is `SaysWhatSourceSays` without its
condition, with the widths of the ports and the drivers of the outputs. TLC stops at
the port, the shortest of its counterexamples; each item of `Dropping` in `MCVParser`
gives another one under the other headers:

| Source | Result |
|---|---|
| `assign y = ~(d + 1)` | `d + 1` (`core.rs:647`) |
| `assign w = d, q = s` | the second assignment is dropped (`core.rs:257`) |
| `wire [W-1:0] w` | `W` is declared (`core.rs:307`) |
| `child u1 (.b(s), .a(d))` | `a` is connected to `s` (`core.rs:602`) |
| `always_comb y = d` | `hw.output` closes `y` with zero (`core.rs:964`) |
| `assign y = 8'hd5` | 5 (`utils.rs:14`) |
| `always_ff @(negedge clk)` | the edge is dropped, and `posedge` printed (`core.rs:432`) |
| a generate block | the first assignment inside it (`core.rs:228`) |

Deadlock is checked in every run but `hw_ops`, where a body that has reached
`MaxValues` takes no more operations; `Returned` and `Stopped` are the states in
which the program is really done.

**Fairness.** Only `CombCycles` and `CombCanonicalize` assume any: weak fairness
of the whole next-state relation (in `MCComb`, of its steps of that function), since each is a single-threaded function that
runs until it returns. The other modules state safety only: nothing obliges a
design's clock to tick or a caller to call.

## What the conditions of the properties say

A property of a passing run that holds only under a condition says in the condition
what the code does not do. Where a run checks the property without the condition, or a
document's sentence that contradicts it, and finds it violated:

| Condition | In | Run without it |
|---|---|---|
| `Plain` | `ReadsBackWhenPlain` | `sv_expr_grouping` |
| `Supported`, `Straight` | `SaysWhatSourceSays` | `v_parser_dropped` |
| `Tight` | `TightLiteralsExact` | `v_parser_dropped` |
| `PlainRange` | `PortsKeptUnlessInherited` | `v_parser_dropped` |
| bound by an item | `OutputsClosedByName` | `v_parser_dropped` |
| `ReferencesResolve` | the properties of `sv_processes` | `sv_register_name` |

Where a document contradicts the code on what a condition leaves out and no run shows
it, this is the disagreement:

* `"write-first" \notin Policies` (`ContractSpec`): every read port is printed in one
  form, which reads the old word at a collision, whatever the memory's policy
  (`sv/lowering.rs:286`). `docs/sv_transformations.md:159-160` asks that the
  conversion preserve the policy or fail; line 271 lists the legalization as not
  implemented.
* `WritesNoMemory` (`VerdictKept`): an `sv.mem_write` before the declaration of its
  target is rejected and after it accepted (`hw/validation.rs:114`), while
  `docs/sv_transformations.md:174-175` calls the order of such a body presentation.
* `Plain` also leaves out a constant of 32 bits in a concatenation, where its missing
  size is missed (`sv/printer.rs:60`);
  `docs/dialect_relationships_and_semantic_contracts.md:290` forbids to drop sizes.
* `BoundItemsAccepted` is about what the code can read. It refuses a register with a
  synchronous reset (`UnfitReset`, `core.rs:453`) although
  `docs/systemverilog_parser_specification.md:141` and `:185` list it; a clock or
  reset whose name holds "or" (`CutSignal`, `core.rs:496`) although any identifier is
  a name (line 36 there); `'0` (`core.rs:866`) although
  `docs/sv_parser_migration_challenges.md:114` lists it; and an output port that is
  read before an item drives it (`core.rs:950`) although line 62 there asks that all
  ports be registered first.

`Fits` in `TightLiteralsExact` is the machine's limit, 64 bits of a value and 32 of a
width. The other conditions, with the code they are about:

* A port without direction and range gets one bit (`core.rs:174`), as
  `docs/systemverilog_parser_specification.md:77` has it; the standard gives it the
  range of the port before it. Nothing is verified before the module is returned
  (`core.rs:59`), against line 213 of that document. A comma in an event control
  makes the last word the clock (`core.rs:496`).
* Modules of one name are accepted (`validation.rs:202`), against
  `docs/dialect_relationships_and_semantic_contracts.md:91`. (Distinct symbols, in
  `HierarchyResolves`.)
* Casts through a type of unknown width change the width (`hw/ops.rs:509`),
  against line 125 of the same document; without overflow checks the widths of a
  concatenation wrap (`hw/ops.rs:578`); a low bit beyond 64 bits is cut
  (`hw/ops.rs:642`). (The preconditions of `WidthExact`.)
* The printed header has inputs only (`printer.rs:338`), `sv.case` is left out
  without an error (`printer.rs:485`), and an expression that bears the name of
  the wire it is assigned to loses its assignment (`sv/canonicalization.rs:36`).
  (`StartPrinting`, `Omitted`, `NamesOfExpressions`.)
* A clock, reset or memory is printed by the name of its value
  (`printer.rs:249`, `272`, `291`), and `sv.mux_expr` verifies on clocks
  (`sv/ops.rs:810`): the text of a register whose clock is an expression names a
  signal that nothing declares. (`ComputesIntegers`.)
* The variable of a lowered read is always `read_data_<n>` (`sv/lowering.rs:257`),
  while a reader prints the value's own name: `ReferencesResolve` leaves such
  readers out too.
* `comb.mux` verifies on branches of any one type (`comb/ops.rs:1176`), and
  `comb.and`, `comb.or`, `comb.xor` with one operand verify while canonicalization
  reads their second (`comb/canonicalization.rs:205`).

## Proofs

`CombCyclesProofs` proves, for every block size `N`, every `MaxOperands` and
every set `Names`:

* `SearchInvariant`: `SafetySpec => []SearchInv`
* `TypeCorrect`: `SafetySpec => []TypeOK`
* `SearchesOnce`: `SafetySpec => SearchedOnce`
* `ImplementsVerdict`: `SafetySpec => Verdict!SafetySpec`
* `VerdictIsExact`: `SafetySpec => []VerdictExact`
* `ErrorOpIsCyclic`: `SafetySpec => []ErrorNamesCyclicOp`
* `LoopIsPath`: the closed loops of the first theorems are paths from an operation to
  itself

from `SizeAssumption` (`N` and `MaxOperands` are naturals) alone. `TypeOK` is
not inductive, and neither is "Visited operations hold no loop": that a finished
operation closes no loop needs all its inputs to be finished. `SearchInv`
therefore adds that the stack is exactly the set of Visiting operations, each
once (`PathIsVisiting`), that consecutive calls are joined by an operand
(`PathFollowsOperands`), that everything passed by an iterator is Visited
(`PassedIsChecked`), and that an error points back into the path
(`ErrorIsOnPath`). The step that matters is `Return`: marking an operation whose
inputs are all Visited cannot close a loop, because a loop through it would have
to leave the Visited set through one of them (lemma `ExtendAcyclic`). For the
refinement, `ErrorMeansLoop` turns the path from the operand found to the top of
the stack into a loop, and `AcceptMeansNoLoop` observes that at the end every
combinational operation is Visited. For `ErrorOpIsCyclic` the calls from the operand
found to the top of the stack each follow an input (`CallsFollowInputs`), so every
closed set that holds the inputs of the last call holds the first (`ErrorGoesRound`).
For `VerdictIsExact`, what is upstream of an operation on a loop and in turn has it
upstream is a closed loop (`LoopGoesRound`), and a closed loop of a finite block leads
round, since the operations reached from it cannot shrink for ever (`RoundIsLoop`,
by the library's theorem on strict subsets).

`HwCollectionProofs` proves, for every set of symbols and operations and every
bound on modules and operations, with no assumption on the constants:

* `ValidUnordered`: `validate_module` accepts a body without `sv.mem_write` exactly
  when no operation offends alone and no two of them clash
* `VerdictKeptAlways`: `Spec => []VerdictKept`
* `HierarchyAlwaysResolves`: `Spec => []HierarchyResolves`

(`Typing`, a lemma, says that modules are named bodies.) `validate_module` is a scan:
what it asks of an operation depends on those before it. `ValidUnordered` replaces the scan by a condition that mentions no order, from
which it follows that an exchange of two operations preserves the verdict. The
verdict of the collection is then an invariant of the reordering steps, and the
only other step that leaves one behind is `Validate` itself. `HierarchyResolves`
uses that an accepted instance names a module of the collection and that its name
is unique in its body.

`SvLoweringProofs` proves, for every set of source operations, every length of the
body and any number of calls:

* `Layout`: `Spec => []IInv`
* `TerminatorStays`: `Spec => []TerminatorLast`
* `PortsOwn`: `Spec => []PortsUseOwnMemory`
* `PortsAllOrNone`: `Spec => []NoPartialPorts`

from `BoundAssumption` (`MaxSources` is a natural) and `SourcesAssumption` (no sv
state and no terminator among the source operations). None of the three is
inductive: they speak of emitted operations, which come from plans that refer to
operations by position while the block grows. `IInv` says why the positions stay
good: the terminator is last (`Ended`), what was inserted stands in one block just
before it (`Grouped`), plans refer to positions before it and are of the kinds of
their pass (`Planned`), every entry of `memory_values` is the declaration of its
memory (`Declared`), and a port is planned only when all ports have such an entry
(`PortsPlanned`). An insertion before the terminator moves no position but the
terminator's (lemmas `InsertFacts`, `InsertionKeeps`), so all of it carries over.
TLC was asked for `IInv` on the instance of `sv_lowering` first. The memory of
a port that is a block argument is position 0, which no declared memory
has; that is all `PortsAllOrNone` needs.

The second half goes on from there, from the same assumptions:

* `Origins`: `Spec => []OInv`
* `StateIsSingle`: `Spec => []AcceptedStateIsSingle`
* `CountAlwaysComplete`: `Spec => []CountIsComplete`

`OInv` traces every operation, planned or inserted, to its source (`Sourced`): the
source decides its kind and its name, because the ordinals in generated names count
source operations only, and those do not move. Two copies of one state therefore
carry one name and the validator meets it twice. A write has no name of its own; its
two copies use two declarations of one memory (`PortsApart`), which the validator
does meet twice. That a second call does not reuse a declaration needs to know that
the declarations of the running call come after every earlier port
(`MemoriesFresh`, `PlansFresh`). For the count, each pass is followed from its plan
to its last insertion: what is inserted plus what is planned stays one for each
source (the cardinalities are those of a bijection).

`SvProcessesProofs` proves, for every set of ports, clocks and candidate blocks:

* `HalfWay`: `Spec => []IInv`
* `TypeCorrect`: `Spec => []TypeOK`
* `StoredBySeq`: `Spec => []StoredAtEdge`
* `ImplementsSeq`: `"write-first" \notin Policies` gives `Spec => ContractSpec`

from `CandidatesAssumption` (the kinds and clocks of the operations) and
`NamesAssumption` (no clock is called "none" or "reset", and no register bears the
name the model gives a word of the memory). The hypothesis on the policies is the one
the run makes, and the code justifies no weaker one: a write-first memory is printed
as one that reads first. Between two values of the clock the store is what it was and
the processes have run in some order; `IInv` says what that leaves: a variable waits
for an assignment exactly when its process has run, and then for the value that the
state *before the edge* gives it; a word waits exactly when a write that ran commits
to it, and then for the data of one such write. No process step disturbs this,
because none changes the store. When no process is left, the pending assignments are
therefore what the contract's edge or reset stores, and `Update` is one step of it;
every other step is a stutter or starts a change.

`CombCanonicalizeProofs` proves, for every number of operations, all widths and every
order of the block:

* `StaysSound`: `Spec => []IInv`
* `BlockWellFormed`: `Spec => []WellFormed`
* `EndsCanonical`: `Spec => []CanonicalForm`
* `StaysInOrder`: `Spec => OrderPreserved`

from `BlocksAssumption` and `ArgsAssumption` (arguments are no operations, widths are
naturals). `WellFormed` is not inductive: a result that is replaced by a value
computed from it leaves a use of itself behind. So `IInv` adds that the operations in
the block form no loop (`NoLoop`), and the rewrites have to keep that too. The lemma
`ReplacementKeeps` shows it for any replacement by an operand, or by a new operation
on operands and constants (`MayReplace`), of the same type; that the rules only
answer with such values (`RuleFacts`) follows from what `verify` demands of the
operation visited. `SweepCanonical` says that in a sweep without changes so far
every operation visited is canonical, and `PanicsOnUnary` that the loop panics only
on `comb.and`, `comb.or`, `comb.xor` with one operand, the safety half of
`Terminates`. For the order of the block the lemma `Splice` gives the positions of
the operations after an edit.

It also proves, for all operations, widths and operands,

* `VerifiedOpsFold`: `FoldSpec => []VerifiedFolds`

from the `OperationsAssumption` of `CombFold`, which only says that an operation has
operand types with natural widths, well typed or not, and that a bit position or count
is a natural. The lemma `FoldsToWidth` goes through the operations: what `verify` asks
of the types is what the evaluator of the operation checks or builds its result from,
so that no width error is left and the result has the width of the result type. For
`comb.concat` the sum that the verifier takes of the types is the one that
`eval_concat` takes of the values. `FoldInv` adds that the operands stay constants of
the operation's types.

`SvPrinterProofs` proves, for every header, every set of templates and any number of
operations:

* `TextFollows`: `Spec => []IInv`
* `AcceptedTextDrivesOnce`: `Spec => []DrivenOnce`
* `AcceptedTextTypes`: `Spec => []TypeStored`
* `TextDeclaresOnce`: `Spec => []DeclaredOnce`
* `EliminationIsSafe`: `Spec => EliminationKeepsDrivers`

from `InputsAssumption` (inputs have different names) and `TemplatesAssumption`
(operations have the operands and results of their interfaces). `IInv` has two
halves. `IsBody` is about the body: ids are distinct and every operand is a value
made before its operation, which elimination has to keep although it moves operands
(`EraseKeepsBody`). `Progress` is about the text: the statements are in bijection
with the operations printed so far (`Texts`), and the declarations with the new
targets, each with the type of the first operation that has it (`Lists`). Two
drivers of one name then come from two operations with one target, which
`validate_module` rejects (`TargetsApart`); a target that is stored is declared by
the operation that stores it, since any earlier one would be such a pair. That every
name *read* is declared needs the names an expression prints: `Reads` is a recursive
function over the values, it is defined because operands come first (`WalkExists`),
and it only meets names of values that are no expressions (`WalkNames`). Both are
shown from the least value that would be an exception (`LeastElement`), an induction
the library's theorem on well-founded sets allows. The hypotheses
of two properties are what the proofs showed to be needed: a clock computed by an
expression, which the templates contain, is printed by a name nothing declares
(`ComputesIntegers`); and an elimination may make a target read itself that before
read itself by way of the eliminated name (a body of four operations), so that
`EliminationKeepsDrivers` only asks that no assignment of a name to itself is left
in place of a driver. `DeclaredOnce` needs no validator.

`HwOpsProofs` proves, for every machine word, every context of types and every set of
operations over them:

* `WidthsExact`: `Spec => []WidthExact`

from `WordAssumption`, `TypesAssumption` and `OperationsAssumption`. The invariant is
small: next to `WidthExact` it only needs that operands are among the values
(`Placed`), so that what `SumFits` says of earlier operations stays as it was. The
work is in what an operation does to bits. `compute_type_bitwidth` is a recursion over
types; that it has a solution at all is `TypeRecursion` (two partial solutions agree
where both are defined, and the least type without one could be given one), and that
a known width is the number of wires is `WidthIsWires`, by induction over types
(`TypeInduction`, from the well-foundedness in `TypesAssumption`). Sums and maxima of
fields are loops over a sequence (`RunExists`, `TotalIs`, `LargestIs`), about which
five facts are needed: they are naturals, scaling, equal terms, the total of a suffix
is a difference (`TotalOfRest`, for the offset of a field), and no term exceeds the
maximum. Then each operation has a lemma of its own (`ConstantDriven` to
`ParamValueDriven`) that derives from its verifier that its results are driven by the
bits of their types: the last element of an array ends where the array ends
(`ElementsFit`, hence the condition on empty arrays), a field ends inside its struct
(`FieldFits`), a name that is found stands for a field (`NamedField`), and a machine
addition that was accepted is the true sum (`AddedIsTotal`, hence the condition on
wrapped sums). A slice is compared with its low bit as a machine word, hence the
condition on low bits.

`VParserProofs` proves, for every set of syntax trees, port lists and items over them,
and modules of any length:

* `ParserInvariant`: `Spec => []IInv`
* `BoundItemsAreAccepted`: `Spec => []BoundItemsAccepted`
* `OutputsAreClosed`: `Spec => []OutputsClosedByName`
* `PortsKept`: `Spec => []PortsKeptUnlessInherited`
* `TightLiteralsStand`: `Spec => []TightLiteralsExact`

from `ExprsAssumption`, `SourceAssumption` and `BitsAssumption`. `IInv` adds to the
properties that the scope holds at least the names of the inputs and what the items
bound so far, each with the value of that name (`ScopeKept`; it may hold others, such
as a parameter taken for a name), and that the ports are those of the header
(`PortsParsed`). The work is in the recursions over trees. The library's theorems on
recursive functions take the recursion as an operator, so `Recursion` builds the
function level by level of the height, for any step given as a function; that the
search and the lowering are such steps is that they look at lower trees only
(`FirstIsLocal`, `LowerNodeIsLocal`). With it, `StartIs` says which node the lowerer
starts at and that this node reads no name, and holds no literal, that its tree does
not, and `BoundLowers` that a tree whose names are all bound and whose literals are
numbers is lowered. `FoundIs` says that what is lowered of an item is a basic item,
and `Taken` goes through those: one that could be read is not refused.
`PartsAre` gives the parts of an
event control that no "or" in a name cuts: one for each event, or a single one, with
the last word of all, when commas separate them. That last case was found here: in
an earlier version the property took the first event for the clock there too, which
is false of `always_ff @(posedge clk, posedge rst)` without an if, a form no item of
the run had; it has now. `TightLiteral` is about `parse_number_literal`: the first
apostrophe is the one of the literal, what is trimmed is exactly the base, and no
digit is taken for a letter of a base (`RadixIs`), for which a base must name one
radix, as the grammar has it (`OneRadix`). A value and a size that fit the words are
then read as they are, and both sides cut the value to the size. `PlainRangeWidth` is
the same for the bounds of a port's range.

TLC was asked for each `IInv` and for `OInv` on the instance of the run first.

Of the equality of two CASE expressions tlapm 1.4.5 compares only the first arm and
OTHER when it translates for its SMT solver, and it takes a recursive function whose
body is a CASE without recursion in its first arm for one that is not recursive. No
proof rests on either: all of them were also checked on copies of the modules in which every CASE
is written as nested IFs, and recursive functions with a CASE are kept out of them
(`WidthOf` and `WiresOf` are operators that the functions apply).

Model-checked only:

* `Termination`, `Terminates` and the fairness half of `VerdictSpec`: liveness is out
  of the prover's reach.
* `ValuesPreserved` and `BitsExact`: equalities between arithmetic on numbers and a
  computation bit by bit, for every width. They need facts about powers of two and
  binary digits that are inductions over data.
* The statements of the runs that find a violation: they are false.
* `ReadsBackWhenPlain` and `SaysWhatSourceSays`: the expression printer with its
  reader, and the two readings of a module that are compared, are recursive operators
  over expressions, which the prover does not accept.

## Plan

In this order, each with its run and mutants:

1. done: `CombGraph`, `CombCycleVerdict`, `CombCycles`, `CombCyclesProofs`.
2. done: `SeqNetlist`, `SeqContract`, `SvProcesses`; `HwValidation`, `SvLowering` and its
   proofs.
3. done: `CombOps`, `CombEval`, `CombFold`.
4. done: `CombCanonicalize`.
5. done: `SvOps`, `SvExprPrinter`, `SvPrinter`; `HwCollection` and its proofs.
6. done: `HwTypes`, `HwOps`.
7. done: `VNumbers`, `VExprs`, `VParser`, `VRoundTrip`.
8. left: the builders of `comb` and the verifiers of `seq` against what the
   lowering makes of them; the symbol operations of `hw`.
9. done, proofs: `SvProcessesProofs`, `SvLoweringProofs`,
   `CombCanonicalizeProofs`, `SvPrinterProofs`, the folding of verified operations, the exactness of the cycle check,
   `HwOpsProofs`, `VParserProofs`.

## Not modelled

The text parser of `hw.module`, the symbol-only operations of `hw` (type
declarations, parameters, hierarchical paths, external and generated modules),
processes of the parser's source beyond one assignment or one if/else, and source
files without a module. Registration, parsing and printing of pliron's own textual IR (derived by
macros), the formatting of the output, and `seq.clock_gate`, which neither the
lowering nor the printer accepts. The repository's documents acknowledge that
the lowering does not roll back (`docs/pliron_hardware_ir_constraints.md`, 13.5)
and that collision-policy legalization is not implemented
(`docs/sv_transformations.md:271`); the models describe the code as it is.
