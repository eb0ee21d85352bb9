-------------------------- MODULE SvLoweringProofs --------------------------
(***************************************************************************)
(* What the passes of lower_module rely on, for every body and any number  *)
(* of calls.                                                               *)
(*                                                                         *)
(* A pass inserts before hw.output what it planned for the source          *)
(* operations, by their positions.  The inductive invariant says that the  *)
(* positions stay good: inserted operations stand in one block just before *)
(* the terminator, and what a plan or memory_values refers to stands       *)
(* before them.                                                            *)
(***************************************************************************)
EXTENDS SvLowering, FiniteSetTheorems, TLAPS

\* Positions before the terminator.
Before == 1..(Len(body) - 1)

\* The terminator is the last operation of a body that has any.
Ended ==
  /\ body \in Seq(Range(body))
  /\ body # << >> => /\ body[Len(body)].kind = "output"
                     /\ \A i \in Before : body[i].kind # "output"

Grouped == \A i \in Before : body[i].kind \in EmittedKinds =>
             \A j \in (i + 1)..(Len(body) - 1) : body[j].kind \in EmittedKinds

PlanKinds ==
  CASE pass = "emit_registers" -> {"always_ff", "always_ff_no_reset"}
    [] pass = "emit_memories"  -> {"mem_decl"}
    [] OTHER                   -> {"mem_read", "mem_write"}

Emitting == pass \in {"emit_registers", "emit_memories", "emit_ports"}

\* Plans are of the kinds of the pass, for operations before the terminator.
Planned ==
  Emitting => /\ body # << >>
              /\ \A p \in plans : p.kind \in PlanKinds /\ p.source \in Before

IsDeclarationOf(m, source) ==
  m \in Before /\ body[m].kind = "mem_decl" /\ body[m].source = source

\* Every entry of memory_values is the declaration of its memory.
Declared ==
  pass # "idle" =>
    \A m \in DOMAIN memory_values : m \in Before /\ IsDeclarationOf(memory_values[m], m)

\* Every port of the body has a declared memory, and is planned with it.
PortsPlanned ==
  pass = "emit_ports" =>
    /\ \A i \in Positions(PortKinds) : body[i].memory \in DOMAIN memory_values
    /\ \A p \in plans : IsDeclarationOf(p.memory, body[p.source].memory)

\* What PortsUseOwnMemory says, and that a port's source stands before the terminator.
PortsEmitted ==
  \A i \in Before : body[i].kind \in {"mem_read", "mem_write"} =>
    /\ body[i].source \in Before
    /\ IsDeclarationOf(body[i].memory, body[body[i].source].memory)
    /\ body[i].memory < i

IInv == Ended /\ Grouped /\ Planned /\ Declared /\ PortsPlanned /\ PortsEmitted /\ NoPartialPorts

-----------------------------------------------------------------------------
(* Sequences.                                                               *)

\* A sequence of any elements is a sequence of its own.
LEMMA OwnElements ==
  ASSUME NEW S, NEW s \in Seq(S)
  PROVE  s \in Seq(Range(s))
  BY DEF Range

\* The length of a concatenation.
LEMMA Lengths ==
  ASSUME NEW S, NEW a \in Seq(S), NEW b \in Seq(S)
  PROVE  a \o b \in Seq(S) /\ Len(a \o b) = Len(a) + Len(b)
  OBVIOUS

\* InsertAt puts one element at k and moves those from k on up by one.
LEMMA InsertFacts ==
  ASSUME NEW s, s \in Seq(Range(s)), NEW k \in 1..Len(s), NEW x,
         NEW t, t = InsertAt(s, k, x)
  PROVE  /\ t \in Seq(Range(t)) /\ Len(t) = Len(s) + 1
         /\ \A i \in 1..(k - 1) : t[i] = s[i]
         /\ t[k] = x
         /\ \A i \in (k + 1)..Len(t) : t[i] = s[i - 1]
<1> DEFINE S == Range(s) \cup {x}
           low == SubSeq(s, 1, k - 1)
           high == SubSeq(s, k, Len(s))
<1>1. s \in Seq(S) /\ x \in S /\ Len(s) \in Nat
  OBVIOUS
<1>2. low \in Seq(S) /\ Len(low) = k - 1 /\ \A i \in 1..(k - 1) : low[i] = s[i]
  BY <1>1
<1>3. /\ high \in Seq(S) /\ Len(high) = Len(s) - k + 1
      /\ \A i \in 1..(Len(s) - k + 1) : high[i] = s[k + i - 1]
  BY <1>1
<1>4. t = low \o <<x>> \o high
  BY DEF InsertAt
<1> HIDE DEF S, low, high
<1>5. t \in Seq(S) /\ Len(t) = Len(s) + 1
  <2>1. <<x>> \in Seq(S) /\ Len(<<x>>) = 1
    BY <1>1
  <2>2. low \o <<x>> \in Seq(S) /\ Len(low \o <<x>>) = k
    BY <1>2, <2>1
  <2>3. (low \o <<x>>) \o high \in Seq(S) /\ Len((low \o <<x>>) \o high) = Len(low \o <<x>>) + Len(high)
    BY <1>3, <2>2, Lengths
  <2>4. Len(t) = k + (Len(s) - k + 1)
    BY <1>3, <1>4, <2>2, <2>3
  <2> QED
    BY <1>1, <1>4, <2>3, <2>4
<1>6. \A i \in 1..(k - 1) : t[i] = s[i]
  BY <1>1, <1>2, <1>3, <1>4
<1>7. t[k] = x
  BY <1>1, <1>2, <1>3, <1>4
<1>8. ASSUME NEW i \in (k + 1)..Len(t) PROVE t[i] = s[i - 1]
  <2>1. i - k \in 1..(Len(s) - k + 1) /\ i \in Nat /\ k \in Nat
    BY <1>1, <1>5
  <2>2. t[i] = high[i - k]
    BY <1>1, <1>2, <1>3, <1>4, <1>5, <2>1
  <2>3. high[i - k] = s[k + (i - k) - 1] /\ k + (i - k) - 1 = i - 1
    BY <1>3, <2>1
  <2> QED
    BY <2>2, <2>3
<1>9. t \in Seq(Range(t))
  BY <1>5, OwnElements
<1> QED
  BY <1>5, <1>6, <1>7, <1>8, <1>9

-----------------------------------------------------------------------------
(* The terminator and an insertion before it.                               *)

\* In an ended body hw.output is its last operation.
LEMMA OutputLast ==
  ASSUME Ended, body # << >>
  PROVE  /\ Len(body) \in Nat \ {0}
         /\ Positions({"output"}) = {Len(body)}
         /\ HasOutput /\ output = Len(body)
<1>1. Len(body) \in Nat \ {0} /\ DOMAIN body = 1..Len(body)
  BY DEF Ended
<1>2. Positions({"output"}) = {Len(body)}
  BY <1>1 DEF Positions, Ended, Before
<1> QED
  BY <1>1, <1>2 DEF HasOutput, output

\* An empty body has no terminator.
LEMMA EmptyHasNone ==
  ASSUME body = << >>
  PROVE  ~HasOutput
  BY DEF HasOutput, Positions

\* The block after insert_before: what stood before the terminator stays, the plan
\* and the terminator follow.
LEMMA Inserted ==
  ASSUME Ended, body # << >>, NEW plan, body' = insert_before(plan)
  PROVE  /\ body' \in Seq(Range(body')) /\ Len(body') = Len(body) + 1
         /\ \A i \in Before : body'[i] = body[i]
         /\ body'[Len(body)] = plan
         /\ body'[Len(body) + 1] = body[Len(body)]
         /\ Len(body) \in Nat \ {0}
         /\ Before' = 1..Len(body)
<1>1. Len(body) \in Nat \ {0} /\ output = Len(body)
  BY OutputLast
<1>2. body' = InsertAt(body, Len(body), plan)
  BY <1>1 DEF insert_before
<1>3. body \in Seq(Range(body)) /\ Len(body) \in 1..Len(body)
  BY <1>1 DEF Ended
<1>4. /\ body' \in Seq(Range(body')) /\ Len(body') = Len(body) + 1
      /\ \A i \in 1..(Len(body) - 1) : body'[i] = body[i]
      /\ body'[Len(body)] = plan
      /\ \A i \in (Len(body) + 1)..Len(body') : body'[i] = body[i - 1]
  BY <1>2, <1>3, InsertFacts
<1>5. body'[Len(body) + 1] = body[Len(body)]
  BY <1>1, <1>4
<1> QED
  BY <1>1, <1>4, <1>5 DEF Before

\* An insertion of one of the kinds of a pass keeps the layout of the block and what
\* it says of declarations.
LEMMA InsertionKeeps ==
  ASSUME Ended, Grouped, body # << >>, NEW plan,
         plan.kind \in EmittedKinds, body' = insert_before(plan)
  PROVE  /\ Ended' /\ Grouped' /\ body' # << >>
         /\ Positions(PortKinds)' = Positions(PortKinds)
         /\ \A i \in Before : i \in Before' /\ body'[i] = body[i]
         /\ \A m, source : IsDeclarationOf(m, source) => IsDeclarationOf(m, source)'
<1>1. /\ body' \in Seq(Range(body')) /\ Len(body') = Len(body) + 1
      /\ \A i \in Before : body'[i] = body[i]
      /\ body'[Len(body)] = plan
      /\ body'[Len(body) + 1] = body[Len(body)]
      /\ Len(body) \in Nat \ {0}
      /\ Before' = 1..Len(body)
  BY Inserted
<1>2. body[Len(body)].kind = "output" /\ \A i \in Before : body[i].kind # "output"
  BY DEF Ended
<1>3. Ended' /\ body' # << >>
  BY <1>1, <1>2 DEF Ended, Before, EmittedKinds
<1>4. Grouped'
  BY <1>1, <1>2 DEF Grouped, Before
<1>5. DOMAIN body = 1..Len(body) /\ DOMAIN body' = 1..(Len(body) + 1)
  BY <1>1 DEF Ended
<1>6. Positions(PortKinds)' = Positions(PortKinds)
  BY <1>1, <1>2, <1>5 DEF Positions, PortKinds, EmittedKinds, Before
<1>7. \A i \in Before : i \in Before' /\ body'[i] = body[i]
  BY <1>1 DEF Before
<1> QED
  BY <1>3, <1>4, <1>6, <1>7 DEF IsDeclarationOf

-----------------------------------------------------------------------------
(* The invariant.                                                           *)

\* A body is made of sources, none of them inserted, and a terminator.
LEMMA InitInv == Init => IInv
<1> SUFFICES ASSUME Init PROVE IInv
  OBVIOUS
<1>1. pass = "idle"
  BY DEF Init
<1>2. CASE body = << >>
  <2>1. Ended /\ Positions({"mem_read", "mem_write"}) = {} /\ Before = {}
    BY <1>2 DEF Ended, Positions, Range, Before
  <2> QED
    BY <1>1, <2>1 DEF IInv, Grouped, Planned, Emitting, Declared, PortsPlanned, PortsEmitted, NoPartialPorts
<1>3. CASE body # << >>
  <2>1. PICK n \in 0..MaxSources : \E s \in [1..n -> Sources] : body = Append(s, [kind |-> "output"])
    BY <1>3 DEF Init, Bodies
  <2>2a. PICK d \in [1..n -> Sources] : body = Append(d, [kind |-> "output"])
    BY <2>1
  <2>2. n \in Nat /\ d \in Seq(Sources) /\ Len(d) = n
    BY <2>2a, BoundAssumption
  <2>3. /\ body \in Seq(Sources \cup {[kind |-> "output"]}) /\ Len(body) = n + 1
        /\ body[n + 1].kind = "output"
        /\ \A i \in 1..n : body[i] \in Sources
    BY <2>2a, <2>2
  <2>4. Before = 1..n /\ DOMAIN body = 1..(n + 1)
    BY <2>2, <2>3 DEF Before
  <2>5. \A i \in Before : body[i].kind # "output" /\ body[i].kind \notin EmittedKinds
    BY <2>3, <2>4, SourcesAssumption DEF EmittedKinds
  <2>6. Ended
    BY <2>2, <2>3, <2>5, OwnElements DEF Ended
  <2>7. Positions({"mem_read", "mem_write"}) = {}
    BY <2>2, <2>3, <2>4, <2>5 DEF Positions, EmittedKinds
  <2>8. PortsEmitted /\ Grouped
    BY <2>5 DEF PortsEmitted, Grouped, EmittedKinds
  <2> QED
    BY <1>1, <2>6, <2>7, <2>8 DEF IInv, Planned, Emitting, Declared, PortsPlanned, NoPartialPorts
<1> QED
  BY <1>2, <1>3

\* A step that changes no body keeps what is said of the body alone.
LEMMA SameBody ==
  ASSUME IInv, body' = body
  PROVE  Ended' /\ Grouped' /\ PortsEmitted' /\ NoPartialPorts'
  BY DEF IInv, Ended, Grouped, PortsEmitted, NoPartialPorts, Before, Positions, IsDeclarationOf

\* The operations of a kind that is not the terminator's stand before it.
LEMMA PositionsBefore ==
  ASSUME Ended, body # << >>, NEW K, "output" \notin K
  PROVE  Positions(K) \subseteq Before
<1>1. Len(body) \in Nat \ {0} /\ DOMAIN body = 1..Len(body) /\ body[Len(body)].kind = "output"
  BY OutputLast DEF Ended
<1> QED
  BY <1>1 DEF Positions, Before

\* An inserted operation that is no port disturbs nothing said of ports.
LEMMA NoPortInserted ==
  ASSUME IInv, body # << >>, NEW plan, plan.kind \in EmittedKinds \ {"mem_read", "mem_write"},
         body' = insert_before(plan)
  PROVE  PortsEmitted' /\ NoPartialPorts'
<1> DEFINE Ports == {"mem_read", "mem_write"}
<1>1. /\ body' \in Seq(Range(body')) /\ Len(body') = Len(body) + 1
      /\ \A i \in Before : body'[i] = body[i]
      /\ body'[Len(body)] = plan
      /\ body'[Len(body) + 1] = body[Len(body)]
      /\ Len(body) \in Nat \ {0}
      /\ Before' = 1..Len(body)
  BY Inserted DEF IInv
<1>2. /\ Positions(PortKinds)' = Positions(PortKinds)
      /\ \A i \in Before : i \in Before' /\ body'[i] = body[i]
      /\ \A m, source : IsDeclarationOf(m, source) => IsDeclarationOf(m, source)'
      /\ Ended'
  BY InsertionKeeps DEF IInv
<1>3. PortsEmitted'
  <2>1. \A i \in Before' : body'[i].kind \in Ports => i \in Before /\ body[i].kind \in Ports
    BY <1>1 DEF Before
  <2>2. ASSUME NEW i \in Before, body[i].kind \in Ports
        PROVE  ( /\ body[i].source \in Before
                 /\ IsDeclarationOf(body[i].memory, body[body[i].source].memory)
                 /\ body[i].memory < i )' 
    <3>1. /\ body[i].source \in Before
          /\ IsDeclarationOf(body[i].memory, body[body[i].source].memory)
          /\ body[i].memory < i
      BY <2>2 DEF IInv, PortsEmitted
    <3>2. body'[i] = body[i] /\ body'[body[i].source] = body[body[i].source] /\ body[i].source \in Before'
      BY <1>2, <3>1
    <3>3. IsDeclarationOf(body[i].memory, body[body[i].source].memory)'
      <4> HIDE DEF Ports
      <4>1. IsDeclarationOf(body[i].memory, body[body[i].source].memory)
        BY <3>1
      <4>2. body[i].memory \in Before /\ body[body[i].memory].kind = "mem_decl"
            /\ body[body[i].memory].source = body[body[i].source].memory
        BY <4>1 DEF IsDeclarationOf
      <4> QED
        BY <1>2, <3>2, <4>2 DEF IsDeclarationOf
    <3> QED
      BY <3>1, <3>2, <3>3
  <2> QED
    BY <2>1, <2>2 DEF PortsEmitted
<1>4. NoPartialPorts'
  <2>1. DOMAIN body = 1..Len(body) /\ DOMAIN body' = 1..(Len(body) + 1) /\ body[Len(body)].kind = "output"
    BY <1>1 DEF IInv, Ended
  <2>2. Positions({"mem_read", "mem_write"})' \subseteq Positions({"mem_read", "mem_write"})
    BY <1>1, <2>1 DEF Positions, Before
  <2>3. Positions(PortKinds) \subseteq Before
    BY PositionsBefore DEF IInv, PortKinds
  <2> QED
    BY <1>2, <2>2, <2>3 DEF IInv, NoPartialPorts
<1> QED
  BY <1>3, <1>4

-----------------------------------------------------------------------------
(* The steps.                                                               *)

\* Between calls nothing is planned, and the body is what it was.
LEMMA IdleInv ==
  ASSUME IInv, body' = body, pass' = "idle"
  PROVE  IInv'
  BY SameBody DEF IInv, Planned, Emitting, Declared, PortsPlanned

\* A call starts with no memory declared.
LEMMA CallInv ==
  ASSUME IInv, NEW function, Call(function)
  PROVE  IInv'
<1>1. body' = body /\ pass' = "plan_registers" /\ DOMAIN memory_values' = {}
  BY DEF Call
<1> QED
  BY <1>1, SameBody DEF IInv, Planned, Emitting, Declared, PortsPlanned

\* The planning of the registers.
LEMMA PlanRegistersInv == ASSUME IInv, PlanRegisters PROVE IInv'
<1>1. /\ body' = body /\ pass = "plan_registers" /\ pass' = "emit_registers"
      /\ body # << >> /\ memory_values' = memory_values
  BY EmptyHasNone DEF PlanRegisters
<1>2. \A i \in Positions(RegisterKinds) : i \in Before
  BY <1>1, PositionsBefore DEF RegisterKinds, IInv
<1>3. \A p \in plans' : p.kind \in {"always_ff", "always_ff_no_reset"} /\ p.source \in Before
  BY <1>2 DEF PlanRegisters, RegisterPlan
<1>4. Before' = Before /\ PlanKinds' = {"always_ff", "always_ff_no_reset"}
  BY <1>1 DEF Before, PlanKinds
<1>5. Planned'
  BY <1>1, <1>3, <1>4 DEF Planned
<1> QED
  BY <1>1, <1>4, <1>5, SameBody DEF IInv, Declared, PortsPlanned, IsDeclarationOf

\* The insertion of a register.
LEMMA EmitRegisterInv == ASSUME IInv, NEW plan \in plans, EmitRegister(plan) PROVE IInv'
<1>1. /\ pass = "emit_registers" /\ pass' = "emit_registers"
      /\ body' = insert_before(plan) /\ plans' = plans \ {plan}
      /\ memory_values' = memory_values
  BY DEF EmitRegister
<1>2. /\ body # << >> /\ plan.kind \in {"always_ff", "always_ff_no_reset"}
      /\ \A p \in plans : p.kind \in PlanKinds /\ p.source \in Before
  BY <1>1 DEF IInv, Planned, Emitting, PlanKinds
<1>3. /\ Ended' /\ Grouped' /\ body' # << >> /\ \A i \in Before : i \in Before'
      /\ \A m, source : IsDeclarationOf(m, source) => IsDeclarationOf(m, source)'
  BY <1>1, <1>2, InsertionKeeps DEF IInv, EmittedKinds
<1>4. PortsEmitted' /\ NoPartialPorts'
  BY <1>1, <1>2, NoPortInserted DEF EmittedKinds
<1>5. Planned'
  BY <1>1, <1>2, <1>3 DEF Planned, PlanKinds
<1>6. Declared'
  BY <1>1, <1>3 DEF IInv, Declared
<1> QED
  BY <1>1, <1>3, <1>4, <1>5, <1>6 DEF IInv, PortsPlanned

\* The planning of the memories.
LEMMA PlanMemoriesInv == ASSUME IInv, PlanMemories PROVE IInv'
<1>1. /\ body' = body /\ pass = "emit_registers" /\ pass' = "emit_memories"
      /\ body # << >> /\ memory_values' = memory_values
  BY DEF PlanMemories, IInv, Planned, Emitting
<1>2. \A i \in Positions({"hlmem"}) : i \in Before
  BY <1>1, PositionsBefore DEF IInv
<1>3. \A p \in plans' : p.kind = "mem_decl" /\ p.source \in Before
  BY <1>2 DEF PlanMemories, MemoryPlan
<1>4. Before' = Before /\ PlanKinds' = {"mem_decl"}
  BY <1>1 DEF Before, PlanKinds
<1>5. Planned'
  BY <1>1, <1>3, <1>4 DEF Planned
<1> QED
  BY <1>1, <1>4, <1>5, SameBody DEF IInv, Declared, PortsPlanned, IsDeclarationOf

\* The insertion of a declaration, which memory_values then maps its memory to.
LEMMA EmitMemoryInv == ASSUME IInv, NEW plan \in plans, EmitMemory(plan) PROVE IInv'
<1>1. /\ pass = "emit_memories" /\ pass' = "emit_memories"
      /\ body' = insert_before(plan) /\ plans' = plans \ {plan}
      /\ DOMAIN memory_values' = DOMAIN memory_values \cup {plan.source}
      /\ memory_values'[plan.source] = output
      /\ \A m \in DOMAIN memory_values \ {plan.source} : memory_values'[m] = memory_values[m]
  BY DEF EmitMemory
<1>2. /\ body # << >> /\ plan.kind = "mem_decl" /\ plan.source \in Before
      /\ \A p \in plans : p.kind \in PlanKinds /\ p.source \in Before
  BY <1>1 DEF IInv, Planned, Emitting, PlanKinds
<1>3. /\ Ended' /\ Grouped' /\ body' # << >> /\ \A i \in Before : i \in Before'
      /\ \A m, source : IsDeclarationOf(m, source) => IsDeclarationOf(m, source)'
  BY <1>1, <1>2, InsertionKeeps DEF IInv, EmittedKinds
<1>4. PortsEmitted' /\ NoPartialPorts'
  BY <1>1, <1>2, NoPortInserted DEF EmittedKinds
<1>5. Planned'
  BY <1>1, <1>2, <1>3 DEF Planned, PlanKinds
<1>6. Declared'
  <2>1. body'[output] = plan /\ output \in Before'
    BY <1>1, <1>2, Inserted, OutputLast DEF IInv
  <2>2. IsDeclarationOf(memory_values[plan.source], plan.source)'
    BY <1>1, <1>2, <2>1 DEF IsDeclarationOf
  <2>3. \A m \in DOMAIN memory_values \ {plan.source} :
          m \in Before /\ IsDeclarationOf(memory_values[m], m)
    BY <1>1 DEF IInv, Declared
  <2>4. \A m \in DOMAIN memory_values \ {plan.source} :
          m \in Before' /\ IsDeclarationOf(memory_values[m], m)'
    BY <1>1, <1>3, <2>3 DEF IsDeclarationOf
  <2> QED
    BY <1>1, <1>2, <1>3, <2>2, <2>4 DEF Declared
<1> QED
  BY <1>1, <1>3, <1>4, <1>5, <1>6 DEF IInv, PortsPlanned

\* The planning of the ports, once every one of them has a declared memory.
LEMMA PlanPortsInv == ASSUME IInv, PlanPorts PROVE IInv'
<1>1. /\ body' = body /\ pass = "emit_memories" /\ pass' = "emit_ports"
      /\ body # << >> /\ memory_values' = memory_values
  BY DEF PlanPorts, IInv, Planned, Emitting
<1>2. \A i \in Positions(PortKinds) : i \in Before /\ body[i].memory \in DOMAIN memory_values
  BY <1>1, PositionsBefore DEF IInv, PlanPorts, Undeclared, PortKinds
<1>3. \A p \in plans' : /\ p.kind \in {"mem_read", "mem_write"} /\ p.source \in Positions(PortKinds)
                         /\ p.memory = memory_values[body[p.source].memory]
  BY DEF PlanPorts, PortPlan
<1>4. Before' = Before /\ PlanKinds' = {"mem_read", "mem_write"} /\ Positions(PortKinds)' = Positions(PortKinds)
  BY <1>1 DEF Before, PlanKinds, Positions
<1>5. Planned'
  BY <1>1, <1>2, <1>3, <1>4 DEF Planned
<1>6. PortsPlanned'
  <2>1. \A p \in plans' : IsDeclarationOf(p.memory, body[p.source].memory)
    BY <1>1, <1>2, <1>3 DEF IInv, Declared
  <2> QED
    BY <1>1, <1>2, <1>4, <2>1 DEF PortsPlanned, IsDeclarationOf
<1> QED
  BY <1>1, <1>4, <1>5, <1>6, SameBody DEF IInv, Declared, IsDeclarationOf

\* The insertion of a port: its declaration and the source of it stand before.
LEMMA EmitPortInv == ASSUME IInv, NEW plan \in plans, EmitPort(plan) PROVE IInv'
<1> DEFINE Ports == {"mem_read", "mem_write"}
<1>1. /\ pass = "emit_ports" /\ pass' = "emit_ports"
      /\ body' = insert_before(plan) /\ plans' = plans \ {plan}
      /\ memory_values' = memory_values
  BY DEF EmitPort
<1>2. /\ body # << >> /\ plan.kind \in Ports /\ plan.source \in Before
      /\ \A p \in plans : p.kind \in PlanKinds /\ p.source \in Before
  BY <1>1 DEF IInv, Planned, Emitting, PlanKinds
<1>3. /\ Ended' /\ Grouped' /\ body' # << >>
      /\ Positions(PortKinds)' = Positions(PortKinds)
      /\ \A i \in Before : i \in Before' /\ body'[i] = body[i]
      /\ \A m, source : IsDeclarationOf(m, source) => IsDeclarationOf(m, source)'
  BY <1>1, <1>2, InsertionKeeps DEF IInv, EmittedKinds
<1>4. /\ body'[Len(body)] = plan /\ Len(body) \in Nat \ {0} /\ Before' = 1..Len(body)
  BY <1>1, <1>2, Inserted DEF IInv
<1>5. Planned'
  BY <1>1, <1>2, <1>3 DEF Planned, PlanKinds
<1>6. Declared'
  BY <1>1, <1>3 DEF IInv, Declared
<1>7. \A i \in Positions(PortKinds) : i \in Before /\ body[i].memory \in Before
  BY <1>1, <1>2, PositionsBefore DEF IInv, PortsPlanned, Declared, PortKinds
<1>8. PortsPlanned'
  <2>1. \A p \in plans : IsDeclarationOf(p.memory, body[p.source].memory)
    BY <1>1 DEF IInv, PortsPlanned
  <2>2. \A p \in plans : body'[p.source] = body[p.source] /\ IsDeclarationOf(p.memory, body[p.source].memory)'
    BY <1>2, <1>3, <2>1 DEF IsDeclarationOf
  <2>3. \A i \in Positions(PortKinds) : body'[i].memory \in DOMAIN memory_values
    BY <1>1, <1>3, <1>7 DEF IInv, PortsPlanned
  <2> QED
    BY <1>1, <1>3, <2>2, <2>3 DEF PortsPlanned
<1>9. NoPartialPorts'
  <2>1. \A i \in Positions(PortKinds) : body'[i].memory # BlockArg
    BY <1>3, <1>4, <1>7 DEF BlockArg, Before
  <2> QED
    BY <1>3, <2>1 DEF NoPartialPorts
<1>10. PortsEmitted'
  <2>1. ASSUME NEW i \in Before, body[i].kind \in Ports
        PROVE  ( /\ body[i].source \in Before
                 /\ IsDeclarationOf(body[i].memory, body[body[i].source].memory)
                 /\ body[i].memory < i )'
    <3>1. /\ body[i].source \in Before
          /\ IsDeclarationOf(body[i].memory, body[body[i].source].memory)
          /\ body[i].memory < i
      BY <2>1 DEF IInv, PortsEmitted
    <3>2. body'[i] = body[i] /\ body'[body[i].source] = body[body[i].source] /\ body[i].source \in Before'
      BY <1>3, <3>1
    <3>3. body[i].memory \in Before /\ body[body[i].memory].kind = "mem_decl"
          /\ body[body[i].memory].source = body[body[i].source].memory
      BY <3>1 DEF IsDeclarationOf
    <3>4. IsDeclarationOf(body[i].memory, body[body[i].source].memory)'
      BY <1>3, <3>2, <3>3 DEF IsDeclarationOf
    <3> QED
      BY <3>1, <3>2, <3>4
  <2>2. PICK n \in Nat : n = Len(body)
    BY <1>4
  <2>3. n \in Before' /\ body'[n] = plan /\ body'[plan.source] = body[plan.source] /\ plan.source \in Before'
    BY <1>2, <1>3, <1>4, <2>2
  <2>4. IsDeclarationOf(plan.memory, body[plan.source].memory)
    BY <1>1 DEF IInv, PortsPlanned
  <2>5. IsDeclarationOf(body[n].memory, body[body[n].source].memory)'
    BY <1>3, <2>3, <2>4 DEF IsDeclarationOf
  <2>6. plan.memory < n
    BY <1>4, <2>2, <2>4 DEF IsDeclarationOf, Before
  <2>7. \A i \in Before' : i = n \/ (i \in Before /\ body'[i] = body[i])
    BY <1>3, <1>4, <2>2 DEF Before
  <2> QED
    BY <2>1, <2>3, <2>5, <2>6, <2>7 DEF PortsEmitted
<1> QED
  BY <1>3, <1>5, <1>6, <1>8, <1>9, <1>10 DEF IInv

\* Every step of a call keeps the invariant.
LEMMA NextInv == IInv /\ [Next]_vars => IInv'
<1> SUFFICES ASSUME IInv, [Next]_vars PROVE IInv'
  OBVIOUS
<1>1. ASSUME NEW function, Call(function) PROVE IInv'
  BY <1>1, CallInv
<1>2. CASE NoTerminator \/ UnknownMemory \/ RegistersDone \/ ModuleDone
  BY <1>2, IdleInv DEF NoTerminator, UnknownMemory, Fail, RegistersDone, ModuleDone
<1>3. CASE PlanRegisters
  BY <1>3, PlanRegistersInv
<1>4. CASE PlanMemories
  BY <1>4, PlanMemoriesInv
<1>5. CASE PlanPorts
  BY <1>5, PlanPortsInv
<1>6. ASSUME NEW plan \in plans, EmitRegister(plan) PROVE IInv'
  BY <1>6, EmitRegisterInv
<1>7. ASSUME NEW plan \in plans, EmitMemory(plan) PROVE IInv'
  BY <1>7, EmitMemoryInv
<1>8. ASSUME NEW plan \in plans, EmitPort(plan) PROVE IInv'
  BY <1>8, EmitPortInv
<1>9. CASE UNCHANGED vars
  BY <1>9, SameBody DEF vars, IInv, Planned, Emitting, PlanKinds, Declared, PortsPlanned,
     Positions, Before, IsDeclarationOf
<1> QED
  BY <1>1, <1>2, <1>3, <1>4, <1>5, <1>6, <1>7, <1>8, <1>9 DEF Next, Stopped

-----------------------------------------------------------------------------
(* The theorems.                                                            *)

\* The invariant holds of every body and after any number of calls.
THEOREM Layout == Spec => []IInv
<1> QED
  BY InitInv, NextInv, PTL DEF Spec

\* hw.output stays the terminator and nothing is inserted among the source
\* operations, for every body and any number of complete or failed calls.
THEOREM TerminatorStays == Spec => []TerminatorLast
<1>1. IInv => TerminatorLast
  <2> SUFFICES ASSUME IInv, HasOutput PROVE TerminatorLast
    BY DEF TerminatorLast
  <2>1. body # << >> /\ output = Len(body) /\ Len(body) \in Nat \ {0}
    BY OutputLast, EmptyHasNone DEF IInv
  <2>2. Emitted \subseteq Before
    BY <2>1, PositionsBefore DEF IInv, Emitted, EmittedKinds
  <2>3. ASSUME NEW i \in Emitted, NEW j \in (i + 1)..(output - 1) PROVE j \in Emitted
    <3>1. i \in Before /\ body[i].kind \in EmittedKinds /\ j \in (i + 1)..(Len(body) - 1)
      BY <2>1, <2>2 DEF Emitted, Positions
    <3>2. body[j].kind \in EmittedKinds /\ j \in DOMAIN body
      BY <2>1, <3>1 DEF IInv, Ended, Grouped, Before
    <3> QED
      BY <3>2 DEF Emitted, Positions
  <2> QED
    BY <2>1, <2>3 DEF TerminatorLast
<1> QED
  BY <1>1, Layout, PTL

\* Every port ever inserted uses the declaration of its own memory, which stands
\* before it, for every body and however the memories are named.
THEOREM PortsOwn == Spec => []PortsUseOwnMemory
<1>1. IInv => PortsUseOwnMemory
  <2> SUFFICES ASSUME IInv, NEW i \in Positions({"mem_read", "mem_write"})
               PROVE  /\ body[i].memory < i /\ body[body[i].memory].kind = "mem_decl"
                      /\ body[body[i].memory].source = body[body[i].source].memory
    BY DEF PortsUseOwnMemory
  <2>1. body # << >>
    BY DEF Positions
  <2>2. i \in Before /\ body[i].kind \in {"mem_read", "mem_write"}
    BY <2>1, PositionsBefore DEF IInv, Positions
  <2> QED
    BY <2>2 DEF IInv, PortsEmitted, IsDeclarationOf
<1> QED
  BY <1>1, Layout, PTL

\* A module with one port on an unknown memory never gets any port, for every body
\* and however often the call is repeated.
THEOREM PortsAllOrNone == Spec => []NoPartialPorts
<1>1. IInv => NoPartialPorts
  BY DEF IInv
<1> QED
  BY <1>1, Layout, PTL

-----------------------------------------------------------------------------
(* What an accepted module holds and what a call reports, for every body    *)
(* and any number of calls.                                                 *)
(*                                                                          *)
(* Every inserted operation is traced to its source: it is of the kind and  *)
(* under the name that the source decides.  A second copy therefore meets   *)
(* the first one's name when the module is validated.  Writes are not       *)
(* looked up by name, but two writes of one source use two declarations of  *)
(* one memory.                                                              *)

\* The kind a source operation is lowered to.
LoweredKind(kind) ==
  CASE kind = "compreg" -> "always_ff_no_reset"
    [] kind = "firreg"  -> "always_ff"
    [] kind = "hlmem"   -> "mem_decl"
    [] kind = "read"    -> "mem_read"
    [] kind = "write"   -> "mem_write"

SourceKinds == {"compreg", "firreg", "hlmem", "read", "write"}

\* The name a source operation is lowered to.
TargetOf(s) ==
  IF body[s].kind \in RegisterKinds THEN RegisterPlan(s).target
  ELSE IF body[s].kind = "hlmem" THEN MemoryPlan(s).target
  ELSE <<IF body[s].kind = "read" THEN "read_data_" ELSE "write_mem_",
         Ordinal(s, Positions(PortKinds))>>

\* An operation, planned or inserted, is what its source is lowered to.
FromSource(op) ==
  /\ op.source \in Before /\ body[op.source].kind \in SourceKinds
  /\ op.kind = LoweredKind(body[op.source].kind)
  /\ op.target = TargetOf(op.source)

Sourced ==
  /\ \A i \in Before : body[i].kind \in EmittedKinds => FromSource(body[i])
  /\ Emitting => \A p \in plans : FromSource(p)

\* A source is planned once.
PlannedOnce ==
  Emitting => \A p, q \in plans : p.source = q.source => p = q

MemPorts == {"mem_read", "mem_write"}

\* The ports of one source use different declarations, those of earlier calls too.
PortsApart ==
  \A i, j \in Before :
    /\ body[i].kind \in MemPorts /\ body[j].kind \in MemPorts
    /\ i # j /\ body[i].source = body[j].source
    => body[i].memory # body[j].memory

\* The declarations of the running call come after every earlier port.
MemoriesFresh ==
  pass = "emit_memories" =>
    \A m \in DOMAIN memory_values : \A i \in Before :
      body[i].kind \in MemPorts => i < memory_values[m]

\* A planned port has a declaration that no port of its source has used.
PlansFresh ==
  pass = "emit_ports" =>
    \A p \in plans : \A i \in Before :
      body[i].kind \in MemPorts /\ body[i].source = p.source => body[i].memory # p.memory

\* Until the memories are planned the call has declared none.
NoneDeclaredYet ==
  pass \in {"plan_registers", "emit_registers"} => DOMAIN memory_values = {}

OInv ==
  Sourced /\ PlannedOnce /\ PortsApart /\ MemoriesFresh /\ PlansFresh /\ NoneDeclaredYet

-----------------------------------------------------------------------------
(* Names.                                                                   *)

\* What a source is lowered to does not depend on what has been inserted.
LEMMA TargetsKept ==
  ASSUME Ended, Grouped, body # << >>, NEW plan,
         plan.kind \in EmittedKinds, body' = insert_before(plan)
  PROVE  /\ \A K : K \cap (EmittedKinds \cup {"output"}) = {} => Positions(K)' = Positions(K)
         /\ \A s \in Before : s \in Before' /\ body'[s] = body[s] /\ TargetOf(s)' = TargetOf(s)
         /\ \A op : FromSource(op) => FromSource(op)'
<1>1. /\ body' \in Seq(Range(body')) /\ Len(body') = Len(body) + 1
      /\ \A i \in Before : body'[i] = body[i]
      /\ body'[Len(body)] = plan
      /\ body'[Len(body) + 1] = body[Len(body)]
      /\ Len(body) \in Nat \ {0}
      /\ Before' = 1..Len(body)
  BY Inserted
<1>2. body[Len(body)].kind = "output" /\ DOMAIN body = 1..Len(body) /\ DOMAIN body' = 1..(Len(body) + 1)
  BY <1>1 DEF Ended
<1>3. \A K : K \cap (EmittedKinds \cup {"output"}) = {} => Positions(K)' = Positions(K)
  BY <1>1, <1>2 DEF Positions, Before
<1>4. /\ Positions(RegisterKinds)' = Positions(RegisterKinds)
      /\ Positions({"hlmem"})' = Positions({"hlmem"})
      /\ Positions(PortKinds)' = Positions(PortKinds)
  BY <1>3 DEF RegisterKinds, PortKinds, EmittedKinds
<1>5. ASSUME NEW s \in Before
      PROVE  s \in Before' /\ body'[s] = body[s] /\ TargetOf(s)' = TargetOf(s)
  <2>1. s \in Before' /\ body'[s] = body[s]
    BY <1>1 DEF Before
  <2> QED
    BY <1>4, <2>1 DEF TargetOf, RegisterPlan, MemoryPlan, Ordinal
<1> QED
  BY <1>3, <1>5 DEF FromSource

\* Nor on a step that leaves the body alone.
LEMMA TargetsSame ==
  ASSUME body' = body
  PROVE  /\ Before' = Before /\ \A K : Positions(K)' = Positions(K)
         /\ \A s : TargetOf(s)' = TargetOf(s)
         /\ \A op : FromSource(op)' <=> FromSource(op)
<1>1. Before' = Before /\ \A K : Positions(K)' = Positions(K)
  BY DEF Before, Positions
<1>2. \A s : TargetOf(s)' = TargetOf(s)
  BY <1>1 DEF TargetOf, RegisterPlan, MemoryPlan, Ordinal
<1> QED
  BY <1>1, <1>2 DEF FromSource

-----------------------------------------------------------------------------
(* The sources of what is inserted.                                         *)

\* Before the first call nothing is inserted.
LEMMA NothingInserted == Init => /\ pass = "idle"
                                 /\ \A i \in Before : body[i].kind \notin EmittedKinds
<1> SUFFICES ASSUME Init PROVE \A i \in Before : body[i].kind \notin EmittedKinds
  BY DEF Init
<1>1. CASE body = << >>
  BY <1>1 DEF Before
<1>2. CASE body # << >>
  <2>1. PICK n \in 0..MaxSources : \E s \in [1..n -> Sources] : body = Append(s, [kind |-> "output"])
    BY <1>2 DEF Init, Bodies
  <2>2. PICK d \in [1..n -> Sources] : body = Append(d, [kind |-> "output"])
    BY <2>1
  <2>3. n \in Nat /\ d \in Seq(Sources) /\ Len(d) = n
    BY <2>2, BoundAssumption
  <2>4. Len(body) = n + 1 /\ \A i \in 1..n : body[i] \in Sources
    BY <2>2, <2>3
  <2> QED
    BY <2>3, <2>4, SourcesAssumption DEF Before, EmittedKinds
<1> QED
  BY <1>1, <1>2

LEMMA OriginInit == Init => OInv
<1> SUFFICES ASSUME Init PROVE OInv
  OBVIOUS
<1>1. pass = "idle" /\ \A i \in Before : body[i].kind \notin EmittedKinds
  BY NothingInserted
<1> QED
  BY <1>1 DEF OInv, Sourced, PlannedOnce, PortsApart, MemoriesFresh, PlansFresh, NoneDeclaredYet,
     Emitting, MemPorts, EmittedKinds

\* A call that starts or ends leaves the traces alone.
LEMMA OriginIdle ==
  ASSUME OInv, body' = body,
         \/ pass' = "idle"
         \/ pass' = "plan_registers" /\ DOMAIN memory_values' = {}
  PROVE  OInv'
<1>1. Before' = Before /\ \A op : FromSource(op)' <=> FromSource(op)
  BY TargetsSame
<1> QED
  BY <1>1 DEF OInv, Sourced, PlannedOnce, PortsApart, MemoriesFresh, PlansFresh, NoneDeclaredYet, Emitting

\* Registers are planned for the registers of the body.
LEMMA OriginPlanRegisters == ASSUME IInv, OInv, PlanRegisters PROVE OInv'
<1> USE DEF IInv, OInv
<1>1. /\ body' = body /\ pass' = "emit_registers" /\ body # << >>
      /\ plans' = {RegisterPlan(i) : i \in Positions(RegisterKinds)}
  BY EmptyHasNone DEF PlanRegisters
<1>2. Before' = Before /\ \A op : FromSource(op)' <=> FromSource(op)
  BY <1>1, TargetsSame
<1>3. \A i \in Positions(RegisterKinds) : i \in Before /\ body[i].kind \in RegisterKinds
  BY <1>1, PositionsBefore DEF RegisterKinds, Positions
<1>4. ASSUME NEW i \in Positions(RegisterKinds)
      PROVE  FromSource(RegisterPlan(i)) /\ RegisterPlan(i).source = i
  <2>1. RegisterPlan(i).source = i /\ RegisterPlan(i).kind = LoweredKind(body[i].kind)
    BY <1>3 DEF RegisterPlan, LoweredKind, RegisterKinds
  <2>2. RegisterPlan(i).target = TargetOf(i)
    BY <1>3 DEF TargetOf
  <2> QED
    BY <1>3, <2>1, <2>2 DEF FromSource, SourceKinds, RegisterKinds
<1>5. Sourced'
  BY <1>1, <1>2, <1>4 DEF Sourced
<1>6. PlannedOnce'
  BY <1>1, <1>4 DEF PlannedOnce
<1> QED
  BY <1>1, <1>2, <1>5, <1>6 DEF PlanRegisters, PortsApart, MemoriesFresh, PlansFresh, NoneDeclaredYet

\* Declarations are planned for the memories of the body; none is made yet.
LEMMA OriginPlanMemories ==
  ASSUME IInv, OInv, PlanMemories
  PROVE  OInv'
<1> USE DEF IInv, OInv
<1>1. /\ body' = body /\ pass' = "emit_memories" /\ body # << >> /\ memory_values' = memory_values
      /\ plans' = {MemoryPlan(i) : i \in Positions({"hlmem"})}
  BY DEF PlanMemories, Planned, Emitting
<1>2. Before' = Before /\ \A op : FromSource(op)' <=> FromSource(op)
  BY <1>1, TargetsSame
<1>3. \A i \in Positions({"hlmem"}) : i \in Before /\ body[i].kind = "hlmem"
  BY <1>1, PositionsBefore DEF Positions
<1>4. ASSUME NEW i \in Positions({"hlmem"})
      PROVE  FromSource(MemoryPlan(i)) /\ MemoryPlan(i).source = i
  <2>1. MemoryPlan(i).source = i /\ MemoryPlan(i).kind = LoweredKind(body[i].kind)
    BY <1>3 DEF MemoryPlan, LoweredKind
  <2>2. MemoryPlan(i).target = TargetOf(i)
    BY <1>3 DEF TargetOf, RegisterKinds
  <2> QED
    BY <1>3, <2>1, <2>2 DEF FromSource, SourceKinds
<1>5. Sourced'
  BY <1>1, <1>2, <1>4 DEF Sourced
<1>6. PlannedOnce'
  BY <1>1, <1>4 DEF PlannedOnce
<1> QED
  BY <1>1, <1>2, <1>5, <1>6 DEF PlanMemories, PortsApart, MemoriesFresh, PlansFresh, NoneDeclaredYet

\* Ports are planned for the ports of the body, with declarations of this call.
LEMMA OriginPlanPorts == ASSUME IInv, OInv, PlanPorts PROVE OInv'
<1> USE DEF IInv, OInv
<1>1. /\ body' = body /\ pass = "emit_memories" /\ pass' = "emit_ports" /\ body # << >>
      /\ plans' = {PortPlan(i) : i \in Positions(PortKinds)}
  BY DEF PlanPorts, Planned, Emitting
<1>2. Before' = Before /\ \A op : FromSource(op)' <=> FromSource(op)
  BY <1>1, TargetsSame
<1>3. \A i \in Positions(PortKinds) : /\ i \in Before /\ body[i].kind \in PortKinds
                                      /\ body[i].memory \in DOMAIN memory_values
  BY <1>1, PositionsBefore DEF PortKinds, Positions, PlanPorts, Undeclared
<1>4. ASSUME NEW i \in Positions(PortKinds)
      PROVE  /\ FromSource(PortPlan(i)) /\ PortPlan(i).source = i
             /\ PortPlan(i).memory = memory_values[body[i].memory]
  <2>1. /\ PortPlan(i).source = i /\ PortPlan(i).kind = LoweredKind(body[i].kind)
        /\ PortPlan(i).memory = memory_values[body[i].memory]
    BY <1>3 DEF PortPlan, LoweredKind, PortKinds
  <2>2. PortPlan(i).target = TargetOf(i)
    BY <1>3 DEF PortPlan, TargetOf, RegisterKinds, PortKinds
  <2> QED
    BY <1>3, <2>1, <2>2 DEF FromSource, SourceKinds, PortKinds
<1>5. Sourced'
  BY <1>1, <1>2, <1>4 DEF Sourced
<1>6. PlannedOnce'
  BY <1>1, <1>4 DEF PlannedOnce
<1>7. PlansFresh'
  <2> SUFFICES ASSUME NEW k \in Positions(PortKinds), NEW i \in Before, body[i].kind \in MemPorts
               PROVE  body[i].memory # PortPlan(k).memory
    BY <1>1, <1>2 DEF PlansFresh
  <2>1. i < memory_values[body[k].memory] /\ memory_values[body[k].memory] \in Before
    BY <1>1, <1>3 DEF MemoriesFresh, Declared, IsDeclarationOf
  <2>2. body[i].memory < i /\ body[i].memory \in Before
    BY DEF MemPorts, PortsEmitted, IsDeclarationOf
  <2> QED
    BY <1>4, <2>1, <2>2 DEF Before
<1> QED
  BY <1>1, <1>2, <1>5, <1>6, <1>7 DEF PortsApart, MemoriesFresh, NoneDeclaredYet

\* An insertion of any pass keeps every trace, the inserted operation's included.
LEMMA OriginEmit ==
  ASSUME IInv, OInv, Emitting, NEW plan \in plans, body' = insert_before(plan),
         plans' = plans \ {plan}, pass' = pass
  PROVE  /\ Sourced' /\ PlannedOnce' /\ plan.kind \in EmittedKinds
         /\ Len(body) \in Nat \ {0} /\ body'[Len(body)] = plan /\ Before' = 1..Len(body)
         /\ \A i \in Before : i < Len(body) /\ body'[i] = body[i]
         /\ \A i \in Before' : i = Len(body) \/ i \in Before
<1> USE DEF IInv, OInv
<1>1. body # << >> /\ plan.kind \in EmittedKinds
  BY DEF Emitting, Planned, PlanKinds, EmittedKinds
<1>2. /\ body'[Len(body)] = plan /\ Before' = 1..Len(body) /\ Len(body) \in Nat \ {0}
      /\ \A i \in Before : body'[i] = body[i]
  BY <1>1, Inserted
<1>3. \A op : FromSource(op) => FromSource(op)'
  BY <1>1, TargetsKept
<1>4. /\ \A i \in Before : i < Len(body)
      /\ \A i \in Before' : i = Len(body) \/ i \in Before
  BY <1>2 DEF Before
<1>5. Sourced'
  BY <1>2, <1>3, <1>4 DEF Sourced, Emitting
<1>6. PlannedOnce'
  BY DEF PlannedOnce, Emitting
<1> QED
  BY <1>1, <1>2, <1>4, <1>5, <1>6

LEMMA OriginEmitRegister ==
  ASSUME IInv, OInv, NEW plan \in plans, EmitRegister(plan)
  PROVE  OInv'
<1>1. /\ pass = "emit_registers" /\ pass' = pass /\ body' = insert_before(plan)
      /\ plans' = plans \ {plan} /\ memory_values' = memory_values /\ Emitting
  BY DEF EmitRegister, Emitting
<1>2. plan.kind \notin MemPorts
  BY <1>1 DEF IInv, Planned, PlanKinds, MemPorts
<1>3. /\ Sourced' /\ PlannedOnce' /\ body'[Len(body)] = plan
      /\ \A i \in Before : body'[i] = body[i]
      /\ \A i \in Before' : i = Len(body) \/ i \in Before
  BY <1>1, OriginEmit
<1>4. PortsApart'
  BY <1>2, <1>3 DEF OInv, PortsApart
<1> QED
  BY <1>1, <1>3, <1>4 DEF OInv, MemoriesFresh, PlansFresh, NoneDeclaredYet

\* The new declaration comes after every port there is.
LEMMA OriginEmitMemory ==
  ASSUME IInv, OInv, NEW plan \in plans, EmitMemory(plan)
  PROVE  OInv'
<1>1. /\ pass = "emit_memories" /\ pass' = pass /\ body' = insert_before(plan)
      /\ plans' = plans \ {plan} /\ Emitting
      /\ DOMAIN memory_values' = DOMAIN memory_values \cup {plan.source}
      /\ memory_values'[plan.source] = output
      /\ \A m \in DOMAIN memory_values \ {plan.source} : memory_values'[m] = memory_values[m]
  BY DEF EmitMemory, Emitting
<1>2. plan.kind \notin MemPorts /\ output = Len(body)
  BY <1>1, OutputLast DEF IInv, Planned, PlanKinds, MemPorts
<1>3. /\ Sourced' /\ PlannedOnce' /\ body'[Len(body)] = plan
      /\ \A i \in Before : i < Len(body) /\ body'[i] = body[i]
      /\ \A i \in Before' : i = Len(body) \/ i \in Before
  BY <1>1, OriginEmit
<1>4. PortsApart'
  BY <1>2, <1>3 DEF OInv, PortsApart
<1>5. MemoriesFresh'
  <2> SUFFICES ASSUME NEW m \in DOMAIN memory_values', NEW i \in Before', body'[i].kind \in MemPorts
               PROVE  i < memory_values'[m]
    BY DEF MemoriesFresh
  <2>1. i \in Before /\ body[i].kind \in MemPorts
    BY <1>2, <1>3
  <2> QED
    BY <1>1, <1>2, <1>3, <2>1 DEF OInv, MemoriesFresh
<1> QED
  BY <1>1, <1>3, <1>4, <1>5 DEF OInv, PlansFresh, NoneDeclaredYet

\* The new port uses a declaration no port of its source has used, and the ports
\* still planned are of other sources.
LEMMA OriginEmitPort ==
  ASSUME IInv, OInv, NEW plan \in plans, EmitPort(plan)
  PROVE  OInv'
<1>1. /\ pass = "emit_ports" /\ pass' = pass /\ body' = insert_before(plan)
      /\ plans' = plans \ {plan} /\ Emitting
  BY DEF EmitPort, Emitting
<1>2. PICK n : n = Len(body)
  OBVIOUS
<1>3. /\ Sourced' /\ PlannedOnce' /\ body'[n] = plan
      /\ \A i \in Before : i # n /\ body'[i] = body[i]
      /\ \A i \in Before' : i = n \/ i \in Before
  BY <1>1, <1>2, OriginEmit
<1>4. \A i \in Before : body[i].kind \in MemPorts /\ body[i].source = plan.source
                        => body[i].memory # plan.memory
  BY <1>1 DEF OInv, PlansFresh
<1>5. PortsApart'
  BY <1>3, <1>4 DEF OInv, PortsApart
<1>6. PlansFresh'
  <2> SUFFICES ASSUME NEW p \in plans', NEW i \in Before', body'[i].kind \in MemPorts,
                      body'[i].source = p.source
               PROVE  body'[i].memory # p.memory
    BY DEF PlansFresh
  <2>1. p \in plans /\ p # plan /\ p.source # plan.source
    BY <1>1 DEF OInv, PlannedOnce
  <2> QED
    BY <1>1, <1>3, <2>1 DEF OInv, PlansFresh
<1> QED
  BY <1>1, <1>3, <1>5, <1>6 DEF OInv, MemoriesFresh, NoneDeclaredYet

\* Every step keeps the traces.
LEMMA OriginNext == IInv /\ OInv /\ [Next]_vars => OInv'
<1> SUFFICES ASSUME IInv, OInv, [Next]_vars PROVE OInv'
  OBVIOUS
<1>1. ASSUME NEW function, Call(function) PROVE OInv'
  BY <1>1, OriginIdle DEF Call
<1>2. CASE NoTerminator \/ UnknownMemory \/ RegistersDone \/ ModuleDone
  <2>1. body' = body /\ pass' = "idle"
    BY <1>2 DEF NoTerminator, UnknownMemory, Fail, RegistersDone, ModuleDone
  <2> QED
    BY <2>1, OriginIdle
<1>3. CASE PlanRegisters
  BY <1>3, OriginPlanRegisters
<1>4. CASE PlanMemories
  BY <1>4, OriginPlanMemories
<1>5. CASE PlanPorts
  BY <1>5, OriginPlanPorts
<1>6. ASSUME NEW plan \in plans, EmitRegister(plan) PROVE OInv'
  BY <1>6, OriginEmitRegister
<1>7. ASSUME NEW plan \in plans, EmitMemory(plan) PROVE OInv'
  BY <1>7, OriginEmitMemory
<1>8. ASSUME NEW plan \in plans, EmitPort(plan) PROVE OInv'
  BY <1>8, OriginEmitPort
<1>9. CASE UNCHANGED vars
  <2>1. /\ body' = body /\ pass' = pass /\ plans' = plans /\ memory_values' = memory_values
    BY <1>9 DEF vars
  <2>2. Before' = Before /\ \A op : FromSource(op)' <=> FromSource(op)
    BY <2>1, TargetsSame
  <2> QED
    BY <2>1, <2>2 DEF OInv, Sourced, PlannedOnce, PortsApart, MemoriesFresh, PlansFresh,
       NoneDeclaredYet, Emitting
<1> QED
  BY <1>1, <1>2, <1>3, <1>4, <1>5, <1>6, <1>7, <1>8, <1>9 DEF Next, Stopped

\* The traces hold after any number of calls.
THEOREM Origins == Spec => []OInv
<1>1. Init => OInv
  BY OriginInit
<1> QED
  BY <1>1, OriginNext, Layout, PTL DEF Spec

-----------------------------------------------------------------------------
(* An accepted module holds every state once.                               *)

\* Two inserted operations of an accepted body, the later of which is no write.
LEMMA NamesApart ==
  ASSUME IInv, OInv, validate_module(body),
         NEW i \in Before, NEW j \in Before, i < j,
         body[i].kind \in EmittedKinds, body[j].kind \in EmittedKinds \ {"mem_write"}
  PROVE  body[i].target # body[j].target /\ body[i].source # body[j].source
<1>1. j \in DOMAIN body /\ i \in 1..(j - 1)
  BY DEF IInv, Ended, Before
<1>2. body[i].target # body[j].target
  <2>1. ~DuplicateTarget(body, j)
    BY <1>1 DEF validate_module, Offends
  <2>2. body[i].target \in target_names(body, j)
    BY <1>1 DEF target_names, EmittedKinds, TargetKinds
  <2> QED
    BY <2>1, <2>2 DEF DuplicateTarget, EmittedKinds, TargetKinds
<1>3. FromSource(body[i]) /\ FromSource(body[j])
  BY DEF OInv, Sourced
<1> QED
  BY <1>2, <1>3 DEF FromSource

\* Two inserted operations of an accepted body have two sources.
LEMMA SourcesApart ==
  ASSUME IInv, OInv, validate_module(body),
         NEW i \in Before, NEW j \in Before, i < j,
         body[i].kind \in EmittedKinds, body[j].kind \in EmittedKinds
  PROVE  body[i].source # body[j].source
<1>1. CASE body[j].kind # "mem_write"
  BY <1>1, NamesApart
<1>2. CASE body[j].kind = "mem_write"
  <2> SUFFICES ASSUME body[i].source = body[j].source PROVE FALSE
    OBVIOUS
  <2>1. FromSource(body[i]) /\ FromSource(body[j])
    BY DEF OInv, Sourced
  <2>2. body[i].kind = "mem_write"
    BY <1>2, <2>1 DEF FromSource
  <2> DEFINE d == body[i].memory
             e == body[j].memory
  <2>3. d # e
    <3>1. i # j
      BY DEF Before, IInv, Ended
    <3> QED
      BY <1>2, <2>2, <3>1 DEF OInv, PortsApart, MemPorts
  <2>4. /\ d \in Before /\ body[d].kind = "mem_decl" /\ e \in Before /\ body[e].kind = "mem_decl"
        /\ body[d].source = body[e].source
    BY <1>2, <2>2 DEF IInv, PortsEmitted, IsDeclarationOf
  <2> HIDE DEF d, e
  <2>5. d < e \/ e < d
    BY <2>3, <2>4 DEF Before, IInv, Ended
  <2> QED
    BY <2>4, <2>5, NamesApart DEF EmittedKinds
<1> QED
  BY <1>1, <1>2

\* A module that passes validation holds the state of each seq operation once and
\* no two of them under one name, whatever calls were made before, complete or not.
THEOREM StateIsSingle == Spec => []AcceptedStateIsSingle
<1>1. IInv /\ OInv => AcceptedStateIsSingle
  <2> SUFFICES ASSUME IInv, OInv, validate_module(body),
                      NEW i \in Emitted, NEW j \in Emitted, i # j
               PROVE  /\ body[i].source # body[j].source
                      /\ {body[i].kind, body[j].kind} \cap {"mem_write"} = {} =>
                           body[i].target # body[j].target
    BY DEF AcceptedStateIsSingle, Accepted
  <2>1. body # << >>
    BY DEF Emitted, Positions
  <2>2. /\ i \in Before /\ body[i].kind \in EmittedKinds
        /\ j \in Before /\ body[j].kind \in EmittedKinds
    BY <2>1, PositionsBefore DEF IInv, Emitted, Positions, EmittedKinds
  <2>3. i < j \/ j < i
    BY <2>2 DEF Before, IInv, Ended
  <2> QED
    BY <2>2, <2>3, NamesApart, SourcesApart
<1> QED
  BY <1>1, Layout, Origins, PTL

-----------------------------------------------------------------------------
(* The count a call returns.                                                *)

Regs == Positions(RegisterKinds)
Ports == Positions(PortKinds)

\* Sources the pass has planned and not yet lowered.
SourcesDue == {p.source : p \in plans}

IsLowered(i) == \E j \in Emitted : body[j].source = i

\* Registers are lowered, or planned and not yet counted.
RegistersCounted ==
  pass = "emit_registers" =>
    /\ SourcesDue \subseteq Regs /\ converted + Cardinality(SourcesDue) = Cardinality(Regs)
    /\ \A i \in Regs \ SourcesDue : IsLowered(i)

\* While memories are declared all registers are lowered and counted.
MemoriesUncounted ==
  pass = "emit_memories" =>
    /\ entry = "lower_module" /\ converted = Cardinality(Regs)
    /\ \A i \in Regs : IsLowered(i)

\* Then ports are lowered, or planned and not yet counted.
PortsCounted ==
  pass = "emit_ports" =>
    /\ entry = "lower_module" /\ SourcesDue \subseteq Ports
    /\ converted + Cardinality(SourcesDue) = Cardinality(Regs) + Cardinality(Ports)
    /\ \A i \in (Regs \cup Ports) \ SourcesDue : IsLowered(i)

CInv ==
  /\ converted \in Nat
  /\ pass = "plan_registers" => converted = 0
  /\ RegistersCounted /\ MemoriesUncounted /\ PortsCounted /\ CountIsComplete

\* A body has finitely many operations, none both a register and a port.
LEMMA Finite ==
  ASSUME Ended
  PROVE  /\ IsFiniteSet(Regs) /\ IsFiniteSet(Ports)
         /\ Cardinality(Regs) \in Nat /\ Cardinality(Ports) \in Nat
         /\ Cardinality(Regs \cup Ports) = Cardinality(Regs) + Cardinality(Ports)
<1>1. Len(body) \in Nat /\ DOMAIN body = 1..Len(body)
  BY DEF Ended
<1>2. IsFiniteSet(1..Len(body))
  BY <1>1, FS_Interval
<1>3. Regs \subseteq 1..Len(body) /\ Ports \subseteq 1..Len(body)
  BY <1>1 DEF Regs, Ports, Positions
<1>4. IsFiniteSet(Regs) /\ IsFiniteSet(Ports)
  BY <1>2, <1>3, FS_Subset
<1>5. Cardinality(Regs) \in Nat /\ Cardinality(Ports) \in Nat
  BY <1>4, FS_CardinalityType
<1>6. Regs \cap Ports = {}
  BY DEF Regs, Ports, Positions, RegisterKinds, PortKinds
<1>7. Cardinality(Regs \cup Ports) = Cardinality(Regs) + Cardinality(Ports) - Cardinality({})
  BY <1>4, <1>6, FS_Union
<1> QED
  BY <1>4, <1>5, <1>7, FS_EmptySet

\* What an insertion does to the count: its source is no longer due.
LEMMA EmitCounts ==
  ASSUME IInv, OInv, Emitting, NEW plan \in plans, body' = insert_before(plan),
         plans' = plans \ {plan}, pass' = pass
  PROVE  /\ Regs' = Regs /\ Ports' = Ports
         /\ SourcesDue' = SourcesDue \ {plan.source} /\ plan.source \in SourcesDue
         /\ \A i : IsLowered(i) => IsLowered(i)'
         /\ IsLowered(plan.source)'
<1> USE DEF IInv, OInv
<1>1. /\ plan.kind \in EmittedKinds /\ Len(body) \in Nat \ {0}
      /\ body'[Len(body)] = plan /\ Before' = 1..Len(body)
      /\ \A i \in Before : body'[i] = body[i]
  BY OriginEmit
<1>2. body # << >>
  BY DEF Planned
<1>3. \A K : K \cap (EmittedKinds \cup {"output"}) = {} => Positions(K)' = Positions(K)
  BY <1>1, <1>2, TargetsKept
<1>4. Regs' = Regs /\ Ports' = Ports
  BY <1>3 DEF Regs, Ports, RegisterKinds, PortKinds, EmittedKinds
<1>5. SourcesDue' = SourcesDue \ {plan.source} /\ plan.source \in SourcesDue
  BY DEF SourcesDue, PlannedOnce
<1>6. Emitted \subseteq Before
  BY <1>2, PositionsBefore DEF Emitted, EmittedKinds
<1>7. DOMAIN body' = 1..(Len(body) + 1)
  BY <1>2, Inserted
<1>8. \A j \in Emitted : j \in Emitted' /\ body'[j] = body[j]
  BY <1>1, <1>6, <1>7 DEF Emitted, Positions, Before
<1>9. Len(body) \in Emitted'
  BY <1>1, <1>7 DEF Emitted, Positions
<1>10. \A i : IsLowered(i) => IsLowered(i)'
  BY <1>8 DEF IsLowered
<1>11. IsLowered(plan.source)'
  <2>1. PICK n \in Emitted' : body'[n] = plan
    BY <1>1, <1>9
  <2> QED
    BY <2>1 DEF IsLowered
<1> QED
  BY <1>4, <1>5, <1>10, <1>11

LEMMA CountInit == Init => CInv
  BY DEF Init, CInv, RegistersCounted, MemoriesUncounted, PortsCounted, CountIsComplete

\* A step that leaves the body alone keeps what is counted.
LEMMA CountSame ==
  ASSUME body' = body
  PROVE  Regs' = Regs /\ Ports' = Ports /\ \A i : IsLowered(i)' <=> IsLowered(i)
<1>1. \A K : Positions(K)' = Positions(K)
  BY TargetsSame
<1> QED
  BY <1>1 DEF Regs, Ports, IsLowered, Emitted

\* A step that fails, or starts a call, reports no count.
LEMMA CountVoid ==
  ASSUME CInv, converted' \in Nat, answer' # "ok",
         pass' = "idle" \/ (pass' = "plan_registers" /\ converted' = 0)
  PROVE  CInv'
  BY DEF CInv, RegistersCounted, MemoriesUncounted, PortsCounted, CountIsComplete

\* Every register is due when it is planned, and none is counted.
LEMMA CountPlanRegisters == ASSUME IInv, OInv, CInv, PlanRegisters PROVE CInv'
<1>1. /\ body' = body /\ converted' = 0 /\ pass' = "emit_registers"
      /\ plans' = {RegisterPlan(i) : i \in Positions(RegisterKinds)}
  BY DEF PlanRegisters, CInv
<1>2. SourcesDue' = Regs
  <2>1. \A i : RegisterPlan(i).source = i
    BY DEF RegisterPlan
  <2> QED
    BY <1>1, <2>1 DEF SourcesDue, Regs
<1>3. Regs' = Regs /\ Cardinality(Regs) \in Nat
  BY <1>1, CountSame, Finite DEF IInv
<1> QED
  BY <1>1, <1>2, <1>3 DEF CInv, RegistersCounted, MemoriesUncounted, PortsCounted, CountIsComplete

\* An emitted register moves from the due to the counted.
LEMMA CountEmitRegister ==
  ASSUME IInv, OInv, CInv, NEW plan \in plans, EmitRegister(plan)
  PROVE  CInv'
<1>1. /\ pass = "emit_registers" /\ pass' = pass /\ body' = insert_before(plan)
      /\ plans' = plans \ {plan} /\ converted' = converted + 1 /\ Emitting
  BY DEF EmitRegister, Emitting
<1>2. /\ Regs' = Regs /\ SourcesDue' = SourcesDue \ {plan.source} /\ plan.source \in SourcesDue
      /\ \A i : IsLowered(i) => IsLowered(i)'
      /\ IsLowered(plan.source)'
  BY <1>1, EmitCounts
<1>3. IsFiniteSet(Regs) /\ SourcesDue \subseteq Regs
  BY <1>1, Finite DEF IInv, CInv, RegistersCounted
<1>4. IsFiniteSet(SourcesDue) /\ Cardinality(SourcesDue) \in Nat
  BY <1>3, FS_Subset, FS_CardinalityType
<1>5. Cardinality(SourcesDue') = Cardinality(SourcesDue) - 1
  BY <1>2, <1>4, FS_RemoveElement
<1>6. RegistersCounted'
  <2>1. Cardinality(SourcesDue)' = Cardinality(SourcesDue) - 1
    BY <1>5
  <2>2. converted \in Nat /\ converted + Cardinality(SourcesDue) = Cardinality(Regs)
    BY <1>1 DEF CInv, RegistersCounted
  <2>3. converted' + Cardinality(SourcesDue)' = Cardinality(Regs)'
    BY <1>1, <1>2, <1>4, <2>1, <2>2
  <2>4. \A i \in Regs' \ SourcesDue' : IsLowered(i)'
    BY <1>1, <1>2 DEF CInv, RegistersCounted
  <2> QED
    BY <1>2, <1>3, <2>3, <2>4 DEF RegistersCounted
<1> QED
  BY <1>1, <1>6 DEF CInv, MemoriesUncounted, PortsCounted, CountIsComplete

\* With nothing left to insert nothing is due.
LEMMA NothingDue == plans = {} => SourcesDue = {} /\ Cardinality(SourcesDue) = 0
  BY FS_EmptySet DEF SourcesDue

LEMMA CountRegistersDone == ASSUME IInv, OInv, CInv, RegistersDone PROVE CInv'
<1>1. /\ body' = body /\ pass = "emit_registers" /\ pass' = "idle" /\ plans = {}
      /\ converted' = converted /\ entry = "lower_module_registers" /\ entry' = entry
  BY DEF RegistersDone
<1>2. Regs' = Regs /\ \A i : IsLowered(i)' <=> IsLowered(i)
  BY <1>1, CountSame
<1>3. converted = Cardinality(Regs) /\ \A i \in Regs : IsLowered(i)
  <2>1. Cardinality(Regs) \in Nat /\ converted \in Nat
    BY Finite DEF IInv, CInv
  <2> QED
    BY <1>1, <2>1, NothingDue DEF CInv, RegistersCounted
<1>4. CountIsComplete'
  <2>1. (Positions(RegisterKinds) \cup
          IF entry = "lower_module" THEN Positions(PortKinds) ELSE {})' = Regs
    BY <1>1, <1>2 DEF Regs
  <2>2. converted' = Cardinality(Regs) /\ \A i \in Regs : IsLowered(i)'
    BY <1>1, <1>2, <1>3
  <2> QED
    BY <2>1, <2>2 DEF CountIsComplete, IsLowered
<1> QED
  BY <1>1, <1>4 DEF CInv, RegistersCounted, MemoriesUncounted, PortsCounted

LEMMA CountPlanMemories == ASSUME IInv, OInv, CInv, PlanMemories PROVE CInv'
<1>1. /\ body' = body /\ pass = "emit_registers" /\ pass' = "emit_memories" /\ plans = {}
      /\ converted' = converted /\ entry = "lower_module" /\ entry' = entry
  BY DEF PlanMemories
<1>2. Regs' = Regs /\ \A i : IsLowered(i)' <=> IsLowered(i)
  BY <1>1, CountSame
<1>3. converted = Cardinality(Regs) /\ \A i \in Regs : IsLowered(i)
  <2>1. Cardinality(Regs) \in Nat /\ converted \in Nat
    BY Finite DEF IInv, CInv
  <2> QED
    BY <1>1, <2>1, NothingDue DEF CInv, RegistersCounted
<1> QED
  BY <1>1, <1>2, <1>3 DEF CInv, RegistersCounted, MemoriesUncounted, PortsCounted, CountIsComplete

\* A declaration is not counted.
LEMMA CountEmitMemory ==
  ASSUME IInv, OInv, CInv, NEW plan \in plans, EmitMemory(plan)
  PROVE  CInv'
<1>1. /\ pass = "emit_memories" /\ pass' = pass /\ body' = insert_before(plan)
      /\ plans' = plans \ {plan} /\ converted' = converted /\ entry' = entry /\ Emitting
  BY DEF EmitMemory, Emitting
<1>2. Regs' = Regs /\ \A i : IsLowered(i) => IsLowered(i)'
  BY <1>1, EmitCounts
<1> QED
  BY <1>1, <1>2 DEF CInv, RegistersCounted, MemoriesUncounted, PortsCounted, CountIsComplete

\* Every port is due when it is planned; all registers are counted already.
LEMMA CountPlanPorts == ASSUME IInv, OInv, CInv, PlanPorts PROVE CInv'
<1>1. /\ body' = body /\ converted' = converted /\ entry' = entry
      /\ pass = "emit_memories" /\ pass' = "emit_ports"
      /\ plans' = {PortPlan(i) : i \in Positions(PortKinds)}
  BY DEF PlanPorts
<1>2. SourcesDue' = Ports
  <2>1. \A i : PortPlan(i).source = i
    BY DEF PortPlan
  <2> QED
    BY <1>1, <2>1 DEF SourcesDue, Ports
<1>3. Regs' = Regs /\ Ports' = Ports /\ \A i : IsLowered(i)' <=> IsLowered(i)
  BY <1>1, CountSame
<1>4. /\ entry = "lower_module" /\ converted = Cardinality(Regs) /\ \A i \in Regs : IsLowered(i)
  BY <1>1 DEF CInv, MemoriesUncounted
<1>5. PortsCounted'
  <2>1. (Regs \cup Ports)' \ SourcesDue' \subseteq Regs
    BY <1>2, <1>3
  <2> QED
    BY <1>1, <1>2, <1>3, <1>4, <2>1 DEF PortsCounted
<1> QED
  BY <1>1, <1>5 DEF CInv, RegistersCounted, MemoriesUncounted, CountIsComplete

\* An emitted port moves from the due to the counted.
LEMMA CountEmitPort ==
  ASSUME IInv, OInv, CInv, NEW plan \in plans, EmitPort(plan)
  PROVE  CInv'
<1>1. /\ pass = "emit_ports" /\ pass' = pass /\ body' = insert_before(plan) /\ entry' = entry
      /\ plans' = plans \ {plan} /\ converted' = converted + 1 /\ Emitting
  BY DEF EmitPort, Emitting
<1>2. /\ Regs' = Regs /\ Ports' = Ports
      /\ SourcesDue' = SourcesDue \ {plan.source} /\ plan.source \in SourcesDue
      /\ \A i : IsLowered(i) => IsLowered(i)'
      /\ IsLowered(plan.source)'
  BY <1>1, EmitCounts
<1>3. IsFiniteSet(Ports) /\ SourcesDue \subseteq Ports
  BY <1>1, Finite DEF IInv, CInv, PortsCounted
<1>4. IsFiniteSet(SourcesDue) /\ Cardinality(SourcesDue) \in Nat
  BY <1>3, FS_Subset, FS_CardinalityType
<1>5. Cardinality(SourcesDue') = Cardinality(SourcesDue) - 1
  BY <1>2, <1>4, FS_RemoveElement
<1>6. PortsCounted'
  <2>1. Cardinality(SourcesDue)' = Cardinality(SourcesDue) - 1
    BY <1>5
  <2>2. /\ converted \in Nat /\ entry = "lower_module"
        /\ converted + Cardinality(SourcesDue) = Cardinality(Regs) + Cardinality(Ports)
    BY <1>1 DEF CInv, PortsCounted
  <2>3. converted' + Cardinality(SourcesDue)' = Cardinality(Regs)' + Cardinality(Ports)'
    BY <1>1, <1>2, <1>4, <2>1, <2>2
  <2>4. \A i \in (Regs' \cup Ports') \ SourcesDue' : IsLowered(i)'
    BY <1>1, <1>2 DEF CInv, PortsCounted
  <2> QED
    BY <1>1, <1>2, <1>3, <2>2, <2>3, <2>4 DEF PortsCounted
<1> QED
  BY <1>1, <1>6 DEF CInv, RegistersCounted, MemoriesUncounted, CountIsComplete

LEMMA CountModuleDone == ASSUME IInv, OInv, CInv, ModuleDone PROVE CInv'
<1>1. /\ body' = body /\ pass = "emit_ports" /\ pass' = "idle" /\ plans = {}
      /\ converted' = converted /\ entry' = entry
  BY DEF ModuleDone
<1>2. Regs' = Regs /\ Ports' = Ports /\ \A i : IsLowered(i)' <=> IsLowered(i)
  BY <1>1, CountSame
<1>3. /\ entry = "lower_module" /\ converted = Cardinality(Regs \cup Ports)
      /\ \A i \in Regs \cup Ports : IsLowered(i)
  <2>1. /\ converted \in Nat /\ Cardinality(Regs) \in Nat /\ Cardinality(Ports) \in Nat
        /\ Cardinality(Regs \cup Ports) = Cardinality(Regs) + Cardinality(Ports)
    BY Finite DEF IInv, CInv
  <2> QED
    BY <1>1, <2>1, NothingDue DEF CInv, PortsCounted
<1>4. CountIsComplete'
  <2>1. (Positions(RegisterKinds) \cup
          IF entry = "lower_module" THEN Positions(PortKinds) ELSE {})' = Regs \cup Ports
    BY <1>1, <1>2, <1>3 DEF Regs, Ports
  <2>2. converted' = Cardinality(Regs \cup Ports) /\ \A i \in Regs \cup Ports : IsLowered(i)'
    BY <1>1, <1>2, <1>3
  <2> QED
    BY <2>1, <2>2 DEF CountIsComplete, IsLowered
<1> QED
  BY <1>1, <1>4 DEF CInv, RegistersCounted, MemoriesUncounted, PortsCounted

\* Every step keeps the count.
LEMMA CountNext == IInv /\ OInv /\ CInv /\ [Next]_vars => CInv'
<1> SUFFICES ASSUME IInv, OInv, CInv, [Next]_vars PROVE CInv'
  OBVIOUS
<1>1. ASSUME NEW function, Call(function) PROVE CInv'
  BY <1>1, CountVoid DEF Call
<1>2. CASE NoTerminator \/ UnknownMemory
  BY <1>2, CountVoid DEF NoTerminator, UnknownMemory, Fail, CInv
<1>3. CASE PlanRegisters
  BY <1>3, CountPlanRegisters
<1>4. CASE RegistersDone
  BY <1>4, CountRegistersDone
<1>5. CASE PlanMemories
  BY <1>5, CountPlanMemories
<1>6. CASE PlanPorts
  BY <1>6, CountPlanPorts
<1>7. CASE ModuleDone
  BY <1>7, CountModuleDone
<1>8. ASSUME NEW plan \in plans, EmitRegister(plan) PROVE CInv'
  BY <1>8, CountEmitRegister
<1>9. ASSUME NEW plan \in plans, EmitMemory(plan) PROVE CInv'
  BY <1>9, CountEmitMemory
<1>10. ASSUME NEW plan \in plans, EmitPort(plan) PROVE CInv'
  BY <1>10, CountEmitPort
<1>11. CASE UNCHANGED vars
  <2>1. /\ body' = body /\ pass' = pass /\ entry' = entry /\ plans' = plans
        /\ converted' = converted /\ answer' = answer
    BY <1>11 DEF vars
  <2>2. /\ Regs' = Regs /\ Ports' = Ports /\ SourcesDue' = SourcesDue
        /\ \A i : IsLowered(i)' <=> IsLowered(i)
    BY <2>1, CountSame DEF SourcesDue
  <2>3. CountIsComplete'
    BY <2>1 DEF CInv, CountIsComplete, Emitted, Positions
  <2> QED
    BY <2>1, <2>2, <2>3 DEF CInv, RegistersCounted, MemoriesUncounted, PortsCounted
<1> QED
  BY <1>1, <1>2, <1>3, <1>4, <1>5, <1>6, <1>7, <1>8, <1>9, <1>10, <1>11 DEF Next, Stopped

\* The count of a call that ends well is the number of registers, and of ports for
\* lower_module, each of which has been lowered.
THEOREM CountAlwaysComplete == Spec => []CountIsComplete
<1>1. Init => CInv
  BY CountInit
<1>2. CInv => CountIsComplete
  BY DEF CInv
<1> QED
  BY <1>1, <1>2, CountNext, Layout, Origins, PTL DEF Spec
=============================================================================
