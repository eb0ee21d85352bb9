------------------------- MODULE SvProcessesProofs -------------------------
(***************************************************************************)
(* The printed processes implement the seq dialect, for every block, every *)
(* set of clocks and ports and every order in which a simulator may run    *)
(* the processes.                                                          *)
(*                                                                         *)
(* The inductive invariant describes a change half way through: which      *)
(* processes are still to run, and that the assignments waiting for the    *)
(* end are the ones of those that ran, with values of the state before.    *)
(***************************************************************************)
EXTENDS SvProcesses, TLAPS

\* What an operand holds: a port its value, an operation the storage it is
\* lowered to.
Held(v) == IF v \in Ports THEN in[v] ELSE store[Target(v)]

\* The processes the change being processed wakes.
Sensitive ==
  {i \in DOMAIN ops :
     \/ event \in Clocks /\ ops[i].clock = event /\ clk[event] = 1
     \/ /\ event = "reset"
        /\ ops[i].kind = "firreg" /\ ops[i].async /\ rst = ActiveLevel(ops[i])}

Done == Sensitive \ ready

\* What the process of holder i stores, by the state before the change.
Loaded(i) ==
  IF ops[i].kind = "read" THEN mem[Held(ops[i].address)]
  ELSE IF ops[i].kind = "firreg" /\ rst = ActiveLevel(ops[i])
    THEN Held(ops[i].reset_value)
    ELSE Held(ops[i].input)

\* The writes that ran and commit to word a.
Committing(a) ==
  {w \in Done : /\ ops[w].kind = "write"
                /\ Held(ops[w].address) = a /\ Held(ops[w].enable) = 1}

\* The printed names are good ones; they never change.
Names == DistinctTargets /\ ReferencesResolve

\* Only woken processes run.
ReadyIsWoken == ready \subseteq Sensitive

\* A variable awaits an assignment exactly when its process ran.
HoldersPending ==
  \A i \in Holders(ops) :
    /\ Target(i) \in DOMAIN pending <=> i \in Done
    /\ i \in Done => pending[Target(i)] = Loaded(i)

\* A word awaits an assignment exactly when a write that ran commits to it, and
\* then takes the data of one of those.
WordsPending ==
  \A a \in Words :
    /\ Word(a) \in DOMAIN pending <=> Committing(a) # {}
    /\ Word(a) \in DOMAIN pending =>
         \E w \in Committing(a) : pending[Word(a)] = Held(ops[w].data)

IInv == TypeOK /\ Names /\ ReadyIsWoken /\ HoldersPending /\ WordsPending

-----------------------------------------------------------------------------
(* Blocks, names and values.                                                *)

\* A holder is a register or a read, and every other operation is a write.
LEMMA BlockFacts ==
  ASSUME ops \in Blocks
  PROVE  /\ \A i \in DOMAIN ops : /\ i \notin Ports /\ ops[i].clock \in Clocks
                                  /\ ops[i].kind \in {"compreg", "firreg", "read", "write"}
                                  /\ ops[i].kind = "firreg" => ops[i].async \in BOOLEAN
         /\ Holders(ops) = {i \in DOMAIN ops : ops[i].kind # "write"}
         /\ \A i \in DOMAIN ops : Operands(ops[i]) \subseteq Ports \cup Holders(ops)
<1>1. ops \in Candidates /\ WellFormed(ops)
  BY DEF Blocks
<1> QED
  BY <1>1, CandidatesAssumption DEF WellFormed, Holders, Registers, Reads

\* The operands, by kind.
LEMMA OperandFacts ==
  ASSUME NEW op
  PROVE  /\ op.kind \in {"compreg", "firreg"} => op.input \in Operands(op)
         /\ op.kind = "firreg" => op.reset_value \in Operands(op)
         /\ op.kind \in {"read", "write"} => op.address \in Operands(op)
         /\ op.kind = "write" => op.data \in Operands(op) /\ op.enable \in Operands(op)
  BY DEF Operands

\* No variable is spelled like a word of the memory.
LEMMA TargetIsNoWord ==
  ASSUME ops \in Blocks, NEW i \in Holders(ops), NEW a \in Words
  PROVE  Target(i) # Word(a)
<1>1. ops[i].name # Word(a)
  BY NamesAssumption DEF Blocks
<1>2. \A n : <<"state_", n>> # Word(a) /\ <<"read_data_", n>> # Word(a)
  BY DEF Word
<1> QED
  BY <1>1, <1>2 DEF Target, result_target, read_target

\* An expression reads what its operand holds, a bit.
LEMMA SampleIsHeld ==
  ASSUME TypeOK, Names, NEW i \in DOMAIN ops, NEW v \in Operands(ops[i])
  PROVE  Sample(v) = Held(v) /\ Held(v) \in Bit
<1>1. v \in Ports \/ v \in Holders(ops)
  BY BlockFacts DEF TypeOK
<1>2. CASE v \in Ports
  BY <1>2 DEF Sample, Held, TypeOK
<1>3. CASE v \notin Ports
  <2>1. value_name(v) = Target(v)
    BY <1>3 DEF Names, ReferencesResolve
  <2>2. Target(v) \in DOMAIN store /\ store[Target(v)] \in Bit
    BY <1>1, <1>3 DEF TypeOK
  <2> QED
    BY <1>3, <2>1, <2>2 DEF Sample, Held
<1> QED
  BY <1>2, <1>3

\* What a process stores is a bit.
LEMMA LoadedIsBit ==
  ASSUME TypeOK, Names, NEW i \in Holders(ops)
  PROVE  Loaded(i) \in Bit
<1>1. i \in DOMAIN ops /\ ops[i].kind \in {"compreg", "firreg", "read"}
  BY BlockFacts DEF TypeOK
<1>2. \A v \in Operands(ops[i]) : Held(v) \in Bit
  BY <1>1, SampleIsHeld
<1> QED
  BY <1>1, <1>2, OperandFacts DEF Loaded, Words, TypeOK

-----------------------------------------------------------------------------
(* The invariant.                                                           *)

\* When nothing is being processed nothing is woken or pending.
LEMMA Settled ==
  ASSUME event = "none", ready = {}, pending = << >>
  PROVE  ReadyIsWoken /\ HoldersPending /\ WordsPending
<1>1. Sensitive = {} /\ Done = {}
  BY NamesAssumption DEF Sensitive, Done
<1> QED
  BY <1>1 DEF ReadyIsWoken, HoldersPending, WordsPending, Committing

LEMMA InitInv == Init => IInv
<1> SUFFICES ASSUME Init PROVE IInv
  OBVIOUS
<1>1. TypeOK
  BY DEF Init, InitSignals, TypeOK, Bit
<1> QED
  BY <1>1, Settled DEF Init, InitSignals, IInv, Names

\* The names depend on the block alone.
LEMMA SameNames ==
  ASSUME ops' = ops
  PROVE  /\ \A i : Target(i)' = Target(i)
         /\ Names => Names'
<1>1. \A i : Target(i)' = Target(i)
  BY DEF Target, result_target, read_target, Before, Registers, Reads, Writes
<1>2. \A v : value_name(v)' = value_name(v)
  BY DEF value_name
<1> QED
  BY <1>1, <1>2 DEF Names, DistinctTargets, ReferencesResolve, Holders, Registers, Reads

\* A change wakes the processes sensitive to it; none has run.
LEMMA Woke ==
  ASSUME ready' = Sensitive', pending' = << >>
  PROVE  ReadyIsWoken' /\ HoldersPending' /\ WordsPending'
<1>1. Done' = {}
  BY DEF Done
<1> QED
  BY <1>1 DEF ReadyIsWoken, HoldersPending, WordsPending, Committing

\* An edge of a clock.
LEMMA ClockChangeInv == ASSUME IInv, NEW c \in Clocks, ClockChange(c) PROVE IInv'
<1> USE DEF IInv
<1>1. /\ event = "none" /\ event' = c /\ clk' = [clk EXCEPT ![c] = 1 - clk[c]]
      /\ ready' = {i \in DOMAIN ops : ops[i].clock = c /\ clk[c] = 0}
      /\ ops' = ops /\ policy' = policy /\ in' = in /\ rst' = rst /\ store' = store
      /\ mem' = mem /\ pending' = << >>
  BY DEF ClockChange, block, TypeOK
<1>2. c # "none" /\ c # "reset" /\ clk[c] \in Bit /\ clk'[c] = 1 - clk[c]
  BY <1>1, NamesAssumption DEF TypeOK
<1>3. TypeOK'
  BY <1>1, <1>2, SameNames DEF TypeOK, Bit
<1>4. ready' = Sensitive'
  BY <1>1, <1>2 DEF Sensitive, Bit
<1> QED
  BY <1>1, <1>3, <1>4, Woke, SameNames

\* A change of the reset: the processes of the registers it asserts are woken.
LEMMA ResetChangeInv == ASSUME IInv, ResetChange PROVE IInv'
<1> USE DEF IInv
<1>1. /\ event = "none" /\ event' = "reset" /\ rst' = 1 - rst
      /\ ready' = {i \in DOMAIN ops : ResetEvent(i)}
      /\ ops' = ops /\ policy' = policy /\ in' = in /\ clk' = clk /\ store' = store
      /\ mem' = mem /\ pending' = << >>
  BY DEF ResetChange, block, TypeOK
<1>2. rst' \in Bit
  BY <1>1 DEF TypeOK, Bit
<1>3. TypeOK'
  BY <1>1, <1>2, SameNames DEF TypeOK
<1>4. ready' = Sensitive'
  BY <1>1, <1>2, NamesAssumption DEF Sensitive, ResetEvent, ActiveLevel, Bit
<1> QED
  BY <1>1, <1>3, <1>4, Woke, SameNames

\* A data port changes between events.
LEMMA DataChangeInv == ASSUME IInv, NEW p \in Ports, DataChange(p) PROVE IInv'
<1> USE DEF IInv
<1>1. /\ event = "none" /\ event' = "none" /\ ready' = {} /\ pending' = << >>
      /\ ops' = ops /\ policy' = policy /\ clk' = clk /\ rst' = rst /\ store' = store
      /\ mem' = mem /\ in' \in [Ports -> Bit]
  BY DEF DataChange, block, TypeOK
<1>2. TypeOK'
  BY <1>1, SameNames DEF TypeOK
<1>3. ready' = Sensitive'
  BY <1>1, NamesAssumption DEF Sensitive
<1> QED
  BY <1>1, <1>2, <1>3, Woke, SameNames

-----------------------------------------------------------------------------
(* A process runs.                                                          *)

Still == UNCHANGED <<block, signals, store, mem, event>>

\* While the processes run, what they read does not move.
LEMMA RunFacts ==
  ASSUME IInv, NEW i \in ready, Woken(i), Still
  PROVE  /\ ops' = ops /\ event' = event /\ i \in Sensitive /\ i \in DOMAIN ops
         /\ TypeOK' /\ Names' /\ ReadyIsWoken'
         /\ Done' = Done \cup {i} /\ i \notin Done
         /\ \A v : Held(v)' = Held(v)
         /\ \A j : Target(j)' = Target(j) /\ Loaded(j)' = Loaded(j)
<1> USE DEF IInv
<1>1. /\ ops' = ops /\ policy' = policy /\ in' = in /\ clk' = clk /\ rst' = rst
      /\ store' = store /\ mem' = mem /\ event' = event /\ ready' = ready \ {i}
  BY DEF Still, block, signals, Woken
<1>2. event # "none"
  BY DEF TypeOK
<1>3. Sensitive' = Sensitive /\ i \in Sensitive /\ i \in DOMAIN ops
  BY <1>1 DEF Sensitive, ReadyIsWoken
<1>4. \A j : Target(j)' = Target(j)
  BY <1>1, SameNames
<1>5. TypeOK'
  BY <1>1, <1>2, <1>4 DEF TypeOK
<1>6. \A v : Held(v)' = Held(v)
  BY <1>1, <1>4 DEF Held
<1>7. \A j : Loaded(j)' = Loaded(j)
  BY <1>1, <1>6 DEF Loaded
<1> QED
  BY <1>1, <1>3, <1>4, <1>5, <1>6, <1>7, SameNames DEF Done, ReadyIsWoken

\* The assignment of a register or a read adds its variable, and nothing else.
LEMMA HolderRuns ==
  ASSUME IInv, NEW i \in ready, Woken(i), Still, i \in Holders(ops),
         Schedule(Target(i), Loaded(i))
  PROVE  IInv'
<1> USE DEF IInv
<1>1. /\ ops' = ops /\ TypeOK' /\ Names' /\ ReadyIsWoken' /\ Done' = Done \cup {i}
      /\ \A v : Held(v)' = Held(v)
      /\ \A j : Target(j)' = Target(j) /\ Loaded(j)' = Loaded(j)
  BY RunFacts
<1>2. /\ DOMAIN pending' = DOMAIN pending \cup {Target(i)}
      /\ pending'[Target(i)] = Loaded(i)
      /\ \A l \in DOMAIN pending : l # Target(i) => pending'[l] = pending[l]
  BY DEF Schedule
<1>3. HoldersPending'
  <2>1. \A j \in Holders(ops) : Target(j) = Target(i) => j = i
    BY DEF Names, DistinctTargets
  <2> QED
    BY <1>1, <1>2, <2>1 DEF HoldersPending
<1>4. WordsPending'
  <2>1. \A a \in Words : Word(a) # Target(i)
    BY TargetIsNoWord DEF TypeOK
  <2>2. ops[i].kind # "write"
    BY BlockFacts DEF TypeOK
  <2>3. \A a \in Words : Committing(a)' = Committing(a)
    BY <1>1, <2>2 DEF Committing
  <2> QED
    BY <1>1, <1>2, <2>1, <2>3 DEF WordsPending
<1> QED
  BY <1>1, <1>3, <1>4

\* A write that commits takes its word over.
LEMMA WriteRuns ==
  ASSUME IInv, NEW i \in ready, Woken(i), Still, ops[i].kind = "write",
         IF Held(ops[i].enable) = 1
           THEN Schedule(Word(Held(ops[i].address)), Held(ops[i].data))
           ELSE pending' = pending
  PROVE  IInv'
<1> USE DEF IInv
<1> DEFINE word == Held(ops[i].address)
           commits == Held(ops[i].enable) = 1
<1>1. /\ ops' = ops /\ TypeOK' /\ Names' /\ ReadyIsWoken' /\ Done' = Done \cup {i}
      /\ i \in DOMAIN ops
      /\ \A v : Held(v)' = Held(v)
      /\ \A j : Target(j)' = Target(j) /\ Loaded(j)' = Loaded(j)
  BY RunFacts
<1>2. word \in Words
  BY <1>1, SampleIsHeld, OperandFacts DEF Words
<1>3. HoldersPending'
  <2>1. i \notin Holders(ops)
    BY BlockFacts DEF TypeOK
  <2>2. \A j \in Holders(ops) : Target(j) # Word(word)
    BY <1>2, TargetIsNoWord DEF TypeOK
  <2>3. \A j \in Holders(ops) : /\ Target(j) \in DOMAIN pending' <=> Target(j) \in DOMAIN pending
                                /\ Target(j) \in DOMAIN pending => pending'[Target(j)] = pending[Target(j)]
    BY <2>2 DEF Schedule
  <2> QED
    BY <1>1, <2>1, <2>3 DEF HoldersPending
<1>4. WordsPending'
  <2> SUFFICES ASSUME NEW a \in Words
               PROVE  ( /\ Word(a) \in DOMAIN pending <=> Committing(a) # {}
                        /\ Word(a) \in DOMAIN pending =>
                             \E w \in Committing(a) : pending[Word(a)] = Held(ops[w].data) )'
    BY DEF WordsPending
  <2>1. CASE commits /\ a = word
    <3>1. i \in Committing(a)'
      BY <1>1, <2>1 DEF Committing
    <3>2. Word(a) \in DOMAIN pending' /\ pending'[Word(a)] = Held(ops[i].data)
      BY <2>1 DEF Schedule
    <3> QED
      BY <1>1, <3>1, <3>2
  <2>2. CASE ~(commits /\ a = word)
    <3>1. Committing(a)' = Committing(a)
      BY <1>1, <2>2 DEF Committing
    <3>2. Word(a) = Word(word) => a = word
      BY DEF Word
    <3>3. /\ Word(a) \in DOMAIN pending' <=> Word(a) \in DOMAIN pending
          /\ Word(a) \in DOMAIN pending => pending'[Word(a)] = pending[Word(a)]
      BY <2>2, <3>2 DEF Schedule
    <3> QED
      BY <1>1, <3>1, <3>3 DEF WordsPending
  <2> QED
    BY <2>1, <2>2
<1> QED
  BY <1>1, <1>3, <1>4

\* Every process stores what Loaded says, or commits its write.
LEMMA ExecuteInv == ASSUME IInv, NEW i \in ready, Execute(i) PROVE IInv'
<1> USE DEF IInv
<1>1. i \in DOMAIN ops /\ \A v \in Operands(ops[i]) : Sample(v) = Held(v) /\ Held(v) \in Bit
  BY SampleIsHeld DEF TypeOK
<1>2. rst \in Bit
  BY DEF TypeOK
<1>3. CASE PlainRegister(i)
  <2>1. i \in Holders(ops) /\ Sample(ops[i].input) = Loaded(i)
    BY <1>1, <1>3, OperandFacts DEF PlainRegister, Holders, Registers, Loaded
  <2>2. Woken(i) /\ Still /\ Schedule(Target(i), Loaded(i))
    BY <1>3, <2>1 DEF PlainRegister, Still
  <2> QED
    BY <2>1, <2>2, HolderRuns
<1>4. CASE ResetRegister(i)
  <2>1. InReset(i) <=> rst = ActiveLevel(ops[i])
    BY <1>2 DEF InReset, ActiveLevel, Bit
  <2>2. i \in Holders(ops) /\ ops[i].kind = "firreg"
    BY <1>1, <1>4 DEF ResetRegister, Holders, Registers
  <2>3. Loaded(i) = IF InReset(i) THEN Sample(ops[i].reset_value) ELSE Sample(ops[i].input)
    BY <1>1, <2>1, <2>2, OperandFacts DEF Loaded
  <2>4. Woken(i) /\ Still /\ Schedule(Target(i), Loaded(i))
    BY <1>4, <2>3 DEF ResetRegister, Still
  <2> QED
    BY <2>2, <2>4, HolderRuns
<1>5. CASE ReadPort(i)
  <2>1. i \in Holders(ops) /\ ops[i].kind = "read"
    BY <1>1, <1>5 DEF ReadPort, Holders, Reads
  <2>2. Sample(ops[i].address) = Held(ops[i].address) /\ Held(ops[i].address) \in Words
    BY <1>1, <2>1, OperandFacts DEF Words
  <2>3. Woken(i) /\ Still /\ Schedule(Target(i), Loaded(i))
    BY <1>5, <2>1, <2>2 DEF ReadPort, Still, Loaded
  <2> QED
    BY <2>1, <2>3, HolderRuns
<1>6. CASE WritePort(i)
  <2>1. ops[i].kind = "write" /\ Woken(i) /\ Still
    BY <1>6 DEF WritePort, Still
  <2>2. /\ Sample(ops[i].address) = Held(ops[i].address) /\ Held(ops[i].address) \in Words
        /\ Sample(ops[i].data) = Held(ops[i].data) /\ Sample(ops[i].enable) = Held(ops[i].enable)
    BY <1>1, <2>1, OperandFacts DEF Words
  <2>3. IF Held(ops[i].enable) = 1
          THEN Schedule(Word(Held(ops[i].address)), Held(ops[i].data))
          ELSE pending' = pending
    BY <1>6, <2>2 DEF WritePort
  <2> QED
    BY <2>1, <2>3, WriteRuns
<1> QED
  BY <1>3, <1>4, <1>5, <1>6 DEF Execute

-----------------------------------------------------------------------------
(* The assignments take effect.                                             *)

\* What the storage of a holder and the words are once every process has run.
LEMMA UpdateFacts ==
  ASSUME IInv, Update
  PROVE  /\ ops' = ops /\ policy' = policy /\ in' = in /\ clk' = clk /\ rst' = rst
         /\ event # "none" /\ event' = "none" /\ ready' = {} /\ pending' = << >>
         /\ Done = Sensitive /\ \A i : Target(i)' = Target(i)
         /\ DOMAIN store' = DOMAIN store
         /\ \A i \in Holders(ops) :
              store'[Target(i)] = IF i \in Sensitive THEN Loaded(i) ELSE store[Target(i)]
         /\ mem' \in [Words -> Bit]
         /\ \A a \in Words :
              IF Committing(a) = {} THEN mem'[a] = mem[a]
              ELSE \E w \in Committing(a) : mem'[a] = Held(ops[w].data)
<1> USE DEF IInv
<1>1. /\ ops' = ops /\ policy' = policy /\ in' = in /\ clk' = clk /\ rst' = rst
      /\ event # "none" /\ event' = "none" /\ ready = {} /\ ready' = {} /\ pending' = << >>
  BY DEF Update, block, signals
<1>2. Done = Sensitive /\ \A i : Target(i)' = Target(i)
  BY <1>1, SameNames DEF Done
<1>3. DOMAIN store' = DOMAIN store
  BY DEF Update
<1>4. \A i \in Holders(ops) : Target(i) \in DOMAIN store
  BY DEF TypeOK
<1>5. \A i \in Holders(ops) :
        store'[Target(i)] = IF i \in Sensitive THEN Loaded(i) ELSE store[Target(i)]
  BY <1>2, <1>4 DEF Update, HoldersPending
<1>6. ASSUME NEW a \in Words
      PROVE  /\ mem'[a] \in Bit
             /\ IF Committing(a) = {} THEN mem'[a] = mem[a]
                ELSE \E w \in Committing(a) : mem'[a] = Held(ops[w].data)
  <2>1. mem'[a] = IF Word(a) \in DOMAIN pending THEN pending[Word(a)] ELSE mem[a]
    BY DEF Update
  <2>2. CASE Committing(a) = {}
    BY <2>1, <2>2 DEF WordsPending, TypeOK
  <2>3. CASE Committing(a) # {}
    <3>1. PICK w \in Committing(a) : mem'[a] = Held(ops[w].data)
      BY <2>1, <2>3 DEF WordsPending
    <3>2. w \in DOMAIN ops /\ ops[w].data \in Operands(ops[w])
      BY OperandFacts DEF Committing, Done, Sensitive
    <3> QED
      BY <2>3, <3>1, <3>2, SampleIsHeld
  <2> QED
    BY <2>2, <2>3
<1>7. mem' \in [Words -> Bit]
  BY <1>6 DEF Update
<1> QED
  BY <1>1, <1>2, <1>3, <1>5, <1>6, <1>7

LEMMA UpdateInv == ASSUME IInv, Update PROVE IInv'
<1> USE DEF IInv
<1>1. /\ ops' = ops /\ policy' = policy /\ in' = in /\ clk' = clk /\ rst' = rst
      /\ event' = "none" /\ ready' = {} /\ pending' = << >>
      /\ \A i : Target(i)' = Target(i)
      /\ DOMAIN store' = DOMAIN store /\ mem' \in [Words -> Bit]
  BY UpdateFacts
<1>2. \A i \in Holders(ops) : store'[Target(i)] \in Bit
  BY UpdateFacts, LoadedIsBit DEF TypeOK
<1>3. store' \in [{Target(i) : i \in Holders(ops)} -> Bit]
  BY <1>1, <1>2 DEF Update, TypeOK
<1>4. TypeOK'
  BY <1>1, <1>3 DEF TypeOK
<1>5. ready' = Sensitive'
  BY <1>1, NamesAssumption DEF Sensitive
<1> QED
  BY <1>1, <1>4, <1>5, Woke, SameNames

\* Every step keeps the invariant.
LEMMA NextInv == IInv /\ [Next]_vars => IInv'
<1> SUFFICES ASSUME IInv, [Next]_vars PROVE IInv'
  OBVIOUS
<1>1. ASSUME NEW c \in Clocks, ClockChange(c) PROVE IInv'
  BY <1>1, ClockChangeInv
<1>2. CASE ResetChange
  BY <1>2, ResetChangeInv
<1>3. ASSUME NEW p \in Ports, DataChange(p) PROVE IInv'
  BY <1>3, DataChangeInv
<1>4. ASSUME NEW i \in ready, Execute(i) PROVE IInv'
  BY <1>4, ExecuteInv
<1>5. CASE Update
  BY <1>5, UpdateInv
<1>6. CASE UNCHANGED vars
  <2>1. /\ ops' = ops /\ policy' = policy /\ in' = in /\ clk' = clk /\ rst' = rst
        /\ store' = store /\ mem' = mem /\ event' = event /\ ready' = ready /\ pending' = pending
        /\ \A i : Target(i)' = Target(i)
    BY <1>6, SameNames DEF vars
  <2>2. Sensitive' = Sensitive /\ \A v : Held(v)' = Held(v)
    BY <2>1 DEF Sensitive, Held
  <2>3. Done' = Done /\ \A i : Loaded(i)' = Loaded(i)
    BY <2>1, <2>2 DEF Done, Loaded
  <2>4. \A a : Committing(a)' = Committing(a)
    BY <2>1, <2>2, <2>3 DEF Committing
  <2> QED
    BY <2>1, <2>2, <2>3, <2>4, SameNames
      DEF IInv, TypeOK, ReadyIsWoken, HoldersPending, WordsPending
<1> QED
  BY <1>1, <1>2, <1>3, <1>4, <1>5, <1>6 DEF Next

-----------------------------------------------------------------------------
(* The theorems.                                                            *)

\* The invariant holds in every order of the processes.
THEOREM HalfWay == Spec => []IInv
<1> QED
  BY InitInv, NextInv, PTL DEF Spec

\* No variable or word is ever loaded from a name nothing drives, whatever block
\* was lowered.
THEOREM TypeCorrect == Spec => []TypeOK
<1>1. IInv => TypeOK
  BY DEF IInv
<1> QED
  BY <1>1, HalfWay, PTL

\* A register is about to store what the state before the edge says, reset first,
\* whichever processes ran before its own.
THEOREM StoredBySeq == Spec => []StoredAtEdge
<1>1. IInv => StoredAtEdge
  <2> SUFFICES ASSUME IInv, NEW i \in Ran \cap Registers(ops)
               PROVE  Target(i) \in DOMAIN pending /\ pending[Target(i)] = Loaded(i)
    BY DEF StoredAtEdge, Loaded, Held, Registers
  <2>1. i \in Done /\ i \in Holders(ops)
    BY BlockFacts DEF IInv, TypeOK, Ran, Done, Sensitive, Holders, Registers
  <2> QED
    BY <2>1 DEF IInv, HoldersPending
<1> QED
  BY <1>1, HalfWay, PTL

-----------------------------------------------------------------------------
(* The refinement.                                                          *)

\* The contract reads blocks with the same operators.
LEMMA SameDialect ==
  /\ Contract!Blocks = Blocks /\ Contract!Bit = Bit /\ Contract!Words = Words
  /\ \A o : /\ Contract!Holders(o) = Holders(o) /\ Contract!Registers(o) = Registers(o)
            /\ Contract!Reads(o) = Reads(o) /\ Contract!Writes(o) = Writes(o)
            /\ Contract!PoliciesOf(o) = PoliciesOf(o)
            /\ Contract!ActiveLevel(o) = ActiveLevel(o)
<1>1. Contract!Bit = Bit /\ Contract!Words = Words
  BY DEF Contract!Bit, Bit, Contract!Words, Words
<1>2. \A o : /\ Contract!Registers(o) = Registers(o)
            /\ Contract!Reads(o) = Reads(o) /\ Contract!Writes(o) = Writes(o)
  BY DEF Contract!Registers, Registers, Contract!Reads, Reads, Contract!Writes, Writes
<1>3. \A o : Contract!Holders(o) = Holders(o) /\ Contract!PoliciesOf(o) = PoliciesOf(o)
  BY <1>2 DEF Contract!Holders, Holders, Contract!PoliciesOf, PoliciesOf
<1>4. \A o : Contract!ActiveLevel(o) = ActiveLevel(o) /\ Contract!Operands(o) = Operands(o)
  BY DEF Contract!ActiveLevel, ActiveLevel, Contract!Operands, Operands
<1>5. \A o : Contract!WellFormed(o) = WellFormed(o)
  BY <1>3, <1>4 DEF Contract!WellFormed, WellFormed
<1> QED
  BY <1>1, <1>2, <1>3, <1>4, <1>5 DEF Contract!Blocks, Blocks

\* A value of the contract is what the operand holds.
LEMMA ValueIsHeld ==
  ASSUME TypeOK, NEW i \in DOMAIN ops, NEW v \in Operands(ops[i])
  PROVE  Contract!Value(v) = Held(v)
<1>1. v \in Ports \/ v \in Holders(ops)
  BY BlockFacts DEF TypeOK
<1> QED
  BY <1>1 DEF Contract!Value, Held, settled_q

\* Initially everything is settled.
LEMMA ContractInit == Init => Contract!Init
<1> SUFFICES ASSUME Init PROVE Contract!Init
  OBVIOUS
<1>1. /\ ops \in Blocks /\ policy \in PoliciesOf(ops) /\ in \in [Ports -> Bit]
      /\ clk = [c \in Clocks |-> 0] /\ rst \in Bit /\ mem \in [Words -> Bit]
      /\ store \in [{Target(i) : i \in Holders(ops)} -> Bit] /\ event = "none"
  BY DEF Init, InitSignals
<1>2. settled_clk = [c \in Clocks |-> 0] /\ settled_rst = rst
  BY <1>1, NamesAssumption DEF settled_clk, settled_rst
<1>3. settled_q \in [Holders(ops) -> Bit]
  BY <1>1 DEF settled_q
<1> QED
  BY <1>1, <1>2, <1>3, SameDialect DEF Contract!Init

\* A change alone is not yet visible: the settled state is the one before it.
LEMMA ChangeStutters ==
  ASSUME IInv, ResetChange \/ \E c \in Clocks : ClockChange(c)
  PROVE  UNCHANGED Contract!vars
<1> USE DEF IInv
<1>1. /\ event = "none" /\ clk \in [Clocks -> Bit] /\ rst \in Bit
      /\ ops' = ops /\ policy' = policy /\ in' = in /\ store' = store /\ mem' = mem
      /\ \A i : Target(i)' = Target(i)
  BY SameNames DEF ResetChange, ClockChange, block, TypeOK
<1>2. settled_clk = clk /\ settled_rst = rst
  BY <1>1, NamesAssumption DEF settled_clk, settled_rst
<1>3. settled_q' = settled_q
  BY <1>1 DEF settled_q, Holders, Registers, Reads
<1>4. settled_clk' = clk /\ settled_rst' = rst
  <2>1. CASE ResetChange
    <3>1. event' = "reset" /\ rst' = 1 - rst /\ clk' = clk
      BY <2>1 DEF ResetChange
    <3> QED
      BY <1>1, <3>1, NamesAssumption DEF settled_clk, settled_rst, Bit
  <2>2. ASSUME NEW c \in Clocks, ClockChange(c) PROVE settled_clk' = clk /\ settled_rst' = rst
    <3>1. event' = c /\ clk' = [clk EXCEPT ![c] = 1 - clk[c]] /\ rst' = rst /\ c # "reset"
      BY <2>2, NamesAssumption DEF ClockChange
    <3>2. \A d \in Clocks : (IF event' = d THEN 1 - clk'[d] ELSE clk'[d]) = clk[d]
      BY <1>1, <3>1 DEF Bit
    <3> QED
      BY <1>1, <3>1, <3>2 DEF settled_clk, settled_rst
  <2> QED
    BY <2>1, <2>2
<1> QED
  BY <1>1, <1>2, <1>3, <1>4 DEF Contract!vars

\* So is a process that runs.
LEMMA ExecuteStutters ==
  ASSUME IInv, NEW i \in ready, Execute(i)
  PROVE  UNCHANGED Contract!vars
<1>1. /\ ops' = ops /\ policy' = policy /\ in' = in /\ clk' = clk /\ rst' = rst
      /\ store' = store /\ mem' = mem /\ event' = event
  BY DEF Execute, PlainRegister, ResetRegister, ReadPort, WritePort, block, signals
<1>2. settled_q' = settled_q
  BY <1>1, SameNames DEF settled_q, Holders, Registers, Reads
<1> QED
  BY <1>1, <1>2 DEF settled_clk, settled_rst, Contract!vars

\* Between events a port is driven in both.
LEMMA DataChangeDrives ==
  ASSUME IInv, NEW p \in Ports, DataChange(p)
  PROVE  Contract!Drive(p)
<1>1. /\ ops' = ops /\ policy' = policy /\ clk' = clk /\ rst' = rst
      /\ store' = store /\ mem' = mem /\ event' = event
      /\ in' \in [Ports -> Bit] /\ \A o \in Ports \ {p} : in'[o] = in[o]
  BY DEF DataChange, block, IInv, TypeOK
<1>2. settled_q' = settled_q
  BY <1>1, SameNames DEF settled_q, Holders, Registers, Reads
<1> QED
  BY <1>1, <1>2, SameDialect DEF settled_clk, settled_rst, Contract!Drive

\* The state after an update is settled: it is the printed module's own.
LEMMA SettledAfter ==
  ASSUME IInv, Update
  PROVE  /\ settled_clk' = clk /\ settled_rst' = rst
         /\ settled_q' \in [Holders(ops) -> Bit]
         /\ \A i \in Holders(ops) : /\ settled_q[i] = store[Target(i)]
                                     /\ settled_q'[i] = IF i \in Sensitive THEN Loaded(i) ELSE settled_q[i]
<1> USE DEF IInv
<1>1. /\ ops' = ops /\ clk' = clk /\ rst' = rst /\ event' = "none"
      /\ \A i : Target(i)' = Target(i)
      /\ \A i \in Holders(ops) :
           store'[Target(i)] = IF i \in Sensitive THEN Loaded(i) ELSE store[Target(i)]
  BY UpdateFacts
<1>2. clk \in [Clocks -> Bit]
  BY DEF TypeOK
<1>3. settled_clk' = clk /\ settled_rst' = rst
  BY <1>1, <1>2, NamesAssumption DEF settled_clk, settled_rst
<1>4. settled_q' = [i \in Holders(ops) |-> store'[Target(i)]]
  BY <1>1 DEF settled_q, Holders, Registers, Reads
<1>5. \A i \in Holders(ops) : Loaded(i) \in Bit /\ store[Target(i)] \in Bit
  BY LoadedIsBit DEF TypeOK
<1> QED
  BY <1>1, <1>3, <1>4, <1>5 DEF settled_q

\* The update of a rising clock is an active edge: registers and reads take what
\* they should, and every word its committed write.
LEMMA RisingEdge ==
  ASSUME IInv, Update, "write-first" \notin Policies, NEW c \in Clocks, event = c, clk[c] = 1
  PROVE  Contract!ActiveEdge(c)
<1> USE DEF IInv
<1>1. /\ ops' = ops /\ policy' = policy /\ in' = in /\ Done = Sensitive
      /\ mem' \in [Words -> Bit]
      /\ \A a \in Words :
           IF Committing(a) = {} THEN mem'[a] = mem[a]
           ELSE \E w \in Committing(a) : mem'[a] = Held(ops[w].data)
  BY UpdateFacts
<1>2. /\ settled_clk' = clk /\ settled_rst' = rst
      /\ settled_q' \in [Holders(ops) -> Bit]
      /\ \A i \in Holders(ops) :
           settled_q'[i] = IF i \in Sensitive THEN Loaded(i) ELSE settled_q[i]
  BY SettledAfter
<1>3. c # "reset" /\ c # "none" /\ clk \in [Clocks -> Bit]
  BY NamesAssumption DEF TypeOK
<1>4. /\ settled_clk[c] = 0 /\ clk = [settled_clk EXCEPT ![c] = 1] /\ settled_rst = rst
  <2>1. settled_clk = [d \in Clocks |-> IF c = d THEN 1 - clk[d] ELSE clk[d]]
    BY DEF settled_clk
  <2>2. settled_clk[c] = 0 /\ \A d \in Clocks \ {c} : settled_clk[d] = clk[d]
    BY <2>1
  <2> QED
    BY <1>3, <2>1, <2>2 DEF settled_rst
<1>5. Sensitive = {i \in DOMAIN ops : ops[i].clock = c}
  BY <1>3 DEF Sensitive
<1>6. \A i \in DOMAIN ops : \A v \in Operands(ops[i]) : Contract!Value(v) = Held(v)
  BY ValueIsHeld
<1>7. \A a \in Words : Contract!Writers(c, a) = Committing(a)
  BY <1>1, <1>5, <1>6, SameDialect, OperandFacts DEF Contract!Writers, Committing, Writes
<1>8. Contract!Commits(c, mem')
  <2> SUFFICES ASSUME NEW a \in Words
               PROVE  IF Contract!Writers(c, a) = {} THEN mem'[a] = mem[a]
                      ELSE \E w \in Contract!Writers(c, a) : mem'[a] = Contract!Value(ops[w].data)
    BY SameDialect DEF Contract!Commits
  <2>1. \A w \in Committing(a) : Contract!Value(ops[w].data) = Held(ops[w].data)
    BY <1>6, OperandFacts DEF Committing, Done, Sensitive
  <2> QED
    BY <1>1, <1>7, <2>1
<1>9. ASSUME NEW i \in Holders(ops)
      PROVE  /\ ops[i].clock # c => settled_q'[i] = settled_q[i]
             /\ ops[i].clock = c /\ i \in Registers(ops) => settled_q'[i] = Contract!NextState(i)
             /\ ops[i].clock = c /\ i \in Reads(ops) => settled_q'[i] \in Contract!ReadData(i, c, mem')
  <2>1. i \in DOMAIN ops
    BY DEF Holders, Registers, Reads
  <2>2. ASSUME ops[i].clock # c PROVE settled_q'[i] = settled_q[i]
    BY <1>2, <1>5, <2>2
  <2>3. ASSUME ops[i].clock = c, i \in Registers(ops) PROVE settled_q'[i] = Contract!NextState(i)
    <3>1. settled_q'[i] = Loaded(i) /\ ops[i].kind \in {"compreg", "firreg"}
      BY <1>2, <1>5, <2>1, <2>3 DEF Registers
    <3>2. /\ Contract!Value(ops[i].input) = Held(ops[i].input)
          /\ ops[i].kind = "firreg" => Contract!Value(ops[i].reset_value) = Held(ops[i].reset_value)
      BY <1>6, <2>1, <3>1, OperandFacts
    <3> QED
      BY <1>4, <3>1, <3>2, SameDialect DEF Contract!NextState, Loaded
  <2>4. ASSUME ops[i].clock = c, i \in Reads(ops)
        PROVE  settled_q'[i] \in Contract!ReadData(i, c, mem')
    <3>1. settled_q'[i] = Loaded(i) /\ ops[i].kind = "read" /\ Loaded(i) \in Bit
      BY <1>2, <1>5, <2>1, <2>4, LoadedIsBit DEF Reads
    <3>2. Contract!Value(ops[i].address) = Held(ops[i].address)
      BY <1>6, <2>1, <3>1, OperandFacts
    <3>3. policy # "write-first"
      BY DEF TypeOK, PoliciesOf
    <3> QED
      BY <3>1, <3>2, <3>3, SameDialect DEF Contract!ReadData, Loaded
  <2> QED
    BY <2>2, <2>3, <2>4
<1>10. \A i \in Holders(ops) : i \in Registers(ops) \/ i \in Reads(ops)
  BY DEF Holders
<1>11. \A i \in Holders(ops) :
         CASE ops[i].clock # c -> settled_q'[i] = settled_q[i]
           [] ops[i].clock = c /\ i \in Registers(ops) -> settled_q'[i] = Contract!NextState(i)
           [] ops[i].clock = c /\ i \in Reads(ops) -> settled_q'[i] \in Contract!ReadData(i, c, mem')
  BY <1>9, <1>10 DEF Registers, Reads
<1> QED
  BY <1>1, <1>2, <1>4, <1>8, <1>11, SameDialect DEF Contract!ActiveEdge

\* The update of a falling clock stores nothing.
LEMMA FallingEdge ==
  ASSUME IInv, Update, NEW c \in Clocks, event = c, clk[c] # 1
  PROVE  Contract!InactiveEdge(c)
<1> USE DEF IInv
<1>1. /\ ops' = ops /\ policy' = policy /\ in' = in /\ Done = Sensitive
      /\ mem' \in [Words -> Bit] /\ \A a \in Words : Committing(a) = {} => mem'[a] = mem[a]
  BY UpdateFacts
<1>2. /\ settled_clk' = clk /\ settled_rst' = rst
      /\ settled_q' \in [Holders(ops) -> Bit]
      /\ \A i \in Holders(ops) :
           settled_q'[i] = IF i \in Sensitive THEN Loaded(i) ELSE settled_q[i]
  BY SettledAfter
<1>3. c # "reset" /\ c # "none" /\ clk \in [Clocks -> Bit] /\ clk[c] = 0 /\ mem \in [Words -> Bit]
  BY NamesAssumption DEF TypeOK, Bit
<1>4. Sensitive = {}
  BY <1>3 DEF Sensitive
<1>5. settled_q' = settled_q
  BY <1>2, <1>4 DEF settled_q
<1>6. mem' = mem
  <2>1. \A a \in Words : Committing(a) = {}
    BY <1>1, <1>4 DEF Committing
  <2> QED
    BY <1>1, <1>3, <2>1
<1>7. /\ settled_clk[c] = 1 /\ clk = [settled_clk EXCEPT ![c] = 0] /\ settled_rst = rst
  <2>1. settled_clk = [d \in Clocks |-> IF c = d THEN 1 - clk[d] ELSE clk[d]]
    BY DEF settled_clk
  <2>2. settled_clk[c] = 1 /\ \A d \in Clocks \ {c} : settled_clk[d] = clk[d]
    BY <1>3, <2>1
  <2> QED
    BY <1>3, <2>1, <2>2 DEF settled_rst
<1> QED
  BY <1>1, <1>2, <1>5, <1>6, <1>7 DEF Contract!InactiveEdge

\* The update of a reset loads the registers it asserts, and no word.
LEMMA ResetUpdate ==
  ASSUME IInv, Update, event = "reset"
  PROVE  Contract!Reset
<1> USE DEF IInv
<1>1. /\ ops' = ops /\ policy' = policy /\ in' = in /\ Done = Sensitive
      /\ mem' \in [Words -> Bit] /\ \A a \in Words : Committing(a) = {} => mem'[a] = mem[a]
  BY UpdateFacts
<1>2. /\ settled_clk' = clk /\ settled_rst' = rst
      /\ settled_q' \in [Holders(ops) -> Bit]
      /\ \A i \in Holders(ops) :
           settled_q'[i] = IF i \in Sensitive THEN Loaded(i) ELSE settled_q[i]
  BY SettledAfter
<1>3. "reset" \notin Clocks /\ clk \in [Clocks -> Bit] /\ rst \in Bit /\ mem \in [Words -> Bit]
  BY NamesAssumption DEF TypeOK
<1>4. settled_clk = clk /\ rst = 1 - settled_rst
  BY <1>3 DEF settled_clk, settled_rst, Bit
<1>5. Sensitive = {i \in DOMAIN ops : /\ ops[i].kind = "firreg" /\ ops[i].async
                                      /\ rst = ActiveLevel(ops[i])}
  BY <1>3 DEF Sensitive
<1>6. mem' = mem
  <2>1. \A a \in Words : Committing(a) = {}
    BY <1>1, <1>5 DEF Committing
  <2> QED
    BY <1>1, <1>3, <2>1
<1>7. ASSUME NEW i \in Holders(ops)
      PROVE  settled_q'[i] = IF ops[i].kind = "firreg" /\ ops[i].async /\ rst = ActiveLevel(ops[i])
                               THEN Contract!Value(ops[i].reset_value) ELSE settled_q[i]
  <2>1. i \in DOMAIN ops
    BY DEF Holders, Registers, Reads
  <2>2. ops[i].kind = "firreg" => Contract!Value(ops[i].reset_value) = Held(ops[i].reset_value)
    BY <2>1, ValueIsHeld, OperandFacts
  <2> QED
    BY <1>2, <1>5, <2>1, <2>2 DEF Loaded
<1>8. settled_q' = [i \in Holders(ops) |->
                      IF ops[i].kind = "firreg" /\ ops[i].async /\ rst = ActiveLevel(ops[i])
                        THEN Contract!Value(ops[i].reset_value) ELSE settled_q[i]]
  BY <1>2, <1>7
<1> QED
  BY <1>1, <1>2, <1>4, <1>6, <1>8, SameDialect DEF Contract!Reset

\* Every step is one of the contract or is not visible in it.
LEMMA ContractNext ==
  ASSUME "write-first" \notin Policies
  PROVE  IInv /\ [Next]_vars => [Contract!Next]_(Contract!vars)
<1> SUFFICES ASSUME IInv, [Next]_vars
             PROVE  Contract!Next \/ UNCHANGED Contract!vars
  OBVIOUS
<1>1. CASE ResetChange \/ \E c \in Clocks : ClockChange(c)
  BY <1>1, ChangeStutters
<1>2. ASSUME NEW p \in Ports, DataChange(p) PROVE Contract!Next
  BY <1>2, DataChangeDrives DEF Contract!Next
<1>3. ASSUME NEW i \in ready, Execute(i) PROVE UNCHANGED Contract!vars
  BY <1>3, ExecuteStutters
<1>4. CASE Update
  <2>1. event \in Clocks \/ event = "reset"
    BY <1>4 DEF Update, IInv, TypeOK
  <2>2. ASSUME NEW c \in Clocks, event = c PROVE Contract!Next
    <3>1. Contract!ActiveEdge(c) \/ Contract!InactiveEdge(c)
      BY <1>4, <2>2, RisingEdge, FallingEdge
    <3> QED
      BY <3>1 DEF Contract!Next
  <2> QED
    BY <1>4, <2>1, <2>2, ResetUpdate DEF Contract!Next
<1>5. CASE UNCHANGED vars
  <2>1. /\ ops' = ops /\ policy' = policy /\ in' = in /\ clk' = clk /\ rst' = rst
        /\ store' = store /\ mem' = mem /\ event' = event
    BY <1>5 DEF vars
  <2>2. settled_q' = settled_q
    BY <2>1, SameNames DEF settled_q, Holders, Registers, Reads
  <2> QED
    BY <2>1, <2>2 DEF settled_clk, settled_rst, Contract!vars
<1> QED
  BY <1>1, <1>2, <1>3, <1>4, <1>5 DEF Next

\* Whatever order the simulator runs the processes in, the printed module is the
\* synchronous transition system that the seq operations describe, if no memory
\* asks for write-first.
THEOREM ImplementsSeq ==
  ASSUME "write-first" \notin Policies
  PROVE  Spec => ContractSpec
<1>1. Init => Contract!Init
  BY ContractInit
<1>2. IInv /\ [Next]_vars => [Contract!Next]_(Contract!vars)
  BY ContractNext
<1> QED
  BY <1>1, <1>2, HalfWay, PTL DEF Spec, ContractSpec, Contract!Spec
=============================================================================
