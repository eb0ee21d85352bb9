------------------------- MODULE HwCollectionProofs -------------------------
(***************************************************************************)
(* A verdict does not depend on the order of the operations.               *)
(*                                                                         *)
(* The scan of validate_module asks each operation about those before it.  *)
(* Its outcome is brought into a form without an order: no operation       *)
(* offends alone, and no two different operations clash.  That form is     *)
(* the same after any exchange.                                            *)
(***************************************************************************)
EXTENDS HwCollection, FiniteSetTheorems, TLAPS

Swap(i, j, k) == IF k = i THEN j ELSE IF k = j THEN i ELSE k

SameTarget(a, b) ==
  a.kind \in TargetKinds /\ b.kind \in TargetKinds /\ a.target = b.target

SameInstance(a, b) ==
  a.kind \in InstanceKinds /\ b.kind \in InstanceKinds /\ a.name = b.name

SameWord(a, b) ==
  a.kind = "write" /\ b.kind = "write" /\ a.memory = b.memory /\ a.address = b.address

Clash(a, b) == SameTarget(a, b) \/ SameInstance(a, b) \/ SameWord(a, b)

OffendsAlone(a) ==
  \/ a.kind = "assign" /\ a.clock_or_reset
  \/ a.kind = "hw.instance" /\ Empty \in {a.name, a.module}

\* What the scan asks for, without the order of the scan.
Unordered(body) ==
  /\ \A i \in DOMAIN body : ~OffendsAlone(body[i])
  /\ \A i, j \in DOMAIN body : i # j => ~Clash(body[i], body[j])

\* At one position the scan fails on the operation alone or on a clash with an
\* earlier one (DuplicateTarget, AssignsClock, BadInstance, ConflictingWrite).
LEMMA OffendsMeaning ==
  ASSUME NEW S, NEW body \in Seq(S), WritesNoMemory(body), NEW i \in DOMAIN body
  PROVE  Offends(body, i) <=>
           OffendsAlone(body[i]) \/ \E j \in 1..(i - 1) : Clash(body[i], body[j])
<1>1. \A j \in 1..(i - 1) : j \in DOMAIN body
  OBVIOUS
<1>2. DuplicateTarget(body, i) <=> \E j \in 1..(i - 1) : SameTarget(body[i], body[j])
  <2>1. \A j \in 1..(i - 1) : body[j].kind \in TargetKinds \cup {"mem_write"}
                                <=> body[j].kind \in TargetKinds
    BY <1>1 DEF WritesNoMemory
  <2> QED
    BY <2>1 DEF DuplicateTarget, target_names, SameTarget
<1>3. body[i].kind \in InstanceKinds /\ body[i].name \in instance_names(body, i)
        <=> \E j \in 1..(i - 1) : SameInstance(body[i], body[j])
  BY DEF instance_names, SameInstance
<1>4. ConflictingWrite(body, i) <=> \E j \in 1..(i - 1) : SameWord(body[i], body[j])
  BY DEF ConflictingWrite, SameWord
<1>5. BadInstance(body, i)
        <=> (\E j \in 1..(i - 1) : SameInstance(body[i], body[j]))
            \/ (body[i].kind = "hw.instance" /\ Empty \in {body[i].name, body[i].module})
  BY <1>3 DEF BadInstance, InstanceKinds
<1> QED
  BY <1>2, <1>4, <1>5 DEF Offends, AssignsClock, Clash, OffendsAlone

\* A clash does not depend on which of the two operations stands first.
LEMMA ClashSymmetric == ASSUME NEW a, NEW b PROVE Clash(a, b) <=> Clash(b, a)
  BY DEF Clash, SameTarget, SameInstance, SameWord

\* validate_module accepts a body without sv.mem_write exactly when nothing in it
\* offends alone and no two operations clash, wherever they stand.
THEOREM ValidUnordered ==
  ASSUME NEW S, NEW body \in Seq(S), WritesNoMemory(body)
  PROVE  validate_module(body) <=> Unordered(body)
<1>1. ASSUME validate_module(body) PROVE Unordered(body)
  <2>1. \A i \in DOMAIN body :
          ~OffendsAlone(body[i]) /\ \A j \in 1..(i - 1) : ~Clash(body[i], body[j])
    BY <1>1, OffendsMeaning DEF validate_module
  <2>2. ASSUME NEW i \in DOMAIN body, NEW j \in DOMAIN body, i # j
        PROVE  ~Clash(body[i], body[j])
    <3>1. i \in Nat /\ j \in Nat /\ i >= 1 /\ j >= 1
      OBVIOUS
    <3>2. CASE j < i
      <4>1. j \in 1..(i - 1)
        BY <3>1, <3>2
      <4> QED
        BY <4>1, <2>1
    <3>3. CASE i < j
      <4>1. i \in 1..(j - 1)
        BY <3>1, <3>3
      <4> QED
        BY <4>1, <2>1, ClashSymmetric
    <3> QED
      BY <2>2, <3>1, <3>2, <3>3
  <2> QED
    BY <2>1, <2>2 DEF Unordered
<1>2. ASSUME Unordered(body) PROVE validate_module(body)
  <2> SUFFICES ASSUME NEW i \in DOMAIN body PROVE ~Offends(body, i)
    BY DEF validate_module
  <2>1. \A j \in 1..(i - 1) : j \in DOMAIN body /\ j # i
    OBVIOUS
  <2> QED
    BY <1>2, <2>1, OffendsMeaning DEF Unordered
<1> QED
  BY <1>1, <1>2

\* An exchange is a sequence again, of the same length, in which every operation
\* stands where its partner stood.
LEMMA ExchangedOps ==
  ASSUME NEW S, NEW body \in Seq(S), NEW i \in DOMAIN body, NEW j \in DOMAIN body
  PROVE  /\ Exchanged(body, i, j) \in Seq(S)
         /\ DOMAIN Exchanged(body, i, j) = DOMAIN body
         /\ \A k \in DOMAIN body : /\ Swap(i, j, k) \in DOMAIN body
                                   /\ Exchanged(body, i, j)[k] = body[Swap(i, j, k)]
  BY DEF Exchanged, Swap

\* A body without offences and clashes stays one when two operations are exchanged.
LEMMA UnorderedExchanged ==
  ASSUME NEW S, NEW body \in Seq(S), NEW i \in DOMAIN body, NEW j \in DOMAIN body,
         Unordered(body)
  PROVE  Unordered(Exchanged(body, i, j))
<1> DEFINE other == Exchanged(body, i, j)
<1>1. \A k \in DOMAIN other : ~OffendsAlone(other[k])
  BY ExchangedOps DEF Unordered
<1>2. ASSUME NEW k \in DOMAIN other, NEW l \in DOMAIN other, k # l
      PROVE  ~Clash(other[k], other[l])
  <2>1. Swap(i, j, k) # Swap(i, j, l)
    BY <1>2 DEF Swap
  <2>2. /\ Swap(i, j, k) \in DOMAIN body /\ Swap(i, j, l) \in DOMAIN body
        /\ other[k] = body[Swap(i, j, k)] /\ other[l] = body[Swap(i, j, l)]
    BY ExchangedOps
  <2> QED
    BY <2>1, <2>2 DEF Unordered
<1> QED
  BY <1>1, <1>2 DEF Unordered

\* Exchanging the same two positions again restores the body.
LEMMA ExchangedTwice ==
  ASSUME NEW S, NEW body \in Seq(S), NEW i \in DOMAIN body, NEW j \in DOMAIN body
  PROVE  Exchanged(Exchanged(body, i, j), i, j) = body
<1>1. PICK other \in Seq(S) : other = Exchanged(body, i, j)
  BY ExchangedOps
<1>2. /\ DOMAIN other = DOMAIN body
      /\ \A k \in DOMAIN body : Swap(i, j, k) \in DOMAIN body /\ other[k] = body[Swap(i, j, k)]
  BY <1>1, ExchangedOps
<1>3. i \in DOMAIN other /\ j \in DOMAIN other
  BY <1>2
<1>4. /\ Exchanged(other, i, j) \in Seq(S)
      /\ DOMAIN Exchanged(other, i, j) = DOMAIN other
      /\ \A k \in DOMAIN other : Exchanged(other, i, j)[k] = other[Swap(i, j, k)]
  BY <1>3, ExchangedOps
<1>5. \A k \in DOMAIN body : Swap(i, j, Swap(i, j, k)) = k
  BY DEF Swap
<1>6. \A k \in DOMAIN body : Exchanged(other, i, j)[k] = body[k]
  BY <1>2, <1>4, <1>5
<1>7. Exchanged(other, i, j) = body
  BY <1>2, <1>4, <1>6
<1> QED
  BY <1>1, <1>7

\* An exchange neither adds nor removes an sv.mem_write.
LEMMA WritesExchanged ==
  ASSUME NEW S, NEW body \in Seq(S), NEW i \in DOMAIN body, NEW j \in DOMAIN body
  PROVE  WritesNoMemory(Exchanged(body, i, j)) <=> WritesNoMemory(body)
<1>1. ASSUME NEW b \in Seq(S), DOMAIN b = DOMAIN body, WritesNoMemory(b)
      PROVE  WritesNoMemory(Exchanged(b, i, j))
  <2>1. i \in DOMAIN b /\ j \in DOMAIN b
    BY <1>1
  <2>2. /\ DOMAIN Exchanged(b, i, j) = DOMAIN b
        /\ \A k \in DOMAIN b : /\ Swap(i, j, k) \in DOMAIN b
                              /\ Exchanged(b, i, j)[k] = b[Swap(i, j, k)]
    BY <2>1, ExchangedOps
  <2> QED
    BY <1>1, <2>2 DEF WritesNoMemory
<1>2. /\ Exchanged(body, i, j) \in Seq(S)
      /\ DOMAIN Exchanged(body, i, j) = DOMAIN body
  BY ExchangedOps
<1> QED
  BY <1>1, <1>2, ExchangedTwice

\* validate_module says the same of a body and of any exchange of it.
LEMMA ValidExchanged ==
  ASSUME NEW S, NEW body \in Seq(S), NEW i \in DOMAIN body, NEW j \in DOMAIN body,
         WritesNoMemory(body)
  PROVE  validate_module(Exchanged(body, i, j)) <=> validate_module(body)
<1>1. /\ Exchanged(body, i, j) \in Seq(S)
      /\ DOMAIN Exchanged(body, i, j) = DOMAIN body
      /\ WritesNoMemory(Exchanged(body, i, j))
  BY ExchangedOps, WritesExchanged
<1>2. Unordered(Exchanged(body, i, j)) <=> Unordered(body)
  BY <1>1, UnorderedExchanged, ExchangedTwice
<1> QED
  BY <1>1, <1>2, ValidUnordered

Listed(body, symbols) ==
  \A i \in DOMAIN body : body[i].kind \in InstanceKinds => body[i].module \in symbols

\* An exchange leaves the modules that the instances of a body name as they are.
LEMMA ListedExchanged ==
  ASSUME NEW S, NEW body \in Seq(S), NEW i \in DOMAIN body, NEW j \in DOMAIN body, NEW symbols
  PROVE  Listed(Exchanged(body, i, j), symbols) <=> Listed(body, symbols)
<1>1. ASSUME NEW b \in Seq(S), DOMAIN b = DOMAIN body, Listed(b, symbols)
      PROVE  Listed(Exchanged(b, i, j), symbols)
  <2>1. i \in DOMAIN b /\ j \in DOMAIN b
    BY <1>1
  <2>2. /\ DOMAIN Exchanged(b, i, j) = DOMAIN b
        /\ \A k \in DOMAIN b : /\ Swap(i, j, k) \in DOMAIN b
                              /\ Exchanged(b, i, j)[k] = b[Swap(i, j, k)]
    BY <2>1, ExchangedOps
  <2> QED
    BY <1>1, <2>2 DEF Listed
<1>2. /\ Exchanged(body, i, j) \in Seq(S)
      /\ DOMAIN Exchanged(body, i, j) = DOMAIN body
  BY ExchangedOps
<1> QED
  BY <1>1, <1>2, ExchangedTwice

-----------------------------------------------------------------------------
(* The invariants.                                                          *)

\* An element of a sequence over S is in S.
LEMMA ElementOf == ASSUME NEW S, NEW s \in Seq(S), NEW k \in DOMAIN s PROVE s[k] \in S
  OBVIOUS

\* The shape of the collection.
TypeOK ==
  /\ modules \in Seq([symbol : Symbols, body : Seq(Operations)])
  /\ verdict \in {"none", "ok", "err"}

\* Every module of the collection has a name and a sequence of operations.
LEMMA ModuleParts ==
  ASSUME TypeOK, NEW m \in DOMAIN modules
  PROVE  modules[m].symbol \in Symbols /\ modules[m].body \in Seq(Operations)
<1>1. modules \in Seq([symbol : Symbols, body : Seq(Operations)])
  BY DEF TypeOK
<1>2. modules[m] \in [symbol : Symbols, body : Seq(Operations)]
  BY <1>1, ElementOf
<1> QED
  BY <1>2

\* The collection is a sequence of named bodies at every moment.
LEMMA Typing == Spec => []TypeOK
<1>1. Init => TypeOK
  BY DEF Init, TypeOK
<1>2. TypeOK /\ [Next]_vars => TypeOK'
  <2> SUFFICES ASSUME TypeOK, [Next]_vars PROVE TypeOK'
    OBVIOUS
  <2> USE DEF TypeOK, Module
  <2>0. \A m \in DOMAIN modules :
          modules[m].symbol \in Symbols /\ modules[m].body \in Seq(Operations)
    BY ModuleParts
  <2>1. CASE Validate
    BY <2>1 DEF Validate
  <2>2. ASSUME NEW symbol \in Symbols, AddModule(symbol) PROVE TypeOK'
    <3>1. Module(symbol, << >>) \in [symbol : Symbols, body : Seq(Operations)]
      OBVIOUS
    <3> QED
      BY <2>2, <3>1 DEF AddModule
  <2>3. ASSUME NEW m \in DOMAIN modules, NEW op \in Operations, Insert(m, op) PROVE TypeOK'
    <3>1. Append(modules[m].body, op) \in Seq(Operations)
      BY <2>0
    <3> QED
      BY <2>0, <2>3, <3>1 DEF Insert
  <2>4. ASSUME NEW m \in DOMAIN modules, NEW i \in DOMAIN modules[m].body,
               NEW j \in DOMAIN modules[m].body, Reorder(m, i, j)
        PROVE  TypeOK'
    <3>1. Exchanged(modules[m].body, i, j) \in Seq(Operations)
      BY <2>0, ExchangedOps
    <3> QED
      BY <2>0, <2>4, <3>1 DEF Reorder
  <2>5. CASE UNCHANGED vars
    BY <2>5 DEF vars
  <2> QED
    BY <2>1, <2>2, <2>3, <2>4, <2>5 DEF Next
<1> QED
  BY <1>1, <1>2, PTL DEF Spec

\* What validate_modules says of a collection, and whether anything in it writes a
\* memory, stays the same when two operations of a body are exchanged.
LEMMA ReorderKeepsVerdict ==
  ASSUME TypeOK, NEW m \in DOMAIN modules, NEW i \in DOMAIN modules[m].body,
         NEW j \in DOMAIN modules[m].body, Reorder(m, i, j),
         \A k \in DOMAIN modules' : WritesNoMemory(modules'[k].body)
  PROVE  /\ \A k \in DOMAIN modules : WritesNoMemory(modules[k].body)
         /\ validate_modules(modules') <=> validate_modules(modules)
<1> DEFINE body == modules[m].body
           symbols == {modules[k].symbol : k \in DOMAIN modules}
<1>1. body \in Seq(Operations)
  BY ModuleParts
<1>2. /\ DOMAIN modules' = DOMAIN modules
      /\ \A k \in DOMAIN modules :
           /\ modules'[k].symbol = modules[k].symbol
           /\ modules'[k].body = IF k = m THEN Exchanged(body, i, j) ELSE modules[k].body
  BY DEF Reorder, TypeOK, Module
<1>3. \A k \in DOMAIN modules : WritesNoMemory(modules[k].body)
  BY <1>1, <1>2, WritesExchanged
<1>4. symbols = {modules'[k].symbol : k \in DOMAIN modules'}
  BY <1>2
<1>5. ASSUME NEW k \in DOMAIN modules
      PROVE  /\ validate_module(modules'[k].body) <=> validate_module(modules[k].body)
             /\ Listed(modules'[k].body, symbols) <=> Listed(modules[k].body, symbols)
  BY <1>1, <1>2, <1>3, ValidExchanged, ListedExchanged
<1>6. validate_modules(modules) <=>
        \A k \in DOMAIN modules : validate_module(modules[k].body) /\ Listed(modules[k].body, symbols)
  BY DEF validate_modules, Listed
<1>7. validate_modules(modules') <=>
        \A k \in DOMAIN modules' : validate_module(modules'[k].body) /\ Listed(modules'[k].body, symbols)
  BY <1>4 DEF validate_modules, Listed
<1> QED
  BY <1>2, <1>3, <1>5, <1>6, <1>7

\* However large the collection and however often its operations are reordered, a
\* verdict stays what validate_modules would say.
THEOREM VerdictKeptAlways == Spec => []VerdictKept
<1>1. Init => VerdictKept
  BY DEF Init, VerdictKept
<1>2. TypeOK /\ VerdictKept /\ [Next]_vars => VerdictKept'
  <2> SUFFICES ASSUME TypeOK, VerdictKept, [Next]_vars PROVE VerdictKept'
    OBVIOUS
  <2>1. CASE Validate
    BY <2>1 DEF Validate, VerdictKept
  <2>2. ASSUME NEW symbol \in Symbols, AddModule(symbol) PROVE VerdictKept'
    BY <2>2 DEF AddModule, VerdictKept
  <2>3. ASSUME NEW m \in DOMAIN modules, NEW op \in Operations, Insert(m, op)
        PROVE  VerdictKept'
    BY <2>3 DEF Insert, VerdictKept
  <2>4. ASSUME NEW m \in DOMAIN modules, NEW i \in DOMAIN modules[m].body,
               NEW j \in DOMAIN modules[m].body, Reorder(m, i, j)
        PROVE  VerdictKept'
    <3>1. verdict' = verdict
      BY <2>4 DEF Reorder
    <3> QED
      BY <2>4, <3>1, ReorderKeepsVerdict DEF VerdictKept
  <2>5. CASE UNCHANGED vars
    BY <2>5 DEF vars, VerdictKept
  <2> QED
    BY <2>1, <2>2, <2>3, <2>4, <2>5 DEF Next
<1> QED
  BY <1>1, <1>2, Typing, PTL DEF Spec

-----------------------------------------------------------------------------
(* The hierarchy.                                                           *)

InstancesDistinct(body) ==
  \A i, j \in DOMAIN body : i # j => ~SameInstance(body[i], body[j])

ListedSymbols == {modules[k].symbol : k \in DOMAIN modules}

\* What an accepted collection keeps while it is reordered, memory writes or not:
\* the instances of a module have names of their own and name listed modules.
HierarchyInv ==
  verdict = "ok" =>
    \A m \in DOMAIN modules :
      InstancesDistinct(modules[m].body) /\ Listed(modules[m].body, ListedSymbols)

\* In a body that validate_module accepts no two instances have one name: the scan
\* keeps the names it has seen.
LEMMA ValidInstances ==
  ASSUME NEW S, NEW body \in Seq(S), validate_module(body)
  PROVE  InstancesDistinct(body)
<1>1. ASSUME NEW i \in DOMAIN body, NEW j \in 1..(i - 1)
      PROVE  ~SameInstance(body[i], body[j])
  <2>1. ~BadInstance(body, i)
    BY DEF validate_module, Offends
  <2> QED
    BY <2>1 DEF BadInstance, SameInstance, instance_names
<1>2. SUFFICES ASSUME NEW i \in DOMAIN body, NEW j \in DOMAIN body, i # j
               PROVE  ~SameInstance(body[i], body[j])
  BY DEF InstancesDistinct
<1>3. CASE j < i
  <2>1. j \in 1..(i - 1)
    BY <1>3
  <2> QED
    BY <2>1, <1>1
<1>4. CASE i < j
  <2>1. i \in 1..(j - 1)
    BY <1>4
  <2>2. ~SameInstance(body[j], body[i])
    BY <2>1, <1>1
  <2> QED
    BY <2>2 DEF SameInstance
<1> QED
  BY <1>2, <1>3, <1>4

\* Instances with distinct names keep them when two operations are exchanged.
LEMMA InstancesExchanged ==
  ASSUME NEW S, NEW body \in Seq(S), NEW i \in DOMAIN body, NEW j \in DOMAIN body,
         InstancesDistinct(body)
  PROVE  InstancesDistinct(Exchanged(body, i, j))
<1> SUFFICES ASSUME NEW k \in DOMAIN body, NEW l \in DOMAIN body, k # l
             PROVE  ~SameInstance(Exchanged(body, i, j)[k], Exchanged(body, i, j)[l])
  BY ExchangedOps DEF InstancesDistinct
<1>1. Swap(i, j, k) # Swap(i, j, l)
  BY DEF Swap
<1>2. /\ Swap(i, j, k) \in DOMAIN body /\ Swap(i, j, l) \in DOMAIN body
      /\ Exchanged(body, i, j)[k] = body[Swap(i, j, k)]
      /\ Exchanged(body, i, j)[l] = body[Swap(i, j, l)]
  BY ExchangedOps
<1> QED
  BY <1>1, <1>2 DEF InstancesDistinct

\* Reordering the operations of a module keeps the invariant of the hierarchy.
LEMMA ReorderKeepsHierarchy ==
  ASSUME TypeOK, HierarchyInv, NEW m \in DOMAIN modules, NEW i \in DOMAIN modules[m].body,
         NEW j \in DOMAIN modules[m].body, Reorder(m, i, j)
  PROVE  HierarchyInv'
<1> DEFINE body == modules[m].body
<1>1. /\ DOMAIN modules' = DOMAIN modules
      /\ verdict' = verdict
      /\ \A k \in DOMAIN modules :
           /\ modules'[k].symbol = modules[k].symbol
           /\ modules'[k].body = IF k = m THEN Exchanged(body, i, j) ELSE modules[k].body
  BY DEF Reorder, TypeOK, Module
<1>2. ListedSymbols' = ListedSymbols
  BY <1>1 DEF ListedSymbols
<1>3. body \in Seq(Operations)
  BY ModuleParts
<1>4. ASSUME verdict = "ok", NEW k \in DOMAIN modules
      PROVE  InstancesDistinct(modules'[k].body) /\ Listed(modules'[k].body, ListedSymbols)
  <2>1. InstancesDistinct(modules[k].body) /\ Listed(modules[k].body, ListedSymbols)
    BY <1>4 DEF HierarchyInv
  <2> QED
    BY <1>1, <1>3, <2>1, InstancesExchanged, ListedExchanged
<1> QED
  BY <1>1, <1>2, <1>4 DEF HierarchyInv

\* An instance of an accepted collection is of exactly one module.
LEMMA OneBelow ==
  ASSUME TypeOK, HierarchyInv, verdict = "ok",
         \A j, k \in DOMAIN modules : modules[j].symbol = modules[k].symbol => j = k,
         NEW m \in DOMAIN modules, NEW n \in InstanceNames(m)
  PROVE  \E k \in DOMAIN modules : Below({m}, n) = {k}
<1> DEFINE body == modules[m].body
<1>1. body \in Seq(Operations)
  BY ModuleParts
<1>2. PICK i \in DOMAIN body : body[i].kind \in InstanceKinds /\ body[i].name = n
  BY <1>1 DEF InstanceNames, instance_names
<1>3. InstancesDistinct(body) /\ Listed(body, ListedSymbols)
  BY DEF HierarchyInv
<1>4. PICK k \in DOMAIN modules : modules[k].symbol = body[i].module
  BY <1>2, <1>3 DEF Listed, ListedSymbols
<1>5. k \in Below({m}, n)
  BY <1>2, <1>4 DEF Below
<1>6. ASSUME NEW l \in Below({m}, n) PROVE l = k
  <2>1. PICK j \in DOMAIN body : /\ body[j].kind \in InstanceKinds /\ body[j].name = n
                                 /\ body[j].module = modules[l].symbol
    BY <1>6 DEF Below
  <2>2. j = i
    BY <1>2, <1>3, <2>1 DEF InstancesDistinct, SameInstance
  <2>3. l \in DOMAIN modules
    BY DEF Below
  <2> QED
    BY <1>4, <2>1, <2>2, <2>3
<1> QED
  BY <1>5, <1>6

\* The invariant of the hierarchy is enough: every path of instance names leads to one
\* module when no two modules share a name.
LEMMA PathsFromInv == TypeOK /\ HierarchyInv => HierarchyResolves
<1> SUFFICES ASSUME TypeOK, HierarchyInv, verdict = "ok",
                    \A j, k \in DOMAIN modules : modules[j].symbol = modules[k].symbol => j = k
             PROVE  PathsLeadToOneModule
  BY DEF HierarchyResolves
<1> SUFFICES ASSUME NEW m \in DOMAIN modules, NEW n \in InstanceNames(m)
             PROVE  /\ Cardinality(Below({m}, n)) = 1
                    /\ \A k \in Below({m}, n) : \A o \in InstanceNames(k) :
                         Cardinality(Below(Below({m}, n), o)) = 1
  BY DEF PathsLeadToOneModule
<1>1. PICK k \in DOMAIN modules : Below({m}, n) = {k}
  BY OneBelow
<1>2. ASSUME NEW o \in InstanceNames(k) PROVE Cardinality(Below({k}, o)) = 1
  <2>1. PICK l \in DOMAIN modules : Below({k}, o) = {l}
    BY OneBelow
  <2> QED
    BY <2>1, FS_Singleton
<1> QED
  BY <1>1, <1>2, FS_Singleton

\* In every accepted collection whose modules have names of their own, paths of
\* instance names lead to one module, also after its operations were reordered.
THEOREM HierarchyAlwaysResolves == Spec => []HierarchyResolves
<1>1. Init => HierarchyInv
  BY DEF Init, HierarchyInv
<1>2. TypeOK /\ HierarchyInv /\ [Next]_vars => HierarchyInv'
  <2> SUFFICES ASSUME TypeOK, HierarchyInv, [Next]_vars PROVE HierarchyInv'
    OBVIOUS
  <2>1. CASE Validate
    <3>1. SUFFICES ASSUME validate_modules(modules), NEW m \in DOMAIN modules
                   PROVE  InstancesDistinct(modules[m].body) /\ Listed(modules[m].body, ListedSymbols)
      BY <2>1 DEF Validate, HierarchyInv, ListedSymbols
    <3>2. modules[m].body \in Seq(Operations)
      BY ModuleParts
    <3>3. validate_module(modules[m].body) /\ Listed(modules[m].body, ListedSymbols)
      BY <3>1 DEF validate_modules, Listed, ListedSymbols
    <3> QED
      BY <3>2, <3>3, ValidInstances
  <2>2. ASSUME NEW symbol \in Symbols, AddModule(symbol) PROVE HierarchyInv'
    BY <2>2 DEF AddModule, HierarchyInv
  <2>3. ASSUME NEW m \in DOMAIN modules, NEW op \in Operations, Insert(m, op)
        PROVE  HierarchyInv'
    BY <2>3 DEF Insert, HierarchyInv
  <2>4. ASSUME NEW m \in DOMAIN modules, NEW i \in DOMAIN modules[m].body,
               NEW j \in DOMAIN modules[m].body, Reorder(m, i, j)
        PROVE  HierarchyInv'
    BY <2>4, ReorderKeepsHierarchy
  <2>5. CASE UNCHANGED vars
    BY <2>5 DEF vars, HierarchyInv, ListedSymbols
  <2> QED
    BY <2>1, <2>2, <2>3, <2>4, <2>5 DEF Next
<1> QED
  BY <1>1, <1>2, Typing, PathsFromInv, PTL DEF Spec
=============================================================================
