---------------------------- MODULE HwCollection ----------------------------
(***************************************************************************)
(* A collection of modules is built, validated by validate_modules, and    *)
(* its operations are reordered.                                           *)
(*                                                                         *)
(* The body of an hw.module is a graph region: its operations run          *)
(* concurrently, and what order they stand in is presentation only.  A     *)
(* verdict is kept while nothing but that order changes.                   *)
(***************************************************************************)
EXTENDS HwValidation, FiniteSets

CONSTANTS
  Symbols,     \* names of modules
  Operations,  \* the operations a body is made of
  MaxModules,  \* bound on the modules of the collection
  MaxOps       \* bound on the operations of a body

VARIABLES
  modules,  \* sequence of [symbol, body]
  verdict   \* "none", "ok" or "err"

vars == <<modules, verdict>>

Init == modules = << >> /\ verdict = "none"

Module(symbol, body) == [symbol |-> symbol, body |-> body]

AddModule(symbol) ==
  /\ Len(modules) < MaxModules
  /\ modules' = Append(modules, Module(symbol, << >>))
  /\ verdict' = "none"

Insert(m, op) ==
  /\ Len(modules[m].body) < MaxOps
  /\ modules' = [modules EXCEPT ![m] = Module(@.symbol, Append(@.body, op))]
  /\ verdict' = "none"

Validate ==
  /\ verdict' = IF validate_modules(modules) THEN "ok" ELSE "err"
  /\ UNCHANGED modules

Exchanged(body, i, j) == [body EXCEPT ![i] = body[j], ![j] = body[i]]

Reorder(m, i, j) ==
  /\ i # j
  /\ modules' = [modules EXCEPT ![m] = Module(@.symbol, Exchanged(@.body, i, j))]
  /\ UNCHANGED verdict

Next ==
  \/ Validate
  \/ \E symbol \in Symbols : AddModule(symbol)
  \/ \E m \in DOMAIN modules :
       \/ \E op \in Operations : Insert(m, op)
       \/ \E i, j \in DOMAIN modules[m].body : Reorder(m, i, j)

Spec == Init /\ [][Next]_vars

-----------------------------------------------------------------------------
(* Properties.                                                              *)

WritesNoMemory(body) == \A i \in DOMAIN body : body[i].kind # "mem_write"

\* A verdict stays what validate_modules would say however the operations of the
\* modules are reordered, as long as no sv.mem_write is among them: a target of
\* one is recorded by the scan but not checked.
VerdictKept ==
  verdict # "none" /\ (\A m \in DOMAIN modules : WritesNoMemory(modules[m].body)) =>
    (verdict = "ok" <=> validate_modules(modules))

\* The modules that the instance called `name` in one of the modules `from` may be
\* of.
Below(from, name) ==
  {k \in DOMAIN modules :
     \E m \in from : \E i \in DOMAIN modules[m].body :
       LET op == modules[m].body[i] IN
         op.kind \in InstanceKinds /\ op.name = name /\ op.module = modules[k].symbol}

InstanceNames(m) == instance_names(modules[m].body, Len(modules[m].body) + 1)

\* Every instance, and every instance in that one, is of exactly one module.
PathsLeadToOneModule ==
  \A m \in DOMAIN modules : \A n \in InstanceNames(m) :
    /\ Cardinality(Below({m}, n)) = 1
    /\ \A k \in Below({m}, n) : \A o \in InstanceNames(k) :
         Cardinality(Below(Below({m}, n), o)) = 1

\* In an accepted collection whose modules have names of their own, a path of
\* instance names (as hw.hierpath gives one) leads to one module.
HierarchyResolves ==
  verdict = "ok" /\ (\A j, k \in DOMAIN modules : modules[j].symbol = modules[k].symbol => j = k)
    => PathsLeadToOneModule
=============================================================================
