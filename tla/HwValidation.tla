---------------------------- MODULE HwValidation ----------------------------
(***************************************************************************)
(* validate_module and validate_modules: what cross-operation relations of *)
(* a module body the validator rejects.                                    *)
(*                                                                         *)
(* A body is a sequence of operations in block order.  The validator scans *)
(* it once and fails at the first operation that offends against the ones  *)
(* before it.  Only the fields it reads are given: the target of an sv     *)
(* operation, the name and module of an instance, the memory and address   *)
(* values of a seq.hlmem_write.  The terminator, without which a body that *)
(* is not empty fails, is not in the sequence.                             *)
(***************************************************************************)
EXTENDS Naturals, Sequences

\* An empty instance name or module reference.
Empty == << >>

\* The sv operations whose target must be new when the scan meets them.
TargetKinds ==
  {"assign", "always_comb", "logic_decl", "mem_decl", "mem_read",
   "always_ff", "always_ff_no_reset"}

\* target_names when the scan reaches position i; a mem_write adds its target
\* without asking whether it is new.
target_names(body, i) ==
  {body[j].target : j \in {k \in 1..(i - 1) : body[k].kind \in TargetKinds \cup {"mem_write"}}}

\* A slip: plain registers are not checked.
DuplicateTarget_reset_only(body, i) ==
  /\ body[i].kind \in TargetKinds \ {"always_ff_no_reset"}
  /\ body[i].target \in target_names(body, i)

DuplicateTarget(body, i) ==
  /\ body[i].kind \in TargetKinds
  /\ body[i].target \in target_names(body, i)

\* sv.assign of a clock or reset value.
AssignsClock(body, i) == body[i].kind = "assign" /\ body[i].clock_or_reset

InstanceKinds == {"hw.instance", "sv.instance"}

instance_names(body, i) ==
  {body[j].name : j \in {k \in 1..(i - 1) : body[k].kind \in InstanceKinds}}

\* A slip: the instances of the two dialects are told apart.
BadInstance_by_dialect(body, i) ==
  /\ body[i].kind \in InstanceKinds
  /\ \/ \E j \in 1..(i - 1) : body[j].kind = body[i].kind /\ body[j].name = body[i].name
     \/ body[i].kind = "hw.instance" /\ Empty \in {body[i].name, body[i].module}

BadInstance(body, i) ==
  /\ body[i].kind \in InstanceKinds
  /\ \/ body[i].name \in instance_names(body, i)
     \/ body[i].kind = "hw.instance" /\ Empty \in {body[i].name, body[i].module}

\* Two writes through the same memory value and the same address value.
ConflictingWrite(body, i) ==
  /\ body[i].kind = "write"
  /\ \E j \in 1..(i - 1) : /\ body[j].kind = "write"
                           /\ body[j].memory = body[i].memory
                           /\ body[j].address = body[i].address

Offends(body, i) ==
  \/ DuplicateTarget(body, i) \/ AssignsClock(body, i)
  \/ BadInstance(body, i) \/ ConflictingWrite(body, i)

validate_module(body) == \A i \in DOMAIN body : ~Offends(body, i)

\* modules is a sequence of [symbol, body]; every module is validated and every
\* instance must name one of the symbols.
validate_modules(modules) ==
  \A m \in DOMAIN modules :
    /\ validate_module(modules[m].body)
    /\ \A i \in DOMAIN modules[m].body :
         modules[m].body[i].kind \in InstanceKinds =>
           modules[m].body[i].module \in {modules[k].symbol : k \in DOMAIN modules}
=============================================================================
