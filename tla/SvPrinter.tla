----------------------------- MODULE SvPrinter -----------------------------
(***************************************************************************)
(* An hw.module of sv operations is built, perhaps canonicalized, and then *)
(* printed by render_module.                                               *)
(*                                                                         *)
(* A value is a number: 1..Len(Inputs) are the inputs, every other value   *)
(* is the result of the operation with that id.  A result may have a name; *)
(* what is printed for a value without one is made from its id.  The text  *)
(* is kept as declarations and statements: of a statement, what it drives  *)
(* and the names it reads.                                                 *)
(***************************************************************************)
EXTENDS SvOps, SequencesExt, FiniteSetsExt

CONSTANTS
  Inputs,     \* the inputs of the module: [name, ty]
  Templates,  \* the operations a body is made of, with any id
  MaxOps      \* bound on the operations of the body

ASSUME InputsAssumption ==
  /\ Inputs \in Seq(Range(Inputs))
  /\ \A i, j \in DOMAIN Inputs : Inputs[i].name = Inputs[j].name => i = j

\* These make no value.
Effects ==
  {"always_comb", "always_ff", "always_ff_no_reset", "mem_write", "bpa", "nba", "case",
   "instance", "output"}

\* The operands and results that the interfaces of an operation give it.
WellBuilt(op) ==
  /\ op = [id |-> op.id, kind |-> op.kind, target |-> op.target, attr |-> op.attr,
           in |-> op.in, ty |-> op.ty, name |-> op.name]
  /\ op.in \in Seq(Nat)
  /\ op.kind \in {"assign", "always_comb", "bpa", "nba", "case"} => Len(op.in) = 1
  /\ op.kind = "always_ff_no_reset" => Len(op.in) = 2
  /\ op.kind = "mem_read" => Len(op.in) = 3
  /\ op.kind = "always_ff" => Len(op.in) = 4
  /\ op.kind = "mem_write" => Len(op.in) = 5
  /\ op.kind \in Effects => op.ty = NoType

ASSUME TemplatesAssumption == \A op \in Templates : WellBuilt(op)

VARIABLES
  body,           \* operations of the module, in block order
  next_id,        \* id of the next operation
  pos,            \* operations the printer has visited
  ports,          \* [dir, ty, name]
  declared_names,
  declarations,   \* [keyword, ty, name]
  statements,     \* [form, target, reads]
  status          \* "building", "printing", "ok", "err" or "panic"

vars == <<body, next_id, pos, ports, declared_names, declarations, statements, status>>
printer == <<pos, ports, declared_names, declarations, statements>>

Validation == INSTANCE HwValidation

-----------------------------------------------------------------------------
(* Values.                                                                  *)

Unnamed == << >>

IsInput(v) == v \in DOMAIN Inputs

Values(b) == DOMAIN Inputs \cup {op.id : op \in {o \in Range(b) : o.ty # NoType}}

DefiningOp(b, v) == CHOOSE op \in Range(b) : op.id = v

TypeOf(b, v) == IF IsInput(v) THEN Inputs[v].ty ELSE DefiningOp(b, v).ty

\* The given name, or a name no operation can be given.
value_name(b, v) ==
  IF IsInput(v) THEN Inputs[v].name
  ELSE LET op == DefiningOp(b, v) IN IF op.name = Unnamed THEN <<"op", v>> ELSE op.name

memory_name(b, v) ==
  IF ~IsInput(v) /\ DefiningOp(b, v).kind = "mem_decl" THEN DefiningOp(b, v).target
  ELSE value_name(b, v)

IsExpression(b, v) == ~IsInput(v) /\ DefiningOp(b, v).kind \in Expressions

\* The names render_expr writes for a value.
Reads(b, v) ==
  LET reads[w \in Values(b)] ==
        IF IsExpression(b, w) THEN UNION {reads[u] : u \in Range(DefiningOp(b, w).in)}
        ELSE {value_name(b, w)}
  IN reads[v]

OperandTypes(b, op) == [op EXCEPT !.in = [k \in DOMAIN op.in |-> TypeOf(b, op.in[k])]]

\* verify_op of the module verifies every operation of the body.
Verified(b) == \A k \in DOMAIN b : verify(OperandTypes(b, b[k]))

\* The operations as validate_module sees them.
Validated(b) ==
  Validation!validate_module(
    [k \in DOMAIN b |->
       [kind |-> IF b[k].kind = "instance" THEN "sv.instance" ELSE b[k].kind,
        target |-> b[k].target, name |-> b[k].target, module |-> b[k].attr,
        clock_or_reset |-> b[k].kind = "assign" /\ TypeOf(b, b[k].in[1]) \in {Clock, Reset}]])

-----------------------------------------------------------------------------
(* What an operation contributes to the text.                               *)

Declaration(keyword, ty, name) == [keyword |-> keyword, ty |-> ty, name |-> name]

Keyword(op) ==
  CASE op.kind \in {"wire_decl", "assign"} -> "wire"
    [] op.kind = "reg_decl"                -> "reg"
    [] OTHER                               -> "logic"

Implicit == {"assign", "always_comb", "always_ff", "always_ff_no_reset", "mem_read"}

\* The type a target is declared with: that of the value stored in it.
DeclaredType(b, op) ==
  CASE op.kind \in Declarations \cup {"mem_read"} -> op.ty
    [] op.kind \in {"assign", "always_comb"} -> TypeOf(b, op.in[1])
    [] op.kind \in {"always_ff", "always_ff_no_reset"} -> TypeOf(b, op.in[2])

Statement(form, target, reads) == [form |-> form, target |-> target, reads |-> reads]

AllReads(b, op) == UNION {Reads(b, op.in[k]) : k \in DOMAIN op.in}

\* Clocks, resets and memories are written by name, never as expressions.
Rendered(b, op) ==
  CASE op.kind = "mem_decl" -> Statement("memory", op.target, {})
    [] op.kind = "mem_read" ->
         Statement("process", op.target,
                   {value_name(b, op.in[1]), memory_name(b, op.in[2])} \cup Reads(b, op.in[3]))
    [] op.kind = "mem_write" ->
         Statement("write", memory_name(b, op.in[2]),
                   {value_name(b, op.in[1])} \cup UNION {Reads(b, op.in[k]) : k \in 3..5})
    [] op.kind = "always_ff_no_reset" ->
         Statement("process", op.target, {value_name(b, op.in[1])} \cup Reads(b, op.in[2]))
    [] op.kind = "always_ff" ->
         Statement("process", op.target,
                   {value_name(b, op.in[1]), value_name(b, op.in[3])}
                   \cup Reads(b, op.in[2]) \cup Reads(b, op.in[4]))
    [] op.kind = "instance" -> Statement("instance", Unnamed, AllReads(b, op))
    [] op.kind = "assign" -> Statement("assign", op.target, AllReads(b, op))
    [] op.kind \in {"always_comb", "bpa", "nba"} ->
         Statement("process", op.target, AllReads(b, op))

Printable ==
  Implicit \cup {"mem_decl", "mem_write", "instance", "bpa", "nba"}

\* Left out of the text: what is printed inside other operations, what is to be
\* lowered first, the terminator and sv.case.
Omitted == Expressions \cup {"output", "compreg", "case"}

-----------------------------------------------------------------------------
(* Building.                                                                *)

\* Operands are inputs and results of the operations before.
Insert(op) ==
  /\ status = "building" /\ next_id < Len(Inputs) + 1 + MaxOps
  /\ Range(op.in) \subseteq Values(body)
  /\ body' = Append(body, [op EXCEPT !.id = next_id])
  /\ next_id' = next_id + 1
  /\ UNCHANGED <<printer, status>>

\* The operation goes, and what used its result uses the source.
Erase(b, k, source) ==
  LET substitute(v) == IF v = b[k].id THEN source ELSE v
      redirect(op) == [op EXCEPT !.in = [j \in DOMAIN op.in |-> substitute(op.in[j])]]
      rest == RemoveAt(b, k)
  IN [j \in DOMAIN rest |-> redirect(rest[j])]

GivenName(b, v) == IF IsInput(v) THEN Inputs[v].name ELSE DefiningOp(b, v).name

\* A slip: the assignment goes whatever name its source has.
EliminateRedundantAssign_any(k) ==
  /\ status = "building"
  /\ body[k].kind = "assign" /\ verify(OperandTypes(body, body[k]))
  /\ GivenName(body, body[k].in[1]) # Unnamed
  /\ body' = Erase(body, k, body[k].in[1])
  /\ UNCHANGED <<next_id, printer, status>>

\* eliminate_redundant_assign, where it changes something: a verified assignment
\* to the name its source already has.
EliminateRedundantAssign(k) ==
  /\ status = "building"
  /\ body[k].kind = "assign" /\ verify(OperandTypes(body, body[k]))
  /\ GivenName(body, body[k].in[1]) # Unnamed
  /\ body[k].target = GivenName(body, body[k].in[1])
  /\ body' = Erase(body, k, body[k].in[1])
  /\ UNCHANGED <<next_id, printer, status>>

-----------------------------------------------------------------------------
(* Printing.                                                                *)

\* The header has a port for every input.
StartPrinting ==
  /\ status = "building" /\ Verified(body)
  /\ status' = "printing"
  /\ ports' = [i \in DOMAIN Inputs |->
                 [dir |-> "input", ty |-> Inputs[i].ty, name |-> Inputs[i].name]]
  /\ declared_names' = {Inputs[i].name : i \in DOMAIN Inputs}
  /\ UNCHANGED <<body, next_id, pos, declarations, statements>>

NotVerified ==
  /\ status = "building" /\ ~Verified(body)
  /\ status' = "err"
  /\ UNCHANGED <<body, next_id, printer>>

\* A slip: an explicit declaration is not remembered.
Declare_forgotten(op) ==
  IF op.target \in declared_names THEN UNCHANGED <<declared_names, declarations>>
  ELSE /\ declared_names' =
            IF op.kind \in Declarations THEN declared_names ELSE declared_names \cup {op.target}
       /\ declarations' =
            Append(declarations, Declaration(Keyword(op), DeclaredType(body, op), op.target))

\* A target is declared where it is first met; a later declaration is dropped.
Declare(op) ==
  IF op.target \in declared_names THEN UNCHANGED <<declared_names, declarations>>
  ELSE /\ declared_names' = declared_names \cup {op.target}
       /\ declarations' =
            Append(declarations, Declaration(Keyword(op), DeclaredType(body, op), op.target))

Visiting(op) ==
  /\ status = "printing" /\ pos < Len(body)
  /\ op = body[pos + 1]
  /\ pos' = pos + 1
  /\ UNCHANGED <<body, next_id, ports>>

PrintDeclaration(op) ==
  /\ op.kind \in Declarations
  /\ Visiting(op)
  /\ Declare(op)
  /\ UNCHANGED <<statements, status>>

PrintStatement(op) ==
  /\ op.kind \in Printable /\ ~(op.kind = "mem_decl" /\ op.ty.depth = 0)
  /\ Visiting(op)
  /\ IF op.kind \in Implicit THEN Declare(op) ELSE UNCHANGED <<declared_names, declarations>>
  /\ statements' = Append(statements, Rendered(body, op))
  /\ UNCHANGED status

\* depth() - 1 overflows; a build without overflow checks prints [0:2^64-1].
EmptyMemory(op) ==
  /\ op.kind = "mem_decl" /\ op.ty.depth = 0
  /\ Visiting(op)
  /\ \/ status' = "panic" /\ UNCHANGED statements
     \/ statements' = Append(statements, Rendered(body, op)) /\ UNCHANGED status
  /\ UNCHANGED <<declared_names, declarations>>

Omit(op) ==
  /\ op.kind \in Omitted
  /\ Visiting(op)
  /\ UNCHANGED <<declared_names, declarations, statements, status>>

Unsupported(op) ==
  /\ op.kind \notin Declarations \cup Printable \cup Omitted
  /\ Visiting(op)
  /\ status' = "err"
  /\ UNCHANGED <<declared_names, declarations, statements>>

Finish ==
  /\ status = "printing" /\ pos = Len(body)
  /\ status' = "ok"
  /\ UNCHANGED <<body, next_id, printer>>

Returned == status \in {"ok", "err", "panic"} /\ UNCHANGED vars

Init ==
  /\ body = << >> /\ next_id = Len(Inputs) + 1
  /\ pos = 0 /\ ports = << >> /\ declared_names = {} /\ declarations = << >> /\ statements = << >>
  /\ status = "building"

Next ==
  \/ \E op \in Templates : Insert(op)
  \/ \E k \in DOMAIN body : EliminateRedundantAssign(k)
  \/ StartPrinting \/ NotVerified \/ Finish \/ Returned
  \/ \E op \in Range(body) :
       PrintDeclaration(op) \/ PrintStatement(op) \/ EmptyMemory(op)
       \/ Omit(op) \/ Unsupported(op)

Spec == Init /\ [][Next]_vars

-----------------------------------------------------------------------------
(* What the text says.                                                      *)

Driving == {"assign", "process"}

InputNames == {Inputs[i].name : i \in DOMAIN Inputs}

MemoryNames == {op.target : op \in {o \in Range(body) : o.kind = "mem_decl"}}

\* The declarations of a name in the text: ports, declarations and memories.
Declared(name) ==
  Cardinality({i \in DOMAIN ports : ports[i].name = name})
  + Cardinality({i \in DOMAIN declarations : declarations[i].name = name})
  + Cardinality({i \in DOMAIN statements :
                   statements[i].form = "memory" /\ statements[i].target = name})

Mentioned == {s.target : s \in {t \in Range(statements) : t.form \in Driving \cup {"write"}}}
             \cup UNION {s.reads : s \in Range(statements)}

\* A result bears the name of what stores it.
NamedAfterTarget(op) == op.kind \in Declarations \cup {"assign", "mem_decl", "mem_read"} => op.name = op.target

\* Clocks, resets and memories are written by the name of their value, which
\* an expression does not declare.
ComputesIntegers(op) == op.kind \in Expressions => IsInt(op.ty)

OwnNames ==
  /\ \A op \in Range(body) : NamedAfterTarget(op) /\ ComputesIntegers(op)
  /\ \A op \in Range(body) : op.kind \notin {"bpa", "nba", "compreg"}
  /\ \A k \in DOMAIN body : body[k].kind = "mem_decl" =>
       body[k].target \notin InputNames \cup {body[j].target : j \in DOMAIN body \ {k}}

\* Whatever the targets of the module, where results bear the names of their
\* targets, memories have names of their own and expressions compute integers,
\* every name of the text is declared, and declared once.
DeclaredOnce ==
  status = "ok" /\ OwnNames => \A n \in Mentioned : Declared(n) = 1

Drivers(name) ==
  {i \in DOMAIN statements : statements[i].form \in Driving /\ statements[i].target = name}

\* What validate_module accepts drives every name but an input from one statement
\* at most, unless the module holds procedural assignments, whose targets are not
\* looked at.
DrivenOnce ==
  status = "ok" /\ Validated(body) /\ (\A op \in Range(body) : op.kind \notin {"bpa", "nba"}) =>
    \A n \in Mentioned \ InputNames : Cardinality(Drivers(n)) <= 1

\* The type of what an operation stores in its target.
StoredType(op) ==
  CASE op.kind \in {"assign", "always_comb"} -> TypeOf(body, op.in[1])
    [] op.kind \in {"always_ff", "always_ff_no_reset"} -> TypeOf(body, op.in[2])
    [] op.kind = "mem_read" -> IntType(TypeOf(body, op.in[2]).width)

\* A name has the type of every value stored in it unless it is an input or was
\* declared as a wire or a register, which validate_module does not look at.
TypeStored ==
  status = "ok" /\ Validated(body) =>
    \A op \in {o \in Range(body) : o.kind \in Implicit} :
      \/ op.target \in InputNames
      \/ \E o \in Range(body) : o.kind \in {"wire_decl", "reg_decl"} /\ o.target = op.target
      \/ \E d \in Range(declarations) : d.name = op.target /\ d.ty = StoredType(op)

\* An assignment of a name to itself.
SelfAssigned(b, op) ==
  /\ op.kind = "assign" /\ ~IsExpression(b, op.in[1])
  /\ value_name(b, op.in[1]) = op.target

DrivenIn(b, n) ==
  \E op \in Range(b) : op.kind \in Implicit /\ op.target = n /\ ~SelfAssigned(b, op)

NamesOfExpressions(b) == {op.name : op \in {o \in Range(b) : o.kind \in Expressions}}

\* Where results bear the names of their targets, eliminating an assignment takes
\* its driver from no name, unless an expression bears the name, and makes no
\* other assignment one of a name to itself.
EliminationKeepsDrivers ==
  [][(\A op \in Range(body) : NamedAfterTarget(op)) =>
       \A n \in {op.target : op \in Range(body)} \ NamesOfExpressions(body) :
         DrivenIn(body, n) => DrivenIn(body', n)]_body
=============================================================================
