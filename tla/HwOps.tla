------------------------------- MODULE HwOps -------------------------------
(***************************************************************************)
(* The constructors and verifiers of the value operations of the hw        *)
(* dialect, and bodies made with them.                                     *)
(*                                                                         *)
(* An operation is a record: its kind, the positions of its operands among *)
(* the values, the types of its results, low (hw.slice's low_bit), width   *)
(* (of hw.constant's attribute) and name (the text attribute of the others *)
(* that have one).  The parser of the text form calls no constructor.      *)
(***************************************************************************)
EXTENDS HwTypes

CONSTANTS
  InputTypes,      \* the types an input of the module may have
  Operations,      \* the operations that may be inserted
  MaxValues        \* bound on the values of a body

Kinds ==
  {"constant", "wire", "bitcast", "concat", "slice", "array_create", "array_get", "array_slice",
   "array_concat", "array_inject", "struct_create", "struct_extract", "struct_inject",
   "struct_explode", "union_create", "union_extract", "param_value"}

ASSUME OperationsAssumption ==
  /\ InputTypes \subseteq Types
  /\ \A op \in Operations :
       /\ op.kind \in Kinds
       /\ op.args \in Seq(Nat) /\ op.results \in Seq(Types)
       /\ op.low \in Nat /\ op.width \in Nat

VARIABLES
  overflow_checks,  \* whether an addition that overflows panics, as the build sets it, or wraps
  values,  \* sequence of [ty, bits]: a value's type, the bits that reach it
  body     \* the operations, in the order they were inserted

vars == <<overflow_checks, values, body>>

NoName == ""

IsArray(ty) == ty.kind = "array"

\* Unchecked addition of machine words; None stands for a panic.
Added(numbers) ==
  LET sum == Total(numbers) IN
    IF sum < Word THEN sum ELSE IF overflow_checks THEN None ELSE sum % Word

-----------------------------------------------------------------------------
(* Verifiers.  `in` is the sequence of the types of the operands.           *)

verify_constant(op) ==
  op.results[1].kind = "integer" => op.width = op.results[1].width

verify_wire(op, in) == op.name # NoName /\ in[1] = op.results[1]

\* A slip: only casts that narrow are rejected.
verify_bitcast_narrowing(op, in) ==
  LET from == compute_type_bitwidth[in[1]]
      to == compute_type_bitwidth[op.results[1]]
  IN from # None /\ to # None => from <= to

verify_bitcast(op, in) ==
  LET from == compute_type_bitwidth[in[1]]
      to == compute_type_bitwidth[op.results[1]]
  IN from # None /\ to # None => from = to

verify_concat(op, in) ==
  LET ws == [i \in DOMAIN in |-> compute_type_bitwidth[in[i]]]
      to == compute_type_bitwidth[op.results[1]]
  IN /\ in # << >>
     /\ \A i \in DOMAIN ws : ws[i] # None
     /\ to # None /\ Added(ws) = to

\* to_u64 of an attribute of any width.
to_u64(n) == IF n < Word THEN n ELSE n % Word

verify_slice(op, in) ==
  LET from == compute_type_bitwidth[in[1]]
      to == compute_type_bitwidth[op.results[1]]
  IN from # None /\ to # None => to_u64(op.low) + to <= from

verify_array_create(op, in) ==
  LET ty == op.results[1] IN
    /\ IsArray(ty)
    /\ Len(in) = ty.size
    /\ \A i \in DOMAIN in : in[i] = ty.element

\* The index, the second operand, may have any type.
verify_array_get(op, in) == IsArray(in[1]) /\ op.results[1] = in[1].element

\* Nothing bounds the low index.
verify_array_slice(op, in) ==
  LET ty == op.results[1] IN
    IsArray(in[1]) /\ IsArray(ty) /\ in[1].element = ty.element /\ ty.size <= in[1].size

verify_array_concat(op, in) ==
  LET ty == op.results[1] IN
    /\ in # << >>
    /\ IsArray(ty)
    /\ \A i \in DOMAIN in : IsArray(in[i]) /\ in[i].element = ty.element
    /\ Added([i \in DOMAIN in |-> in[i].size]) = ty.size

verify_array_inject(op, in) ==
  IsArray(in[1]) /\ in[3] = in[1].element /\ op.results[1] = in[1]

FieldTypes(ty) == [i \in DOMAIN ty.fields |-> ty.fields[i].ty]

verify_struct_create(op, in) ==
  op.results[1].kind = "struct" /\ in = FieldTypes(op.results[1])

\* A field of the name, the first one, has the type.
HasField(ty, name, field) ==
  LET i == get_field_index(ty.fields, name) IN
    name # NoName /\ i # 0 /\ ty.fields[i].ty = field

verify_struct_extract(op, in) == in[1].kind = "struct" /\ HasField(in[1], op.name, op.results[1])

verify_struct_inject(op, in) ==
  in[1].kind = "struct" /\ HasField(in[1], op.name, in[2]) /\ op.results[1] = in[1]

verify_struct_explode(op, in) == in[1].kind = "struct" /\ op.results = FieldTypes(in[1])

verify_union_create(op, in) ==
  op.results[1].kind = "union" /\ HasField(op.results[1], op.name, in[1])

verify_union_extract(op, in) == in[1].kind = "union" /\ HasField(in[1], op.name, op.results[1])

verify_param_value(op) == op.name # NoName

\* NOpdsInterface and OneResultInterface.
NoOperands == {"constant", "param_value"}
OneOperand ==
  {"wire", "bitcast", "slice", "struct_extract", "struct_explode", "union_create", "union_extract"}
TwoOperands == {"array_get", "array_slice", "struct_inject"}
ThreeOperands == {"array_inject"}

verify_interfaces(op) ==
  /\ op.kind \in NoOperands => Len(op.args) = 0
  /\ op.kind \in OneOperand => Len(op.args) = 1
  /\ op.kind \in TwoOperands => Len(op.args) = 2
  /\ op.kind \in ThreeOperands => Len(op.args) = 3
  /\ op.kind # "struct_explode" => Len(op.results) = 1

verify_op(op, in) ==
  CASE op.kind = "constant" -> verify_constant(op)
    [] op.kind = "wire" -> verify_wire(op, in)
    [] op.kind = "bitcast" -> verify_bitcast(op, in)
    [] op.kind = "concat" -> verify_concat(op, in)
    [] op.kind = "slice" -> verify_slice(op, in)
    [] op.kind = "array_create" -> verify_array_create(op, in)
    [] op.kind = "array_get" -> verify_array_get(op, in)
    [] op.kind = "array_slice" -> verify_array_slice(op, in)
    [] op.kind = "array_concat" -> verify_array_concat(op, in)
    [] op.kind = "array_inject" -> verify_array_inject(op, in)
    [] op.kind = "struct_create" -> verify_struct_create(op, in)
    [] op.kind = "struct_extract" -> verify_struct_extract(op, in)
    [] op.kind = "struct_inject" -> verify_struct_inject(op, in)
    [] op.kind = "struct_explode" -> verify_struct_explode(op, in)
    [] op.kind = "union_create" -> verify_union_create(op, in)
    [] op.kind = "union_extract" -> verify_union_extract(op, in)
    [] op.kind = "param_value" -> verify_param_value(op)

verify(op, in) == verify_interfaces(op) /\ verify_op(op, in)

-----------------------------------------------------------------------------
(* Constructors: whether `new` makes this operation, its result types       *)
(* derived where it derives them and its assertions passed.                 *)

NamedKinds ==
  {"wire", "struct_extract", "struct_inject", "union_create", "union_extract", "param_value"}

new_constant(op) == op.width > 0 /\ op.results = <<IntegerType(op.width)>>

new_wire(op, in) == op.name # NoName /\ op.results = in

new_bitcast(op, in) == verify_bitcast(op, in)

new_slice(op, in) == verify_slice(op, in)

new_variadic(in) == in # << >>

new_array_create(op, in) ==
  in # << >> /\ (IsArray(op.results[1]) => Len(in) = op.results[1].size)

new_array_get(op, in) == IsArray(in[1]) => op.results[1] = in[1].element

new(op, in) ==
  /\ op.kind \in NamedKinds => op.name # NoName
  /\ op.kind = "constant" => new_constant(op)
  /\ op.kind = "wire" => new_wire(op, in)
  /\ op.kind = "bitcast" => new_bitcast(op, in)
  /\ op.kind = "slice" => new_slice(op, in)
  /\ op.kind \in {"concat", "array_concat"} => new_variadic(in)
  /\ op.kind = "array_create" => new_array_create(op, in)
  /\ op.kind = "array_get" => new_array_get(op, in)

-----------------------------------------------------------------------------
(* The bits that reach the results of an operation.                         *)

\* At most n of the bits from position `low` on.
Part(bits, low, n) == IF low + n <= bits THEN n ELSE IF low < bits THEN bits - low ELSE 0

\* The first field stands highest.
FieldLow(ty, i) == Total([j \in 1..(Len(ty.fields) - i) |-> Wires[ty.fields[i + j].ty]])
Field(ty, bits, i) == Part(bits, FieldLow(ty, i), Wires[ty.fields[i].ty])

\* n of the elements of an array, taken at the highest index they can have.
Elements(ty, bits, n) ==
  Part(bits, (ty.size - n) * Wires[ty.element], n * Wires[ty.element])

Reaching(op, in, bits) ==
  CASE op.kind = "constant" -> <<op.width>>
    [] op.kind \in {"wire", "bitcast"} -> bits
    [] op.kind \in {"concat", "array_create", "array_concat", "struct_create"} -> <<Total(bits)>>
    [] op.kind = "slice" -> <<Part(bits[1], op.low, Wires[op.results[1]])>>
    [] op.kind = "array_get" -> <<Elements(in[1], bits[1], 1)>>
    [] op.kind = "array_slice" -> <<Elements(in[1], bits[1], op.results[1].size)>>
    [] op.kind = "array_inject" -> <<bits[1] - Elements(in[1], bits[1], 1) + bits[3]>>
    [] op.kind = "struct_extract" ->
         <<Field(in[1], bits[1], get_field_index(in[1].fields, op.name))>>
    [] op.kind = "struct_inject" ->
         <<bits[1] - Field(in[1], bits[1], get_field_index(in[1].fields, op.name)) + bits[2]>>
    [] op.kind = "struct_explode" ->
         [i \in DOMAIN in[1].fields |-> Field(in[1], bits[1], i)]
    \* The storage of the union above the field is left as it is.
    [] op.kind = "union_create" ->
         <<bits[1] + (Wires[op.results[1]] - Wires[in[1]])>>
    [] op.kind = "union_extract" -> <<Part(bits[1], 0, Wires[op.results[1]])>>
    [] op.kind = "param_value" -> <<Wires[op.results[1]]>>

-----------------------------------------------------------------------------
Signal(ty, bits) == [ty |-> ty, bits |-> bits]

Init ==
  /\ \E ty \in InputTypes : values = <<Signal(ty, Wires[ty])>>
  /\ body = << >>
  /\ overflow_checks \in BOOLEAN

\* An operation is made by its constructor, inserted and accepted by its verifier.
Insert(op) ==
  LET in == [i \in DOMAIN op.args |-> values[op.args[i]].ty]
      reaching == Reaching(op, in, [i \in DOMAIN op.args |-> values[op.args[i]].bits])
  IN /\ \A i \in DOMAIN op.args : op.args[i] \in DOMAIN values
     /\ Len(values) + Len(op.results) <= MaxValues
     /\ new(op, in) /\ verify(op, in)
     /\ values' = values \o [i \in DOMAIN op.results |-> Signal(op.results[i], reaching[i])]
     /\ body' = Append(body, op)
     /\ UNCHANGED overflow_checks

Next == \E op \in Operations : Insert(op)

Spec == Init /\ [][Next]_vars

-----------------------------------------------------------------------------
(* Properties.                                                              *)

HasElements(ty) == IsArray(ty) => ty.size > 0

\* The operands of a concatenation of bits or of arrays add up to a machine word.
SumFits(op) ==
  LET ty(k) == values[op.args[k]].ty IN
  CASE op.kind = "concat" ->
         Total([k \in DOMAIN op.args |-> compute_type_bitwidth[ty(k)]]) < Word
    [] op.kind = "array_concat" -> Total([k \in DOMAIN op.args |-> ty(k).size]) < Word
    [] OTHER -> TRUE

\* However the operations of an accepted body cast, cut, pack and unpack values,
\* every value is driven by exactly the bits its type announces, when the width of
\* every type is known, no array is empty, the low bit of every slice fits a machine
\* word, and the build checks additions or none of them overflows.
WidthExact ==
  /\ \A v \in DOMAIN values :
       compute_type_bitwidth[values[v].ty] # None /\ HasElements(values[v].ty)
  /\ \A k \in DOMAIN body : body[k].low < Word
  /\ overflow_checks \/ \A k \in DOMAIN body : SumFits(body[k])
  => \A v \in DOMAIN values : values[v].bits = compute_type_bitwidth[values[v].ty]
=============================================================================
