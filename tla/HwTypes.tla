------------------------------ MODULE HwTypes ------------------------------
(***************************************************************************)
(* The types of the hw dialect and compute_type_bitwidth.                  *)
(*                                                                         *)
(* A type is a record with the field "kind".  No type of the dialect has a *)
(* verifier, so every combination is a type.  Widths are computed in a     *)
(* machine word: a product or a sum that does not fit has no known width,  *)
(* like a type that is none of these (a seq.clock, kind "opaque").         *)
(***************************************************************************)
EXTENDS Integers, Sequences, SequencesExt

CONSTANTS
  Word,   \* the values of a machine word are 0..(Word - 1); u64 in the code
  Types   \* the types made in the context

ASSUME WordAssumption == Word \in Nat \ {0}

IntegerType(width) == [kind |-> "integer", width |-> width]
IntType(width) == [kind |-> "hw.int", width |-> width]
ArrayType(size, element) == [kind |-> "array", size |-> size, element |-> element]
StructField(name, ty) == [name |-> name, ty |-> ty]
StructType(fields) == [kind |-> "struct", fields |-> fields]
UnionType(fields) == [kind |-> "union", fields |-> fields]
TypeAliasType(inner) == [kind |-> "alias", inner |-> inner]
EnumType(underlying) == [kind |-> "enum", inner |-> underlying]
InoutType(element) == [kind |-> "inout", inner |-> element]
Opaque == [kind |-> "opaque"]

\* The types a type is made of.
Components(ty) ==
  CASE ty.kind = "array" -> {ty.element}
    [] ty.kind \in {"struct", "union"} -> {ty.fields[i].ty : i \in DOMAIN ty.fields}
    [] ty.kind \in {"alias", "enum", "inout"} -> {ty.inner}
    [] OTHER -> {}

IsType(ty) ==
  CASE ty.kind \in {"integer", "hw.int"} -> ty.width \in Nat
    [] ty.kind = "array" -> ty.size \in Nat
    [] ty.kind \in {"struct", "union"} ->
         ty.fields \in Seq({ty.fields[i] : i \in DOMAIN ty.fields})
    [] OTHER -> ty.kind \in {"alias", "enum", "inout", "opaque"}

\* A type is made of types that were made before it, so none is part of itself.
ASSUME TypesAssumption ==
  /\ \A ty \in Types : IsType(ty) /\ Components(ty) \subseteq Types
  /\ \A S \in SUBSET Types : S # {} => \E ty \in S : Components(ty) \cap S = {}

\* Option<u64>: no number is known.
None == -1

Checked(n) == IF n < Word THEN n ELSE None

\* The loop over the fields that adds, and the one that keeps the largest.
Total(numbers) ==
  LET sum[k \in 0..Len(numbers)] == IF k = 0 THEN 0 ELSE sum[k - 1] + numbers[k]
  IN sum[Len(numbers)]

Largest(numbers) ==
  LET max_w[k \in 0..Len(numbers)] ==
        IF k = 0 THEN 0
        ELSE IF numbers[k] > max_w[k - 1] THEN numbers[k] ELSE max_w[k - 1]
  IN max_w[Len(numbers)]

\* The position of the first field of this name, 0 without one.
get_field_index(fields, name) ==
  SelectInSeq(fields, LAMBDA f : f.name = name)

\* The width of a type, given the widths of its components.
WidthOf(ty, width) ==
  CASE ty.kind \in {"integer", "hw.int"} -> ty.width
    [] ty.kind = "array" ->
         IF width[ty.element] = None THEN None ELSE Checked(ty.size * width[ty.element])
    [] ty.kind \in {"struct", "union"} ->
         LET ws == [i \in DOMAIN ty.fields |-> width[ty.fields[i].ty]] IN
           IF \E i \in DOMAIN ws : ws[i] = None THEN None
           ELSE IF ty.kind = "struct" THEN Checked(Total(ws)) ELSE Largest(ws)
    [] ty.kind \in {"alias", "enum", "inout"} -> width[ty.inner]
    [] OTHER -> None

compute_type_bitwidth[ty \in Types] == WidthOf(ty, compute_type_bitwidth)

\* The bits a value of the type has in hardware, whatever the word, given those of
\* its components: packed densely, the fields of a union over each other, an opaque
\* type one wire.
WiresOf(ty, wires) ==
  CASE ty.kind \in {"integer", "hw.int"} -> ty.width
    [] ty.kind = "array" -> ty.size * wires[ty.element]
    [] ty.kind = "struct" -> Total([i \in DOMAIN ty.fields |-> wires[ty.fields[i].ty]])
    [] ty.kind = "union" -> Largest([i \in DOMAIN ty.fields |-> wires[ty.fields[i].ty]])
    [] ty.kind \in {"alias", "enum", "inout"} -> wires[ty.inner]
    [] OTHER -> 1

Wires[ty \in Types] == WiresOf(ty, Wires)
=============================================================================
