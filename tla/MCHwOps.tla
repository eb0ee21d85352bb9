------------------------------ MODULE MCHwOps ------------------------------
(***************************************************************************)
(* Bodies over one input and up to three values more, of types of one to   *)
(* six bits: plain, nested, aliased and opaque.                            *)
(***************************************************************************)
EXTENDS HwOps

Pair == StructType(<<StructField("a", IntegerType(1)), StructField("b", IntegerType(2))>>)
Either == UnionType(<<StructField("a", IntegerType(1)), StructField("b", IntegerType(2))>>)

MCTypes ==
  { IntegerType(1), IntegerType(2), IntegerType(3), TypeAliasType(IntegerType(2)), Either, Pair,
    ArrayType(2, IntegerType(1)), ArrayType(3, IntegerType(1)), ArrayType(2, IntType(2)),
    ArrayType(2, Pair), InoutType(EnumType(IntegerType(1))), ArrayType(0, IntegerType(1)), Opaque }

\* With the types they are made of.
MCContext ==
  MCTypes \cup UNION {Components(ty) : ty \in MCTypes}

Op(kind, args, results, low, width, name) ==
  [kind |-> kind, args |-> args, results |-> results, low |-> low, width |-> width,
   name |-> name]

Plain(kind, args, ty) == Op(kind, args, <<ty>>, 0, 0, "")

Positions == 1..3
Tuples(n) == [1..n -> Positions]

MCOperations ==
     {Op("constant", << >>, <<IntegerType(w)>>, 0, w, "") : w \in 1..2}
  \cup {Plain(k, a, ty) : k \in {"bitcast", "array_create", "concat"}, a \in Tuples(1), ty \in MCTypes}
  \cup {Plain(k, a, ty) : k \in {"concat", "array_create", "array_get", "array_slice",
                                 "array_concat", "struct_create"},
                          a \in Tuples(2), ty \in MCTypes}
  \cup {Plain("array_inject", a, ty) : a \in Tuples(3), ty \in MCTypes}
  \cup {Op("slice", a, <<ty>>, low, 0, "") : a \in Tuples(1), ty \in MCTypes, low \in (0..2) \cup {8}}
  \cup {Op(k, a, <<ty>>, 0, 0, f) : k \in {"wire", "struct_extract", "union_create", "union_extract"},
                                    a \in Tuples(1), ty \in MCTypes, f \in {"", "a", "b"}}
  \cup {Op("struct_inject", a, <<Pair>>, 0, 0, f) : a \in Tuples(2), f \in {"a", "b"}}
  \cup {Op("struct_explode", a, <<IntegerType(1), IntegerType(2)>>, 0, 0, "") : a \in Tuples(1)}
  \cup {Op("param_value", << >>, <<IntegerType(1)>>, 0, 0, "a")}
=============================================================================
