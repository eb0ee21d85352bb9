----------------------- MODULE CombCanonicalizeProofs -----------------------
(***************************************************************************)
(* What canonicalize_block keeps true of any block, whatever its           *)
(* operations and in whatever order they stand, and, in the last section,  *)
(* what fold_comb_op answers about any operation.                          *)
(*                                                                         *)
(* A rewrite replaces a result by a value of its type.  The value is not   *)
(* computed from the result, because the block has no loop: no use of the  *)
(* erased operation is left.  The loop has no loop either, so the argument *)
(* can be made again at the next rewrite.                                  *)
(***************************************************************************)
EXTENDS CombCanonicalize, CombFold, TLAPS

Typed(arena) ==
  arena \in Seq(Range(arena)) /\ \A k \in DOMAIN arena : IsOperation(arena[k])

\* The operations in `live` verify and have no loop.
Sound(arena, live, outs) ==
  /\ Typed(arena) /\ live \in SUBSET (1..Len(arena)) /\ outs \in Seq(Values)
  /\ Verified(arena, live, outs) /\ NoLoop(arena, live)

\* The block and the snapshot name an operation once.
TypeInv ==
  /\ block \in Seq(1..Len(ops)) /\ IsInjective(block)
  /\ todo \in Seq(1..Len(ops)) /\ IsInjective(todo)

\* What has been visited in a sweep without changes is in canonical form.
SweepCanonical ==
  ~changed /\ phase # "panicked" => \A o \in Live \ Range(todo) : Canonical(o)

DoneAfterQuiet == phase = "done" => todo = << >> /\ ~changed

\* The only operations that stop the loop.
PanicsOnUnary ==
  phase = "panicked" =>
    \E o \in Live : ops[o].name \in VariadicBitwise /\ Len(ops[o].in) = 1

IInv ==
  /\ TypeInv /\ Sound(ops, Live, outputs) /\ Range(todo) \subseteq Live
  /\ SweepCanonical /\ DoneAfterQuiet /\ PanicsOnUnary

-----------------------------------------------------------------------------
(* Sequences.                                                               *)

\* The elements of a sequence are those at its positions.
LEMMA Elements ==
  ASSUME NEW S, NEW s \in Seq(S)
  PROVE  /\ s \in Seq(Range(s)) /\ Range(s) \subseteq S
         /\ Range(s) = {s[i] : i \in 1..Len(s)} /\ Len(s) \in Nat /\ DOMAIN s = 1..Len(s)
  BY DEF Range

\* A concatenation, by its elements.
LEMMA Concatenation ==
  ASSUME NEW S, NEW a \in Seq(S), NEW b \in Seq(S)
  PROVE  /\ a \o b \in Seq(S) /\ Len(a \o b) = Len(a) + Len(b)
         /\ \A i \in 1..Len(a) : (a \o b)[i] = a[i]
         /\ \A i \in 1..Len(b) : (a \o b)[Len(a) + i] = b[i]
  OBVIOUS

\* t is b with its p-th element replaced by the sequence new.
Spliced(t, b, new, p) ==
  /\ DOMAIN t = 1..(Len(b) - 1 + Len(new))
  /\ \A i \in 1..(p - 1) : t[i] = b[i]
  /\ \A i \in 1..Len(new) : t[p - 1 + i] = new[i]
  /\ \A i \in (p + 1)..Len(b) : t[i - 1 + Len(new)] = b[i]

\* That is what InsteadOf builds.
LEMMA Splice ==
  ASSUME NEW S, NEW b \in Seq(S), NEW new \in Seq(S), NEW p \in 1..Len(b)
  PROVE  LET t == SubSeq(b, 1, p - 1) \o new \o SubSeq(b, p + 1, Len(b))
         IN t \in Seq(S) /\ Spliced(t, b, new, p)
<1> DEFINE low == SubSeq(b, 1, p - 1)
           high == SubSeq(b, p + 1, Len(b))
           front == low \o new
           t == front \o high
<1>1. Len(b) \in Nat /\ Len(new) \in Nat
  OBVIOUS
<1>2. low \in Seq(S) /\ Len(low) = p - 1 /\ \A i \in 1..(p - 1) : low[i] = b[i]
  BY <1>1
<1>3. /\ high \in Seq(S) /\ Len(high) = Len(b) - p
      /\ \A i \in 1..(Len(b) - p) : high[i] = b[p + i]
  BY <1>1
<1> HIDE DEF low, high
<1>5. /\ front \in Seq(S) /\ Len(front) = Len(low) + Len(new)
      /\ \A i \in 1..Len(low) : front[i] = low[i]
      /\ \A i \in 1..Len(new) : front[Len(low) + i] = new[i]
  <2>1. low \in Seq(S)
    BY <1>2
  <2> QED
    BY ONLY <2>1, new \in Seq(S), Concatenation
<1> HIDE DEF front
<1>6. /\ t \in Seq(S) /\ Len(t) = Len(front) + Len(high)
      /\ \A i \in 1..Len(front) : t[i] = front[i]
      /\ \A i \in 1..Len(high) : t[Len(front) + i] = high[i]
  <2>1. front \in Seq(S) /\ high \in Seq(S)
    BY <1>3, <1>5
  <2> QED
    BY ONLY <2>1, Concatenation
<1> HIDE DEF t
<1>7. DOMAIN t = 1..(Len(b) - 1 + Len(new))
  <2>1. Len(t) = Len(b) - 1 + Len(new)
    BY <1>1, <1>2, <1>3, <1>5, <1>6
  <2> QED
    BY <1>6, <2>1
<1>8. \A i \in 1..(p - 1) : t[i] = b[i]
  BY <1>1, <1>2, <1>5, <1>6
<1>9. \A i \in 1..Len(new) : t[p - 1 + i] = new[i]
  <2> TAKE i \in 1..Len(new)
  <2>1. p - 1 + i \in 1..Len(front)
    BY <1>1, <1>2, <1>5
  <2> QED
    BY <1>2, <1>5, <1>6, <2>1
<1>10. \A i \in (p + 1)..Len(b) : t[i - 1 + Len(new)] = b[i]
  <2> TAKE i \in (p + 1)..Len(b)
  <2>1. i - p \in 1..Len(high) /\ Len(front) + (i - p) = i - 1 + Len(new) /\ p + (i - p) = i
    BY <1>1, <1>2, <1>3, <1>5
  <2> QED
    BY <1>3, <1>6, <2>1
<1>11. t \in Seq(S) /\ Spliced(t, b, new, p)
  BY <1>6, <1>7, <1>8, <1>9, <1>10 DEF Spliced
<1> QED
  BY <1>11 DEF t, front, low, high

\* With new elements the result lists each of its own once.
LEMMA SpliceOnce ==
  ASSUME NEW b, NEW new, NEW p \in 1..Len(b), NEW t, Spliced(t, b, new, p),
         Len(b) \in Nat, DOMAIN b = 1..Len(b), Len(new) \in Nat, DOMAIN new = 1..Len(new),
         IsInjective(b), IsInjective(new), Range(b) \cap Range(new) = {}
  PROVE  IsInjective(t) /\ Range(t) = (Range(b) \ {b[p]}) \cup Range(new)
<1> DEFINE n == Len(b) - 1 + Len(new)
<1>1. /\ \A i \in 1..(p - 1) : t[i] = b[i]
      /\ \A i \in 1..Len(new) : t[p - 1 + i] = new[i]
      /\ \A i \in (p + 1)..Len(b) : t[i - 1 + Len(new)] = b[i]
  BY DEF Spliced
<1>2. n \in Nat /\ DOMAIN t = 1..n
  BY DEF Spliced
<1> DEFINE Old(i, m) == m # p /\ t[i] = b[m] /\ i = IF m < p THEN m ELSE m - 1 + Len(new)
           New(i, m) == t[i] = new[m] /\ i = p - 1 + m
<1>3. \A i \in 1..n : (\E m \in 1..Len(b) : Old(i, m)) \/ (\E m \in 1..Len(new) : New(i, m))
  <2> TAKE i \in 1..n
  <2>1. CASE i < p
    BY <1>1, <1>2, <2>1
  <2>2. CASE i - p + 1 \in 1..Len(new)
    <3>1. p - 1 + (i - p + 1) = i
      BY <1>2
    <3> QED
      BY <1>1, <2>2, <3>1
  <2>3. CASE i + 1 - Len(new) \in (p + 1)..Len(b)
    <3>1. PICK m \in (p + 1)..Len(b) : m = i + 1 - Len(new)
      BY <2>3
    <3>2. m - 1 + Len(new) = i /\ m \in 1..Len(b) /\ m # p /\ ~(m < p)
      BY <1>2, <3>1
    <3>3. Old(i, m)
      BY <1>1, <3>1, <3>2
    <3> QED
      BY <3>2, <3>3
  <2> QED
    BY <1>2, <2>1, <2>2, <2>3
<1>4. /\ \A i, j \in 1..Len(b) : b[i] = b[j] => i = j
      /\ \A i, j \in 1..Len(new) : new[i] = new[j] => i = j
      /\ \A i \in 1..Len(b) : \A j \in 1..Len(new) : b[i] # new[j]
  <2>1. \A i, j \in 1..Len(b) : b[i] = b[j] => i = j
    BY DEF IsInjective
  <2>2. \A i, j \in 1..Len(new) : new[i] = new[j] => i = j
    BY DEF IsInjective
  <2>3. /\ \A i \in 1..Len(b) : b[i] \in Range(b)
        /\ \A j \in 1..Len(new) : new[j] \in Range(new)
    BY DEF Range
  <2> QED
    BY <2>1, <2>2, <2>3
<1>5. \A i, j \in 1..n : t[i] = t[j] => i = j
  <2> TAKE i, j \in 1..n
  <2> HAVE t[i] = t[j]
  <2>1. ASSUME NEW k \in 1..Len(b), NEW m \in 1..Len(b), Old(i, k), Old(j, m) PROVE i = j
    BY <1>4, <2>1
  <2>2. ASSUME NEW k \in 1..Len(new), NEW m \in 1..Len(new), New(i, k), New(j, m) PROVE i = j
    BY <1>4, <2>2
  <2>3. ASSUME NEW k \in 1..Len(b), NEW m \in 1..Len(new),
               (t[i] = b[k] /\ t[j] = new[m]) \/ (t[j] = b[k] /\ t[i] = new[m])
        PROVE  FALSE
    BY <1>4, <2>3
  <2> QED
    BY <1>3, <2>1, <2>2, <2>3
<1>6. Range(t) \subseteq (Range(b) \ {b[p]}) \cup Range(new)
  <2> SUFFICES ASSUME NEW i \in 1..n PROVE t[i] \in (Range(b) \ {b[p]}) \cup Range(new)
    BY <1>2 DEF Range
  <2>1. ASSUME NEW m \in 1..Len(b), Old(i, m) PROVE t[i] \in Range(b) \ {b[p]}
    BY <1>4, <2>1 DEF Range
  <2>2. ASSUME NEW m \in 1..Len(new), New(i, m) PROVE t[i] \in Range(new)
    BY <2>2 DEF Range
  <2> QED
    BY <1>3, <2>1, <2>2
<1>7. Range(new) \subseteq Range(t)
  <2> SUFFICES ASSUME NEW j \in 1..Len(new) PROVE new[j] \in Range(t)
    BY <1>2 DEF Range
  <2>1. p - 1 + j \in 1..n /\ t[p - 1 + j] = new[j]
    BY <1>1, <1>2
  <2> QED
    BY <1>2, <2>1 DEF Range
<1>8. Range(b) \ {b[p]} \subseteq Range(t)
  <2> SUFFICES ASSUME NEW j \in 1..Len(b), j # p PROVE b[j] \in Range(t)
    BY <1>2 DEF Range
  <2>1. CASE j < p
    BY <1>1, <1>2, <2>1 DEF Range
  <2>2. CASE j > p
    <3>1. j - 1 + Len(new) \in 1..n /\ t[j - 1 + Len(new)] = b[j]
      BY <1>1, <1>2, <2>2
    <3> QED
      BY <1>2, <3>1 DEF Range
  <2> QED
    BY <1>2, <2>1, <2>2
<1> QED
  BY <1>2, <1>5, <1>6, <1>7, <1>8 DEF IsInjective

-----------------------------------------------------------------------------
(* Creating and replacing operations.                                       *)

\* `grown` is `arena` with one more operation.
Grown(grown, arena, op) ==
  /\ Typed(grown) /\ Len(grown) = Len(arena) + 1 /\ grown[Len(grown)] = op
  /\ \A k \in 1..Len(arena) : grown[k] = arena[k]

\* What ReplaceUses makes of the arena.
Renamed(renamed, arena, old, new) ==
  renamed = [k \in DOMAIN arena |-> [arena[k] EXCEPT !.in = Replace(@, old, new)]]

\* Appending an operation is one way to grow.
LEMMA Append1 ==
  ASSUME NEW arena, Typed(arena), NEW op, IsOperation(op)
  PROVE  Grown(Append(arena, op), arena, op)
<1>1. arena \in Seq(Range(arena) \cup {op}) /\ Len(arena) \in Nat
  BY DEF Typed
<1> DEFINE t == Append(arena, op)
<1>2. /\ t \in Seq(Range(arena) \cup {op}) /\ Len(t) = Len(arena) + 1 /\ t[Len(t)] = op
      /\ \A k \in 1..Len(arena) : t[k] = arena[k]
  BY <1>1
<1> HIDE DEF t
<1>3. t \in Seq(Range(t)) /\ DOMAIN t = 1..Len(t)
  BY <1>2, Elements
<1>4. \A k \in DOMAIN t : IsOperation(t[k])
  BY <1>1, <1>2, <1>3 DEF Typed
<1>5. Grown(t, arena, op)
  BY <1>2, <1>3, <1>4 DEF Grown, Typed
<1> QED
  BY <1>5 DEF t

\* op uses what is there and verifies.
MayJoin(arena, live, op) ==
  /\ Range(op.in) \subseteq Args \cup live
  /\ op.name # "hw.constant" =>
       verify([name |-> op.name, in |-> [k \in DOMAIN op.in |-> TypeOf(arena, op.in[k])],
               out |-> IntType(op.w), attr |-> op.attr])

\* Nothing uses the new operation yet, and the others are what they were.
Joined(grown, arena, live, outs, op) ==
  /\ Sound(grown, live \cup {Len(grown)}, outs) /\ Len(grown) \notin live
  /\ \A v \in Args \cup live : TypeOf(grown, v) = TypeOf(arena, v)
  /\ TypeOf(grown, Len(grown)) = IntType(op.w)

\* Such an operation leaves the block sound.
LEMMA GrowthKeeps ==
  ASSUME NEW arena, NEW live, NEW outs, Sound(arena, live, outs),
         NEW op, NEW grown, Grown(grown, arena, op), MayJoin(arena, live, op)
  PROVE  Joined(grown, arena, live, outs, op)
<1> SUFFICES ASSUME Typed(arena), live \in SUBSET (1..Len(arena)), outs \in Seq(Values),
                    Verified(arena, live, outs), NoLoop(arena, live),
                    Range(op.in) \subseteq Args \cup live,
                    op.name # "hw.constant" =>
                      verify([name |-> op.name,
                              in   |-> [k \in DOMAIN op.in |-> TypeOf(arena, op.in[k])],
                              out  |-> IntType(op.w), attr |-> op.attr])
             PROVE  /\ Sound(grown, live \cup {Len(grown)}, outs) /\ Len(grown) \notin live
                    /\ \A v \in Args \cup live : TypeOf(grown, v) = TypeOf(arena, v)
                    /\ TypeOf(grown, Len(grown)) = IntType(op.w)
  BY DEF Sound, MayJoin, Joined
<1> DEFINE z == Len(grown)
<1>1. Len(arena) \in Nat /\ z = Len(arena) + 1 /\ grown[z] = op /\ z \notin Args
  BY ArgsAssumption DEF Typed, Grown
<1> HIDE DEF z
<1>2. z \notin live /\ live \cup {z} \subseteq 1..z /\ \A o \in live : grown[o] = arena[o]
  <2>1. \A o \in live : o \in 1..Len(arena) /\ o \in 1..z /\ o # z
    BY <1>1
  <2>2. z \in 1..z
    BY <1>1
  <2> QED
    BY <2>1, <2>2 DEF Grown
<1>3. \A v \in Args \cup live : TypeOf(grown, v) = TypeOf(arena, v)
  BY <1>2 DEF TypeOf
<1>4. TypeOf(grown, z) = IntType(op.w)
  BY <1>1 DEF TypeOf
<1>5. Verified(grown, live \cup {z}, outs)
  <2>1. Range(outs) \subseteq Args \cup (live \cup {z})
    BY DEF Verified
  <2>2. ASSUME NEW o \in live
        PROVE  /\ Range(grown[o].in) \subseteq Args \cup (live \cup {z})
               /\ grown[o].name # "hw.constant" =>
                    verify([name |-> grown[o].name,
                            in   |-> [k \in DOMAIN grown[o].in |-> TypeOf(grown, grown[o].in[k])],
                            out  |-> TypeOf(grown, o), attr |-> grown[o].attr])
    <3>1. grown[o] = arena[o] /\ Range(arena[o].in) \subseteq Args \cup live
      BY <1>2 DEF Verified
    <3>2. \A k \in DOMAIN arena[o].in : TypeOf(grown, arena[o].in[k]) = TypeOf(arena, arena[o].in[k])
      BY <1>3, <3>1 DEF Range
    <3>3. [k \in DOMAIN grown[o].in |-> TypeOf(grown, grown[o].in[k])]
            = [k \in DOMAIN arena[o].in |-> TypeOf(arena, arena[o].in[k])]
      BY <3>1, <3>2
    <3>4. TypeOf(grown, o) = TypeOf(arena, o)
      BY <1>3
    <3> QED
      BY <3>1, <3>3, <3>4 DEF Verified
  <2>3. /\ Range(grown[z].in) \subseteq Args \cup (live \cup {z})
        /\ grown[z].name # "hw.constant" =>
             verify([name |-> grown[z].name,
                     in   |-> [k \in DOMAIN grown[z].in |-> TypeOf(grown, grown[z].in[k])],
                     out  |-> TypeOf(grown, z), attr |-> grown[z].attr])
    <3>1. \A k \in DOMAIN op.in : TypeOf(grown, op.in[k]) = TypeOf(arena, op.in[k])
      BY <1>3 DEF Range
    <3>2. [k \in DOMAIN op.in |-> TypeOf(grown, op.in[k])]
            = [k \in DOMAIN op.in |-> TypeOf(arena, op.in[k])]
      BY <3>1
    <3> QED
      BY <1>1, <1>4, <3>2
  <2> QED
    BY <2>1, <2>2, <2>3 DEF Verified
<1>6. NoLoop(grown, live \cup {z})
  <2> SUFFICES ASSUME NEW S \in SUBSET (live \cup {z}), S # {}
               PROVE  \E o \in S : Range(grown[o].in) \cap S = {}
    BY DEF NoLoop
  <2>1. CASE S \ {z} # {}
    <3>1. PICK o \in S \ {z} : Range(arena[o].in) \cap (S \ {z}) = {}
      BY <2>1 DEF NoLoop
    <3>2. o \in live /\ grown[o] = arena[o] /\ z \notin Range(arena[o].in)
      BY <1>1, <1>2 DEF Verified
    <3> QED
      BY <3>1, <3>2
  <2>2. CASE S = {z}
    BY <1>1, <1>2, <2>2
  <2> QED
    BY <2>1, <2>2
<1>7. Sound(grown, live \cup {z}, outs)
  BY <1>2, <1>5, <1>6 DEF Sound, Grown, z
<1> QED
  BY <1>2, <1>3, <1>4, <1>7 DEF z

\* Replacing a value in a list of uses.
LEMMA ReplaceFacts ==
  ASSUME NEW s \in Seq(Values), NEW old, NEW new \in Values
  PROVE  /\ Replace(s, old, new) \in Seq(Values)
         /\ DOMAIN Replace(s, old, new) = DOMAIN s
         /\ Range(Replace(s, old, new)) \subseteq (Range(s) \ {old}) \cup {new}
         /\ old \notin Range(s) => Range(Replace(s, old, new)) = Range(s)
<1> DEFINE r == Replace(s, old, new)
<1>1. /\ DOMAIN r = 1..Len(s) /\ DOMAIN s = 1..Len(s) /\ Len(s) \in Nat
      /\ r = [k \in 1..Len(s) |-> IF s[k] = old THEN new ELSE s[k]]
      /\ \A k \in 1..Len(s) : r[k] = IF s[k] = old THEN new ELSE s[k]
  BY DEF Replace
<1>2. \A k \in 1..Len(s) : r[k] \in Values
  BY <1>1
<1>3. r \in Seq(Values)
  BY <1>1, <1>2
<1> HIDE DEF r
<1>4. Range(r) \subseteq (Range(s) \ {old}) \cup {new}
  BY <1>1 DEF Range
<1>5. old \notin Range(s) => Range(r) = Range(s)
  BY <1>1 DEF Range
<1> QED
  BY <1>1, <1>3, <1>4, <1>5 DEF r

\* Every use of old becomes a use of new.
LEMMA RenamedFacts ==
  ASSUME NEW arena, Typed(arena), NEW old \in Values, NEW new \in Values,
         NEW renamed, Renamed(renamed, arena, old, new)
  PROVE  /\ Typed(renamed) /\ Len(renamed) = Len(arena)
         /\ \A v : v \in Args \cup (1..Len(arena)) => TypeOf(renamed, v) = TypeOf(arena, v)
         /\ \A k \in 1..Len(arena) :
              /\ renamed[k].name = arena[k].name /\ renamed[k].attr = arena[k].attr
              /\ renamed[k].in = Replace(arena[k].in, old, new)
              /\ arena[k].in \in Seq(Values)
<1>1. Len(arena) \in Nat /\ DOMAIN arena = 1..Len(arena)
  BY DEF Typed
<1>2. ASSUME NEW k \in 1..Len(arena)
      PROVE  /\ renamed[k] = [name |-> arena[k].name, in |-> Replace(arena[k].in, old, new),
                              w |-> arena[k].w, attr |-> arena[k].attr]
             /\ renamed[k].name = arena[k].name /\ renamed[k].attr = arena[k].attr
             /\ renamed[k].in = Replace(arena[k].in, old, new) /\ renamed[k].w = arena[k].w
             /\ arena[k].in \in Seq(Values) /\ arena[k].w \in Nat
  BY <1>1 DEF Typed, IsOperation, Renamed
<1>3. renamed = [k \in 1..Len(arena) |-> renamed[k]]
  BY <1>1 DEF Renamed
<1>4. \A k \in 1..Len(arena) : IsOperation(renamed[k])
  <2> TAKE k \in 1..Len(arena)
  <2>1. Replace(arena[k].in, old, new) \in Seq(Values)
    BY <1>2, ReplaceFacts
  <2> QED
    BY <1>2, <2>1 DEF IsOperation
<1>5. Len(renamed) = Len(arena) /\ renamed \in Seq(Range(renamed)) /\ DOMAIN renamed = 1..Len(arena)
  <2>1. DOMAIN renamed = 1..Len(arena) /\ \A k \in 1..Len(arena) : renamed[k] \in Range(renamed)
    BY <1>3 DEF Range
  <2> QED
    BY <1>1, <1>3, <2>1
<1>6. \A v : v \in Args \cup (1..Len(arena)) => TypeOf(renamed, v) = TypeOf(arena, v)
  <2>1. \A k \in 1..Len(arena) : renamed[k].w = arena[k].w
    BY <1>2
  <2> QED
    BY <2>1 DEF TypeOf
<1> QED
  BY <1>2, <1>4, <1>5, <1>6 DEF Typed

\* A result may be replaced by a value of its type that is not computed from it:
\* an operand, or an operation on its operands and constants.
MayReplace(arena, live, old, new) ==
  /\ old \in live /\ new \in Args \cup live /\ TypeOf(arena, new) = TypeOf(arena, old)
  /\ \/ new \in Range(arena[old].in)
     \/ /\ new \in live \ {old}
        /\ \A v \in Range(arena[new].in) :
             \/ v \in Range(arena[old].in)
             \/ v \in live \ {old} /\ Range(arena[v].in) = {}

\* The operations that stay verify, and have no loop.
LEMMA ReplacementKeeps ==
  ASSUME NEW arena, NEW live, NEW outs, Sound(arena, live, outs),
         NEW old, NEW new, MayReplace(arena, live, old, new),
         NEW renamed, Renamed(renamed, arena, old, new)
  PROVE  /\ Sound(renamed, live \ {old}, Replace(outs, old, new))
         /\ Len(renamed) = Len(arena)
<1> SUFFICES ASSUME Typed(arena), live \in SUBSET (1..Len(arena)), outs \in Seq(Values),
                    Verified(arena, live, outs), NoLoop(arena, live),
                    old \in live, new \in Args \cup live, TypeOf(arena, new) = TypeOf(arena, old)
             PROVE  /\ Sound(renamed, live \ {old}, Replace(outs, old, new))
                    /\ Len(renamed) = Len(arena)
  BY DEF Sound, MayReplace
<1> DEFINE rest == live \ {old}
<1>1. old \in Values /\ new \in Values /\ old \notin Args
  <2>1. \A v \in 1..Len(arena) : v \in Nat \ {0}
    BY DEF Typed
  <2> QED
    BY <2>1, ArgsAssumption DEF Values
<1>2. /\ Typed(renamed) /\ Len(renamed) = Len(arena)
      /\ \A v : v \in Args \cup (1..Len(arena)) => TypeOf(renamed, v) = TypeOf(arena, v)
      /\ \A k \in 1..Len(arena) :
              /\ renamed[k].name = arena[k].name /\ renamed[k].attr = arena[k].attr
              /\ renamed[k].in = Replace(arena[k].in, old, new)
              /\ arena[k].in \in Seq(Values)
  BY <1>1, RenamedFacts
<1>3. \A k \in 1..Len(arena) :
        /\ DOMAIN renamed[k].in = DOMAIN arena[k].in
        /\ Range(renamed[k].in) \subseteq (Range(arena[k].in) \ {old}) \cup {new}
        /\ old \notin Range(arena[k].in) => Range(renamed[k].in) = Range(arena[k].in)
  BY <1>1, <1>2, ReplaceFacts
<1>4. old \notin Range(arena[old].in) /\ new # old
  <2>1. {old} \in SUBSET live /\ {old} # {}
    OBVIOUS
  <2>2. Range(arena[old].in) \cap {old} = {}
    BY <2>1 DEF NoLoop
  <2> QED
    BY <2>2 DEF MayReplace
<1>5. Replace(outs, old, new) \in Seq(Values) /\ Range(Replace(outs, old, new)) \subseteq Args \cup rest
  BY <1>1, <1>4, ReplaceFacts DEF Verified
<1>6. ASSUME NEW o \in rest
      PROVE  /\ Range(renamed[o].in) \subseteq Args \cup rest
             /\ renamed[o].name # "hw.constant" =>
                  verify([name |-> renamed[o].name,
                          in   |-> [k \in DOMAIN renamed[o].in |-> TypeOf(renamed, renamed[o].in[k])],
                          out  |-> TypeOf(renamed, o), attr |-> renamed[o].attr])
  <2>1. Range(arena[o].in) \subseteq Args \cup live
    BY DEF Verified
  <2>2. \A k \in DOMAIN arena[o].in :
          TypeOf(renamed, renamed[o].in[k]) = TypeOf(arena, arena[o].in[k])
    <3> TAKE k \in DOMAIN arena[o].in
    <3>1. renamed[o].in[k] = IF arena[o].in[k] = old THEN new ELSE arena[o].in[k]
      BY <1>2 DEF Replace
    <3>2. arena[o].in[k] \in Args \cup live
      BY <2>1 DEF Range
    <3> QED
      BY <1>2, <3>1, <3>2
  <2>3. [k \in DOMAIN renamed[o].in |-> TypeOf(renamed, renamed[o].in[k])]
          = [k \in DOMAIN arena[o].in |-> TypeOf(arena, arena[o].in[k])]
    BY <1>3, <2>2
  <2>4. TypeOf(renamed, o) = TypeOf(arena, o)
    BY <1>2
  <2>5. renamed[o].name = arena[o].name /\ renamed[o].attr = arena[o].attr
    BY <1>2
  <2>6. Range(renamed[o].in) \subseteq Args \cup rest
    BY <1>3, <1>4, <2>1
  <2> QED
    BY <2>3, <2>4, <2>5, <2>6 DEF Verified
<1>7. Verified(renamed, rest, Replace(outs, old, new))
  BY <1>5, <1>6 DEF Verified
<1>8. NoLoop(renamed, rest)
  <2> SUFFICES ASSUME NEW S \in SUBSET rest, S # {}
               PROVE  \E u \in S : Range(renamed[u].in) \cap S = {}
    BY DEF NoLoop
  <2>1. PICK u \in S \cup {old} : Range(arena[u].in) \cap (S \cup {old}) = {}
    BY DEF NoLoop
  <2>2. CASE u # old
    BY <1>3, <2>1, <2>2
  <2>3. CASE u = old /\ new \notin S
    <3>1. PICK t \in S : Range(arena[t].in) \cap S = {}
      BY DEF NoLoop
    <3>2. t \in 1..Len(arena)
      BY <3>1
    <3>3. Range(renamed[t].in) \subseteq Range(arena[t].in) \cup {new}
      BY <1>3, <3>2
    <3> QED
      BY <2>3, <3>1, <3>3
  <2>4. CASE u = old /\ new \in S
    <3>1. /\ new \in live \ {old}
          /\ \A v \in Range(arena[new].in) :
               v \in Range(arena[old].in) \/ (v \in live \ {old} /\ Range(arena[v].in) = {})
      BY <2>1, <2>4 DEF MayReplace
    <3>2. new \in 1..Len(arena) /\ old \notin Range(arena[new].in)
      BY <1>4, <3>1
    <3>3. CASE Range(arena[new].in) \cap S = {}
      BY <1>3, <2>4, <3>2, <3>3
    <3>4. CASE Range(arena[new].in) \cap S # {}
      <4>1. PICK v \in S : v \in Range(arena[new].in)
        BY <3>4
      <4>2. v \in live /\ v \in 1..Len(arena) /\ Range(arena[v].in) = {}
        BY <2>1, <2>4, <3>1, <4>1
      <4> QED
        BY <1>3, <4>2
    <3> QED
      BY <3>3, <3>4
  <2> QED
    BY <2>2, <2>3, <2>4
<1>9. live \ {old} \in SUBSET (1..Len(renamed))
  BY <1>2
<1> QED
  BY <1>2, <1>5, <1>7, <1>8, <1>9 DEF Sound

-----------------------------------------------------------------------------
(* The operation visited.                                                   *)

\* What verify is asked about an operation.
Seen(op) ==
  [name |-> op.name, in |-> [k \in DOMAIN op.in |-> TypeOf(ops, op.in[k])],
   out |-> IntType(op.w), attr |-> op.attr]

\* A use in the block is of a value that has a width.
LEMMA WidthTyped ==
  ASSUME IInv, NEW v \in Args \cup Live
  PROVE  WidthOf(v) \in Nat /\ TypeOf(ops, v) = IntType(WidthOf(v)) /\ v \in Values
<1>1. \A k \in 1..Len(ops) : ops[k].w \in Nat
  BY DEF IInv, Sound, Typed, IsOperation
<1>2. Live \subseteq 1..Len(ops) /\ 1..Len(ops) \subseteq Nat \ {0}
  BY DEF IInv, Sound, Typed
<1> QED
  BY <1>1, <1>2, ArgsAssumption DEF WidthOf, TypeOf, Values

\* A live operation is one the verifiers accept.
LEMMA LiveFacts ==
  ASSUME IInv, NEW o \in Live
  PROVE  /\ o \in 1..Len(ops) /\ o \notin Args /\ IsOperation(ops[o])
         /\ ops[o].in \in Seq(Values) /\ ops[o].w \in Nat
         /\ Range(ops[o].in) \subseteq Args \cup Live
         /\ TypeOf(ops, o) = IntType(ops[o].w)
         /\ ops[o].name # "hw.constant" => verify(Seen(ops[o]))
<1>1. o \in 1..Len(ops) /\ o \in Nat /\ DOMAIN ops = 1..Len(ops)
  BY DEF IInv, Sound, Typed
<1>2. o \notin Args
  BY <1>1, ArgsAssumption
<1>3. IsOperation(ops[o])
  BY <1>1 DEF IInv, Sound, Typed
<1>4. TypeOf(ops, o) = IntType(ops[o].w)
  BY <1>2 DEF TypeOf
<1>5. /\ Range(ops[o].in) \subseteq Args \cup Live
      /\ ops[o].name # "hw.constant" => verify(Seen(ops[o]))
  BY <1>4 DEF IInv, Sound, Verified, Seen
<1> QED
  BY <1>1, <1>2, <1>3, <1>4, <1>5 DEF IsOperation

\* Two operands of a commutative operation have its type, and that is all verify asks.
LEMMA CommutativeTypes ==
  ASSUME NEW op, op.name \in Commutative, op.in \in Seq(Values), Len(op.in) = 2
  PROVE  verify(Seen(op)) <=> /\ op.w > 0 /\ TypeOf(ops, op.in[1]) = IntType(op.w)
                              /\ TypeOf(ops, op.in[2]) = IntType(op.w)
<1> DEFINE seen == Seen(op)
<1>1. /\ seen.name = op.name /\ Len(seen.in) = 2 /\ seen.in # << >>
      /\ DOMAIN seen.in = 1..2 /\ seen.out = IntType(op.w)
      /\ seen.in[1] = TypeOf(ops, op.in[1]) /\ seen.in[2] = TypeOf(ops, op.in[2])
  BY DEF Seen
<1>2. \A v : /\ TypeOf(ops, v).sort = "signless"
             /\ TypeOf(ops, v) = IntType(TypeOf(ops, v).width)
  BY DEF TypeOf, IntType
<1>3. IntType(op.w).sort = "signless" /\ IntType(op.w).width = op.w
  BY DEF IntType
<1> HIDE DEF seen
<1>4. \A ty, w : ty = IntType(w) => ty.width = w
  BY DEF IntType
<1>5. CASE op.name \in {"comb.add", "comb.mul"}
  <2>1. verify(seen) <=> verify_binary_arithmetic(seen)
    BY <1>1, <1>5 DEF verify, BinaryArithmetic, VariadicBitwise, Unary, Reductions
  <2>2. verify_binary_arithmetic(seen) <=>
          /\ op.w > 0 /\ seen.in[1].width = op.w /\ seen.in[2].width = op.w
    BY <1>1, <1>2, <1>3 DEF verify_binary_arithmetic, verify_integer_type
  <2> QED
    BY <1>1, <1>2, <1>4, <2>1, <2>2 DEF seen
<1>6. CASE op.name \in {"comb.and", "comb.or", "comb.xor"}
  <2>1. verify(seen) <=> verify_variadic_bitwise(seen)
    BY <1>1, <1>6 DEF verify, BinaryArithmetic, VariadicBitwise, Unary, Reductions
  <2>2. verify_variadic_bitwise(seen) <=>
          /\ op.w > 0 /\ seen.in[1].width = op.w /\ seen.in[2].width = op.w
    BY <1>1, <1>2, <1>3 DEF verify_variadic_bitwise, verify_integer_type
  <2> QED
    BY <1>1, <1>2, <1>4, <2>1, <2>2 DEF seen
<1> QED
  BY <1>5, <1>6 DEF Commutative

\* Putting the operands in order changes neither the values used nor the verdict.
LEMMA VisitedFacts ==
  ASSUME IInv, NEW o \in Live, NEW op, op = canonicalize_commutative(ops[o])
  PROVE  /\ op.name = ops[o].name /\ op.w = ops[o].w /\ op.attr = ops[o].attr
         /\ IsOperation(op) /\ Range(op.in) = Range(ops[o].in)
         /\ op.name # "hw.constant" => verify(Seen(op))
         /\ ~const_first(ops[o]) => op = ops[o]
<1>1. /\ IsOperation(ops[o]) /\ ops[o].in \in Seq(Values)
      /\ ops[o].name # "hw.constant" => verify(Seen(ops[o]))
  BY LiveFacts
<1>2. CASE ~const_first(ops[o])
  BY <1>1, <1>2 DEF canonicalize_commutative
<1>3. CASE const_first(ops[o])
  <2>1. /\ ops[o].name \in Commutative /\ Len(ops[o].in) = 2
        /\ op = [ops[o] EXCEPT !.in = <<ops[o].in[2], ops[o].in[1]>>]
    BY <1>3 DEF const_first, canonicalize_commutative
  <2>2. /\ op = [name |-> op.name, in |-> op.in, w |-> op.w, attr |-> op.attr]
        /\ op.name = ops[o].name /\ op.w = ops[o].w /\ op.attr = ops[o].attr
        /\ op.in = <<ops[o].in[2], ops[o].in[1]>>
    BY <1>1, <2>1 DEF IsOperation
  <2>3. ops[o].in[1] \in Values /\ ops[o].in[2] \in Values
    BY <1>1, <2>1
  <2>4. /\ op.in \in Seq(Values) /\ Len(op.in) = 2
        /\ op.in[1] = ops[o].in[2] /\ op.in[2] = ops[o].in[1]
    BY <2>2, <2>3
  <2>5. Range(op.in) = {op.in[1], op.in[2]}
    BY <2>4 DEF Range
  <2>6. Range(ops[o].in) = {ops[o].in[1], ops[o].in[2]}
    BY <1>1, <2>1 DEF Range
  <2>7. verify(Seen(op))
    <3>1. ops[o].name # "hw.constant"
      BY <2>1 DEF Commutative
    <3> QED
      BY <1>1, <2>1, <2>2, <2>4, <3>1, CommutativeTypes
  <2> QED
    BY <1>1, <1>3, <2>2, <2>4, <2>5, <2>6, <2>7 DEF IsOperation
<1> QED
  BY <1>2, <1>3

\* A rule that matches gives an operand, and one of the type of the result.
LEMMA RuleFacts ==
  ASSUME IInv, NEW o \in Live, NEW op, op = canonicalize_commutative(ops[o]),
         ~IndexPanics(op), NEW k \in Matching(op)
  PROVE  Rules(op)[k].to \in Range(op.in) /\ TypeOf(ops, Rules(op)[k].to) = IntType(op.w)
<1>1. /\ IsOperation(op) /\ Range(op.in) \subseteq Args \cup Live
      /\ op.name # "hw.constant" => verify(Seen(op))
  BY VisitedFacts, LiveFacts
<1>2. op.in \in Seq(Values) /\ op.w \in Nat /\ DOMAIN op.in = 1..Len(op.in)
  BY <1>1 DEF IsOperation
<1>3. \A v \in Range(op.in) : WidthOf(v) \in Nat /\ TypeOf(ops, v) = IntType(WidthOf(v))
  BY <1>1, WidthTyped
<1>4. k \in DOMAIN Rules(op) /\ Rules(op)[k].when
  BY DEF Matching
<1>5. CASE op.name = "comb.mux"
  <2>1. verify(Seen(op)) => verify_mux(Seen(op))
    BY <1>5 DEF verify, Seen, BinaryArithmetic, VariadicBitwise, Unary, Reductions
  <2>2. /\ Len(Seen(op).in) = 3 /\ verify_i1(Seen(op).in[1])
        /\ Seen(op).in[2] = Seen(op).in[3] /\ Seen(op).out = Seen(op).in[2]
    BY <1>1, <1>5, <2>1 DEF verify_mux
  <2>3. /\ Len(op.in) = 3 /\ Seen(op).in[1] = TypeOf(ops, op.in[1])
        /\ Seen(op).in[2] = TypeOf(ops, op.in[2]) /\ Seen(op).out = IntType(op.w)
    BY <1>2, <2>2 DEF Seen
  <2>4. op.in[1] \in Range(op.in) /\ op.in[2] \in Range(op.in)
    BY <1>2, <2>3 DEF Range
  <2>5. \/ Rules(op)[k].to = op.in[2]
        \/ Rules(op)[k].to = op.in[1] /\ op.w = 1
    <3> DEFINE second == op.w = 1 /\ HasValue(op.in[2], 1) /\ HasValue(op.in[3], 0)
    <3>1. Rules(op) = << [when |-> op.in[2] = op.in[3], to |-> op.in[2]],
                         [when |-> second, to |-> op.in[1]] >>
      BY <1>5 DEF Rules, canonicalize_mux
    <3> HIDE DEF second
    <3>2. k = 1 \/ k = 2
      BY <1>4, <3>1
    <3>3. Rules(op)[1].to = op.in[2] /\ Rules(op)[2].to = op.in[1] /\ (Rules(op)[2].when => second)
      BY <3>1
    <3> QED
      BY <1>4, <3>2, <3>3 DEF second
  <2>6. op.w = 1 => TypeOf(ops, op.in[1]) = IntType(op.w)
    BY <1>3, <2>2, <2>3, <2>4 DEF verify_i1, IntType
  <2> QED
    BY <2>2, <2>3, <2>4, <2>5, <2>6
<1>6. CASE Simplifies(op)
  <2>1. /\ op.name \in Commutative /\ Len(op.in) = 2
        /\ op.name # "comb.mux" /\ op.name # "hw.constant"
    BY <1>6 DEF Simplifies, Commutative
  <2>2. TypeOf(ops, op.in[1]) = IntType(op.w) /\ TypeOf(ops, op.in[2]) = IntType(op.w)
    BY <1>1, <1>2, <2>1, CommutativeTypes
  <2>3. Rules(op)[k].to = op.in[1] \/ Rules(op)[k].to = op.in[2]
    BY <1>4, <1>6, <2>1 DEF Rules, canonicalize_identities
  <2>4. op.in[1] \in Range(op.in) /\ op.in[2] \in Range(op.in)
    BY <1>2, <2>1 DEF Range
  <2> QED
    BY <2>2, <2>3, <2>4
<1>7. CASE ~Simplifies(op) /\ op.name = "comb.extract"
  <2>1. Rules(op)[k].to = op.in[1] /\ WidthOf(op.in[1]) = op.w
    <3> DEFINE whole == op.attr = 0 /\ WidthOf(op.in[1]) = op.w
    <3>1. Rules(op) = << [when |-> whole, to |-> op.in[1]] >>
      BY <1>7 DEF Rules, canonicalize_identities
    <3> HIDE DEF whole
    <3>2. k = 1
      BY <1>4, <3>1
    <3>3. Rules(op)[1].to = op.in[1] /\ (Rules(op)[1].when => whole)
      BY <3>1
    <3> QED
      BY <1>4, <3>2, <3>3 DEF whole
  <2>2. verify(Seen(op)) => verify_extract(Seen(op))
    BY <1>7 DEF verify, Seen, BinaryArithmetic, VariadicBitwise, Unary, Reductions
  <2>3. Len(Seen(op).in) = 1
    BY <1>1, <1>7, <2>2 DEF verify_extract
  <2>4. op.in[1] \in Range(op.in)
    BY <1>2, <2>3 DEF Seen, Range
  <2> QED
    BY <1>3, <2>1, <2>4
<1>8. CASE ~Simplifies(op) /\ op.name = "comb.replicate"
  <2>1. Rules(op)[k].to = op.in[1] /\ op.attr = 1
    <3> DEFINE once == op.attr = 1
    <3>1. Rules(op) = << [when |-> once, to |-> op.in[1]] >>
      BY <1>8 DEF Rules, canonicalize_identities
    <3> HIDE DEF once
    <3>2. k = 1
      BY <1>4, <3>1
    <3>3. Rules(op)[1].to = op.in[1] /\ (Rules(op)[1].when => once)
      BY <3>1
    <3> QED
      BY <1>4, <3>2, <3>3 DEF once
  <2>2. verify(Seen(op)) => verify_replicate(Seen(op))
    BY <1>8 DEF verify, Seen, BinaryArithmetic, VariadicBitwise, Unary, Reductions
  <2>3. /\ Len(Seen(op).in) = 1
        /\ Seen(op).out.width = Seen(op).in[1].width * Seen(op).attr
    BY <1>1, <1>8, <2>2 DEF verify_replicate
  <2>4. /\ op.in[1] \in Range(op.in) /\ Seen(op).in[1] = TypeOf(ops, op.in[1])
        /\ Seen(op).attr = 1 /\ Seen(op).out = IntType(op.w)
    BY <1>2, <2>1, <2>3 DEF Seen, Range
  <2>5. WidthOf(op.in[1]) \in Nat /\ TypeOf(ops, op.in[1]) = IntType(WidthOf(op.in[1]))
    BY <1>3, <2>4
  <2>6. op.w = WidthOf(op.in[1])
    BY <2>3, <2>4, <2>5 DEF IntType
  <2> QED
    BY <2>1, <2>4, <2>5, <2>6
<1>9. CASE ~Simplifies(op) /\ op.name \notin {"comb.mux", "comb.extract", "comb.replicate"}
  <2>1. Rules(op) = << >>
    BY <1>9 DEF Rules, canonicalize_identities
  <2> QED
    BY <1>4, <2>1
<1> QED
  BY <1>5, <1>6, <1>7, <1>8, <1>9

-----------------------------------------------------------------------------
(* The steps.                                                               *)

\* A step of the sweep takes a live operation off the snapshot.
LEMMA VisitFacts ==
  ASSUME IInv, Visit
  PROVE  /\ Head(todo) \in Live
         /\ todo' \in Seq(1..Len(ops)) /\ IsInjective(todo') /\ Range(todo') = Range(todo) \ {Head(todo)}
<1>1. todo \in Seq(1..Len(ops)) /\ todo # << >> /\ IsInjective(todo)
  BY DEF IInv, TypeInv, Visit
<1>2. /\ Len(todo) \in Nat \ {0} /\ DOMAIN todo = 1..Len(todo) /\ Head(todo) = todo[1]
      /\ Tail(todo) \in Seq(1..Len(ops)) /\ DOMAIN Tail(todo) = 1..(Len(todo) - 1)
      /\ \A i \in 1..(Len(todo) - 1) : Tail(todo)[i] = todo[i + 1]
  BY <1>1
<1> DEFINE t == Tail(todo)
<1>3. Head(todo) \in Live
  BY <1>2 DEF IInv, Range
<1>4. \A i, j \in 1..Len(todo) : todo[i] = todo[j] => i = j
  BY <1>1, <1>2 DEF IsInjective
<1> HIDE DEF t
<1>5. /\ DOMAIN t = 1..(Len(todo) - 1) /\ \A i \in 1..(Len(todo) - 1) : t[i] = todo[i + 1]
  BY <1>2 DEF t
<1>6. IsInjective(t)
  <2> SUFFICES ASSUME NEW i \in 1..(Len(todo) - 1), NEW j \in 1..(Len(todo) - 1), t[i] = t[j]
               PROVE  i = j
    BY <1>5 DEF IsInjective
  <2>1. i + 1 \in 1..Len(todo) /\ j + 1 \in 1..Len(todo) /\ todo[i + 1] = todo[j + 1]
    BY <1>2, <1>5
  <2>2. i + 1 = j + 1
    BY <1>4, <2>1
  <2> QED
    BY <2>2
<1>7. Range(t) = Range(todo) \ {Head(todo)}
  <2>1. ASSUME NEW i \in 1..(Len(todo) - 1) PROVE t[i] \in Range(todo) \ {Head(todo)}
    <3>1. i + 1 \in 1..Len(todo) /\ 1 \in 1..Len(todo) /\ i + 1 # 1 /\ t[i] = todo[i + 1]
      BY <1>2, <1>5
    <3>2. todo[i + 1] # todo[1]
      BY <1>4, <3>1
    <3> QED
      BY <1>2, <3>1, <3>2 DEF Range
  <2>2. ASSUME NEW j \in 1..Len(todo), j # 1 PROVE todo[j] \in Range(t)
    <3>1. PICK i \in 1..(Len(todo) - 1) : i = j - 1
      BY <1>2, <2>2
    <3>2. t[i] = todo[j]
      BY <1>2, <1>5, <3>1
    <3> QED
      BY <1>5, <3>2 DEF Range
  <2>3. /\ \A x \in Range(t) : \E i \in 1..(Len(todo) - 1) : x = t[i]
        /\ \A x \in Range(todo) : \E j \in 1..Len(todo) : x = todo[j]
    BY <1>2, <1>5 DEF Range
  <2> QED
    BY <1>2, <2>1, <2>2, <2>3
<1>8. todo' = t
  BY DEF Visit, t
<1> QED
  BY <1>2, <1>3, <1>6, <1>7, <1>8 DEF t

\* New operations take the place of the one that is erased.
LEMMA BlockFacts ==
  ASSUME IInv, NEW o \in Live, NEW m \in Nat, Len(ops) <= m, NEW new \in Seq(1..m),
         IsInjective(new), Range(new) \cap Live = {}, InsteadOf(o, new)
  PROVE  /\ block' \in Seq(1..m) /\ IsInjective(block') /\ Live' = (Live \ {o}) \cup Range(new)
         /\ \E p \in 1..Len(block) : block[p] = o /\ Spliced(block', block, new, p)
<1>1. Len(ops) \in Nat /\ block \in Seq(1..Len(ops)) /\ IsInjective(block)
  BY DEF IInv, TypeInv, Sound, Typed
<1>2. block \in Seq(1..m) /\ Len(block) \in Nat /\ DOMAIN block = 1..Len(block)
  BY <1>1
<1>3. PICK p : p = Position(o)
  OBVIOUS
<1>4. p \in 1..Len(block) /\ block[p] = o
  <2>1. \E k \in DOMAIN block : block[k] = o
    BY DEF Live, Range
  <2> QED
    BY <1>2, <1>3, <2>1 DEF Position
<1>5. block' = SubSeq(block, 1, p - 1) \o new \o SubSeq(block, p + 1, Len(block))
  BY <1>3 DEF InsteadOf
<1>6. block' \in Seq(1..m) /\ Spliced(block', block, new, p)
  BY <1>2, <1>4, <1>5, Splice
<1>7. IsInjective(block') /\ Range(block') = (Range(block) \ {block[p]}) \cup Range(new)
  <2>1. Len(new) \in Nat /\ DOMAIN new = 1..Len(new) /\ Range(block) \cap Range(new) = {}
    BY DEF Live
  <2> QED
    BY <1>1, <1>2, <1>4, <1>6, <2>1, SpliceOnce
<1> QED
  BY <1>4, <1>6, <1>7 DEF Live

\* The new operations use operands of o and the new ones before them, and r is an
\* operand of o or a new one.
Follows(arena, new, o, r) ==
  /\ \A k \in 1..Len(ops) : k \in 1..Len(arena) /\ arena[k] = ops[k]
  /\ \A i \in 1..Len(new) :
       /\ new[i] \in 1..Len(arena)
       /\ Range(arena[new[i]].in) \subseteq Range(ops[o].in) \cup {new[j] : j \in 1..(i - 1)}
  /\ r \in Range(ops[o].in) \cup Range(new)

\* Then they may take the place of o in a block in which definitions precede their uses.
LEMMA SplicedInOrder ==
  ASSUME IInv, InOrder, NEW o \in Live,
         NEW arena, Typed(arena), NEW new, Len(new) \in Nat, DOMAIN new = 1..Len(new),
         Range(new) \cap Live = {}, NEW r \in Values, Follows(arena, new, o, r),
         Renamed(ops', arena, o, r),
         NEW p \in 1..Len(block), block[p] = o, Spliced(block', block, new, p)
  PROVE  InOrder'
<1> DEFINE t == block'
           n == Len(new)
           Uses(u) == Range(ops[u].in)
           Before(b, k) == {b[j] : j \in 1..(k - 1)}
<1>1. /\ Len(block) \in Nat /\ DOMAIN block = 1..Len(block)
      /\ \A i, j \in 1..Len(block) : block[i] = block[j] => i = j
      /\ \A k \in 1..Len(block) : block[k] \in Live /\ block[k] \in 1..Len(ops)
  <2>1. Len(block) \in Nat /\ DOMAIN block = 1..Len(block)
    BY DEF IInv, TypeInv
  <2>2. \A i, j \in 1..Len(block) : block[i] = block[j] => i = j
    BY <2>1 DEF IInv, TypeInv, IsInjective
  <2>3. \A k \in 1..Len(block) : block[k] \in Live /\ block[k] \in 1..Len(ops)
    <3> TAKE k \in 1..Len(block)
    <3>1. block \in Seq(1..Len(ops))
      BY DEF IInv, TypeInv
    <3>2. block[k] \in 1..Len(ops)
      BY <2>1, <3>1
    <3>3. block[k] \in Live
      BY <2>1 DEF Live, Range
    <3> QED
      BY <3>2, <3>3
  <2> QED
    BY <2>1, <2>2, <2>3
<1>2. /\ n \in Nat /\ DOMAIN t = 1..(Len(block) - 1 + n)
      /\ \A i \in 1..(p - 1) : t[i] = block[i]
      /\ \A i \in 1..n : t[p - 1 + i] = new[i]
      /\ \A i \in (p + 1)..Len(block) : t[i - 1 + n] = block[i]
  BY DEF Spliced
<1> HIDE DEF t, n
<1>3. o \in 1..Len(ops) /\ o \in Values /\ o \notin Args
  <2>1. o \in 1..Len(ops) /\ o \notin Args
    BY LiveFacts
  <2> QED
    BY <2>1 DEF IInv, Sound, Typed, Values
<1>4. \A k \in 1..Len(block) : Uses(block[k]) \subseteq Args \cup Before(block, k)
  BY <1>1 DEF InOrder
<1>5. o \notin Uses(o) /\ \A k \in 1..(p - 1) : o \notin Uses(block[k])
  <2>1. \A k \in 1..p : o \notin Before(block, k)
    BY <1>1
  <2>2. p \in 1..p /\ \A k \in 1..(p - 1) : k \in 1..p /\ k \in 1..Len(block)
    BY <1>1
  <2> QED
    BY <1>3, <1>4, <2>1, <2>2
<1>6. \A k \in 1..Len(arena) :
        /\ Range(ops'[k].in) \subseteq (Range(arena[k].in) \ {o}) \cup {r}
        /\ o \notin Range(arena[k].in) => Range(ops'[k].in) = Range(arena[k].in)
  BY <1>3, RenamedFacts, ReplaceFacts
<1>7. \A k \in 1..Len(ops) : k \in 1..Len(arena) /\ arena[k] = ops[k]
  BY DEF Follows
<1>8. ASSUME NEW k \in 1..(p - 1)
      PROVE  Range(ops'[t[k]].in) \subseteq Args \cup Before(t, k)
  <2>1. k \in 1..Len(block) /\ t[k] = block[k] /\ \A j \in 1..(k - 1) : t[j] = block[j]
    BY <1>1, <1>2
  <2>2. Range(ops'[t[k]].in) = Uses(block[k])
    BY <1>1, <1>5, <1>6, <1>7, <2>1
  <2>3. Before(block, k) \subseteq Before(t, k)
    BY <2>1
  <2> QED
    BY <1>4, <2>1, <2>2, <2>3
<1>9. ASSUME NEW i \in 1..n
      PROVE  Range(ops'[t[p - 1 + i]].in) \subseteq Args \cup Before(t, p - 1 + i)
  <2>1. PICK k : k = p - 1 + i
    OBVIOUS
  <2>2. t[k] = new[i] /\ k \in Int
    BY <1>1, <1>2, <2>1
  <2>3. Range(arena[new[i]].in) \subseteq Uses(o) \cup Before(new, i) /\ new[i] \in 1..Len(arena)
    BY DEF Follows, n
  <2>4. o \notin Before(new, i)
    <3> SUFFICES ASSUME NEW j \in 1..(i - 1) PROVE new[j] # o
      OBVIOUS
    <3>1. j \in DOMAIN new
      BY <1>2 DEF n
    <3> QED
      BY <3>1 DEF Range
  <2>5. Range(ops'[t[k]].in) \subseteq Uses(o) \cup Before(new, i)
    BY <1>5, <1>6, <2>2, <2>3, <2>4
  <2>6. Before(new, i) \subseteq Before(t, k)
    <3> SUFFICES ASSUME NEW j \in 1..(i - 1) PROVE new[j] \in Before(t, k)
      OBVIOUS
    <3>1. j \in 1..n /\ p - 1 + j \in 1..(k - 1) /\ t[p - 1 + j] = new[j]
      BY <1>1, <1>2, <2>1
    <3> QED
      BY <3>1
  <2>7. Before(block, p) \subseteq Before(t, k)
    <3> SUFFICES ASSUME NEW j \in 1..(p - 1) PROVE block[j] \in Before(t, k)
      OBVIOUS
    <3>1. j \in 1..(k - 1) /\ t[j] = block[j]
      BY <1>1, <1>2, <2>1
    <3> QED
      BY <3>1
  <2>8. Uses(o) \subseteq Args \cup Before(block, p)
    BY <1>4
  <2> QED
    BY <2>1, <2>5, <2>6, <2>7, <2>8
<1>10. ASSUME NEW m \in (p + 1)..Len(block)
       PROVE  Range(ops'[t[m - 1 + n]].in) \subseteq Args \cup Before(t, m - 1 + n)
  <2>1. PICK k : k = m - 1 + n
    OBVIOUS
  <2>2. t[k] = block[m] /\ k \in Int /\ m \in 1..Len(block)
    BY <1>1, <1>2, <2>1
  <2>3. Range(ops'[t[k]].in) \subseteq (Uses(block[m]) \ {o}) \cup {r}
    BY <1>1, <1>6, <1>7, <2>2
  <2>4. Before(block, m) \ {o} \subseteq Before(t, k)
    <3> SUFFICES ASSUME NEW j \in 1..(m - 1), block[j] # o PROVE block[j] \in Before(t, k)
      OBVIOUS
    <3>1. CASE j < p
      <4>1. j \in 1..(k - 1) /\ t[j] = block[j]
        BY <1>1, <1>2, <2>1, <3>1
      <4> QED
        BY <4>1
    <3>2. CASE j > p
      <4>1. j - 1 + n \in 1..(k - 1) /\ t[j - 1 + n] = block[j]
        BY <1>1, <1>2, <2>1, <3>2
      <4> QED
        BY <4>1
    <3> QED
      BY <3>1, <3>2
  <2>5. Range(new) \subseteq Before(t, k)
    <3> SUFFICES ASSUME NEW j \in 1..n PROVE new[j] \in Before(t, k)
      BY DEF Range, n
    <3>1. p - 1 + j \in 1..(k - 1) /\ t[p - 1 + j] = new[j]
      BY <1>1, <1>2, <2>1
    <3> QED
      BY <3>1
  <2>6. Uses(o) \subseteq Args \cup (Before(block, m) \ {o})
    <3>1. Uses(o) \subseteq Args \cup Before(block, p)
      BY <1>4
    <3>2. Before(block, p) \subseteq Before(block, m)
      BY <1>1
    <3> QED
      BY <1>5, <3>1, <3>2
  <2>7. r \in Uses(o) \cup Range(new)
    BY DEF Follows
  <2>8. Uses(block[m]) \subseteq Args \cup Before(block, m)
    BY <1>4, <2>2
  <2> HIDE DEF Uses, Before
  <2> QED
    BY <2>1, <2>3, <2>4, <2>5, <2>6, <2>7, <2>8
<1>11. ASSUME NEW k \in DOMAIN t PROVE Range(ops'[t[k]].in) \subseteq Args \cup Before(t, k)
  <2>1. k \in 1..(Len(block) - 1 + n)
    BY <1>2
  <2>2. CASE k < p
    BY <1>8, <2>1, <2>2
  <2>3. CASE k - p + 1 \in 1..n
    <3>1. p - 1 + (k - p + 1) = k
      BY <2>1
    <3> QED
      BY <1>9, <2>3, <3>1
  <2>4. CASE k + 1 - n \in (p + 1)..Len(block)
    <3>1. (k + 1 - n) - 1 + n = k
      BY <1>2, <2>1
    <3> QED
      BY <1>10, <2>4, <3>1
  <2> QED
    BY <1>1, <1>2, <2>1, <2>2, <2>3, <2>4
<1> QED
  BY <1>11 DEF InOrder, t

\* A rewrite of the visited operation o: the operations `new` take its place in the
\* block and the value r in its uses.
LEMMA Rewrite ==
  ASSUME IInv, Visit, Rewritten, NEW o, o = Head(todo),
         NEW arena, Len(ops) <= Len(arena),
         NEW new \in Seq(1..Len(arena)), IsInjective(new), Range(new) \cap Live = {},
         NEW live, live = Live \cup Range(new), Sound(arena, live, outputs),
         NEW r, MayReplace(arena, live, o, r), Follows(arena, new, o, r),
         ReplaceUses(arena, o, r), InsteadOf(o, new)
  PROVE  IInv' /\ (InOrder => InOrder')
<1>1. /\ Len(ops) \in Nat /\ Len(arena) \in Nat /\ Live \subseteq 1..Len(ops)
  BY DEF IInv, Sound, Typed
<1>2. /\ o \in Live
      /\ todo' \in Seq(1..Len(ops)) /\ IsInjective(todo') /\ Range(todo') = Range(todo) \ {o}
  BY VisitFacts
<1>3. /\ block' \in Seq(1..Len(arena)) /\ IsInjective(block')
      /\ Live' = (Live \ {o}) \cup Range(new)
      /\ \E p \in 1..Len(block) : block[p] = o /\ Spliced(block', block, new, p)
  BY <1>1, <1>2, BlockFacts
<1>4. Live' = live \ {o}
  BY <1>2, <1>3
<1>5. Renamed(ops', arena, o, r) /\ outputs' = Replace(outputs, o, r)
  BY DEF ReplaceUses, Renamed
<1>6. Sound(ops', live \ {o}, Replace(outputs, o, r)) /\ Len(ops') = Len(arena)
  BY <1>5, ReplacementKeeps
<1>7. Sound(ops, Live, outputs)'
  BY <1>4, <1>5, <1>6
<1>8. todo' \in Seq(1..Len(arena))
  <2>1. 1..Len(ops) \subseteq 1..Len(arena)
    BY <1>1
  <2> QED
    BY <1>2, <2>1
<1>9. TypeInv'
  BY <1>2, <1>3, <1>6, <1>8 DEF TypeInv
<1>10. Range(todo)' \subseteq Live'
  BY <1>2, <1>3 DEF IInv
<1>11. changed' = TRUE /\ phase' = "running"
  BY DEF Rewritten, Visit
<1>12. IInv'
  BY <1>7, <1>9, <1>10, <1>11 DEF IInv, SweepCanonical, DoneAfterQuiet, PanicsOnUnary
<1>13. InOrder => InOrder'
  <2> SUFFICES ASSUME InOrder PROVE InOrder'
    OBVIOUS
  <2>1. PICK p \in 1..Len(block) : block[p] = o /\ Spliced(block', block, new, p)
    BY <1>3
  <2>2. Typed(arena) /\ r \in Args \cup live /\ live \subseteq 1..Len(arena)
    BY DEF Sound, MayReplace
  <2>3. r \in Values
    BY <1>1, <2>2 DEF Values
  <2>4. Len(new) \in Nat /\ DOMAIN new = 1..Len(new)
    OBVIOUS
  <2> QED
    BY <1>2, <1>5, <2>1, <2>2, <2>3, <2>4, SplicedInOrder
<1> QED
  BY <1>12, <1>13

\* A result replaced by an operand.
LEMMA ReplaceStep == ASSUME IInv, VisitReplace PROVE IInv' /\ (InOrder => InOrder')
<1>1. PICK o : o = Head(todo)
  OBVIOUS
<1>2. PICK op : op = Visited
  OBVIOUS
<1>3. /\ Visit /\ Rewritten /\ o \in Live /\ op = canonicalize_commutative(ops[o]) /\ ~IndexPanics(op)
  BY <1>1, <1>2, VisitFacts DEF VisitReplace, Visited
<1>4. PICK k \in Matching(op) : ReplaceUses(ops, o, Rules(op)[k].to)
  BY <1>1, <1>2 DEF VisitReplace
<1>5. PICK r : r = Rules(op)[k].to
  OBVIOUS
<1>6. MayReplace(ops, Live, o, r)
  <2>1. /\ r \in Range(op.in) /\ TypeOf(ops, r) = IntType(op.w)
        /\ op.w = ops[o].w /\ Range(op.in) = Range(ops[o].in)
    BY <1>3, <1>5, RuleFacts, VisitedFacts
  <2>2. Range(ops[o].in) \subseteq Args \cup Live /\ TypeOf(ops, o) = IntType(ops[o].w)
    BY <1>3, LiveFacts
  <2> QED
    BY <1>3, <2>1, <2>2 DEF MayReplace
<1> DEFINE none == << >>
<1>7. none \in Seq(1..Len(ops)) /\ IsInjective(none) /\ Range(none) = {}
  BY DEF IsInjective, Range
<1>8. InsteadOf(o, none) /\ ReplaceUses(ops, o, r)
  BY <1>1, <1>4, <1>5 DEF VisitReplace
<1> HIDE DEF none
<1>9. Len(ops) <= Len(ops) /\ Live = Live \cup Range(none) /\ Sound(ops, Live, outputs)
  BY <1>7 DEF IInv, Sound, Typed
<1>10. Follows(ops, none, o, r)
  <2>1. r \in Range(ops[o].in)
    BY <1>3, <1>5, RuleFacts, VisitedFacts
  <2>2. Len(none) = 0
    BY DEF none
  <2> QED
    BY <2>1, <2>2 DEF Follows
<1> QED
  BY <1>1, <1>3, <1>6, <1>7, <1>8, <1>9, <1>10, Rewrite

\* A constant the rewrites create is an operation.
LEMMA ConstantIsOperation ==
  ASSUME NEW w \in Nat, NEW n
  PROVE  /\ IsOperation(Constant(w, n)) /\ Constant(w, n).name = "hw.constant"
         /\ Range(Constant(w, n).in) = {} /\ Constant(w, n).w = w
  BY DEF Constant, IsOperation, Range

\* xor(x, x) replaced by a new zero.
LEMMA XorSelfStep == ASSUME IInv, VisitXorSelf PROVE IInv' /\ (InOrder => InOrder')
<1>1. PICK o : o = Head(todo)
  OBVIOUS
<1>2. PICK op : op = Visited
  OBVIOUS
<1>3. /\ Visit /\ Rewritten /\ o \in Live /\ op = canonicalize_commutative(ops[o]) /\ XorSelf(op)
  BY <1>1, <1>2, VisitFacts DEF VisitXorSelf, Visited
<1>4. PICK zero : zero = Len(ops) + 1
  OBVIOUS
<1>5. PICK const : const = Constant(WidthOf(op.in[1]), 0)
  OBVIOUS
<1>6. PICK arena : arena = Append(ops, const)
  OBVIOUS
<1>7. ReplaceUses(arena, o, zero) /\ InsteadOf(o, <<zero>>)
  BY <1>1, <1>2, <1>4, <1>5, <1>6 DEF VisitXorSelf
<1>8. /\ op.w = ops[o].w /\ op.name = "comb.xor" /\ Len(op.in) = 2 /\ op.in \in Seq(Values)
      /\ verify(Seen(op)) /\ Range(op.in) \subseteq Args \cup Live /\ TypeOf(ops, o) = IntType(op.w)
  BY <1>3, VisitedFacts, LiveFacts DEF IsOperation, XorSelf, Simplifies
<1>9. op.in[1] \in Args \cup Live
  BY <1>8 DEF Range
<1>10. WidthOf(op.in[1]) = op.w /\ op.w \in Nat
  <2>1. TypeOf(ops, op.in[1]) = IntType(op.w)
    BY <1>8, CommutativeTypes DEF Commutative
  <2>2. WidthOf(op.in[1]) \in Nat /\ TypeOf(ops, op.in[1]) = IntType(WidthOf(op.in[1]))
    BY <1>9, WidthTyped
  <2> QED
    BY <2>1, <2>2 DEF IntType
<1>11. /\ IsOperation(const) /\ const.name = "hw.constant" /\ Range(const.in) = {} /\ const.w = op.w
  BY <1>5, <1>10, ConstantIsOperation
<1>12. Sound(ops, Live, outputs) /\ Typed(ops) /\ Len(ops) \in Nat
  BY DEF IInv, Sound, Typed
<1>13. Grown(arena, ops, const)
  BY <1>6, <1>11, <1>12, Append1
<1>14. /\ Len(arena) = zero /\ arena[zero] = const
  BY <1>4, <1>13 DEF Grown
<1>15. /\ zero \notin Live /\ Sound(arena, Live \cup {zero}, outputs)
       /\ TypeOf(arena, o) = TypeOf(ops, o) /\ TypeOf(arena, zero) = IntType(op.w)
  <2>1. MayJoin(ops, Live, const) /\ o \in Args \cup Live
    BY <1>3, <1>11 DEF MayJoin
  <2>2. Joined(arena, ops, Live, outputs, const)
    BY ONLY <1>12, <1>13, <2>1, GrowthKeeps
  <2> QED
    BY <1>11, <1>14, <2>1, <2>2 DEF Joined
<1>16. MayReplace(arena, Live \cup {zero}, o, zero)
  BY <1>3, <1>8, <1>11, <1>14, <1>15 DEF MayReplace
<1> DEFINE new == <<zero>>
<1>17. /\ new \in Seq(1..Len(arena)) /\ IsInjective(new) /\ Range(new) = {zero}
       /\ Len(ops) <= Len(arena)
  BY <1>4, <1>12, <1>14 DEF IsInjective, Range
<1>18. InsteadOf(o, new) /\ Len(new) = 1 /\ new[1] = zero
  BY <1>7
<1> HIDE DEF new
<1>19. Range(new) \cap Live = {} /\ Live \cup {zero} = Live \cup Range(new)
  BY <1>15, <1>17
<1>20. Follows(arena, new, o, zero)
  <2>1. \A k \in 1..Len(ops) : k \in 1..Len(arena) /\ arena[k] = ops[k]
    BY <1>4, <1>12, <1>13, <1>14 DEF Grown
  <2>2. zero \in 1..Len(arena)
    BY <1>4, <1>12, <1>14
  <2> QED
    BY <1>11, <1>14, <1>17, <1>18, <2>1, <2>2 DEF Follows
<1> QED
  BY <1>1, <1>3, <1>7, <1>15, <1>16, <1>17, <1>18, <1>19, <1>20, Rewrite

\* sub(x, C) replaced by add(x, -C).
LEMMA SubStep == ASSUME IInv, VisitSub PROVE IInv' /\ (InOrder => InOrder')
<1>1. PICK o : o = Head(todo)
  OBVIOUS
<1>2. PICK sub : sub = Visited
  OBVIOUS
<1>3. /\ Visit /\ Rewritten /\ o \in Live /\ sub = canonicalize_commutative(ops[o])
      /\ sub.name = "comb.sub" /\ IsConst(sub.in[2])
  BY <1>1, <1>2, VisitFacts DEF VisitSub, SubToAdd, SubOfConst, Visited
<1>4. PICK neg : neg = Len(ops) + 1
  OBVIOUS
<1>5. PICK add : add = Len(ops) + 2
  OBVIOUS
<1>6. PICK const : const = Constant(WidthOf(sub.in[2]),
                                    eval_neg(Wrap(WidthOf(sub.in[2]), ops[sub.in[2]].attr)).value.v)
  OBVIOUS
<1>7. PICK sum : sum = [sub EXCEPT !.name = "comb.add", !.in = <<sub.in[1], neg>>]
  OBVIOUS
<1>8. PICK arena : arena = ops \o <<const, sum>>
  OBVIOUS
<1>9. ReplaceUses(arena, o, add) /\ InsteadOf(o, <<neg, add>>)
  BY <1>1, <1>2, <1>4, <1>5, <1>6, <1>7, <1>8 DEF VisitSub, SubToAdd
<1>10. /\ sub.w = ops[o].w /\ sub.in \in Seq(Values) /\ IsOperation(sub) /\ verify(Seen(sub))
       /\ Range(sub.in) = Range(ops[o].in) /\ Range(sub.in) \subseteq Args \cup Live
       /\ TypeOf(ops, o) = IntType(sub.w)
  BY <1>3, VisitedFacts, LiveFacts DEF IsOperation
<1>11. /\ Len(sub.in) = 2 /\ sub.in[1] \in Args \cup Live /\ sub.in[2] \in Args \cup Live
       /\ sub.in[1] \in Range(ops[o].in) /\ sub.w \in Nat /\ sub.w > 0
       /\ TypeOf(ops, sub.in[1]) = IntType(sub.w) /\ WidthOf(sub.in[2]) = sub.w
  <2>1. verify(Seen(sub)) => verify_binary_arithmetic(Seen(sub))
    BY <1>3 DEF verify, Seen, BinaryArithmetic, VariadicBitwise, Unary, Reductions
  <2>2. /\ Len(Seen(sub).in) = 2 /\ Seen(sub).out.width > 0
        /\ Seen(sub).in[1].width = Seen(sub).in[2].width
        /\ Seen(sub).out.width = Seen(sub).in[1].width
    BY <1>10, <2>1 DEF verify_binary_arithmetic, verify_integer_type
  <2>3. /\ Len(sub.in) = 2 /\ Seen(sub).out = IntType(sub.w)
        /\ Seen(sub).in[1] = TypeOf(ops, sub.in[1]) /\ Seen(sub).in[2] = TypeOf(ops, sub.in[2])
    <3>1. Seen(sub).in = [k \in 1..Len(sub.in) |-> TypeOf(ops, sub.in[k])] /\ Len(sub.in) \in Nat
      BY <1>10 DEF Seen
    <3>2. Len(sub.in) = 2
      BY <2>2, <3>1
    <3> QED
      BY <3>1, <3>2 DEF Seen
  <2>4. /\ sub.in[1] \in Range(sub.in) /\ sub.in[2] \in Range(sub.in)
        /\ sub.in[1] \in Args \cup Live /\ sub.in[2] \in Args \cup Live
    BY <1>10, <2>3 DEF Range
  <2>5. /\ TypeOf(ops, sub.in[1]) = IntType(WidthOf(sub.in[1]))
        /\ TypeOf(ops, sub.in[2]) = IntType(WidthOf(sub.in[2]))
    BY <2>4, WidthTyped
  <2> QED
    BY <1>10, <2>2, <2>3, <2>4, <2>5 DEF IntType, IsOperation
<1>12. /\ IsOperation(const) /\ const.name = "hw.constant" /\ Range(const.in) = {} /\ const.w = sub.w
  <2>1. PICK n : n = eval_neg(Wrap(WidthOf(sub.in[2]), ops[sub.in[2]].attr)).value.v
    OBVIOUS
  <2>2. const = Constant(sub.w, n)
    BY <1>6, <1>11, <2>1
  <2> QED
    BY <1>11, <2>2, ConstantIsOperation
<1>13. Sound(ops, Live, outputs) /\ Typed(ops) /\ Len(ops) \in Nat /\ Live \subseteq 1..Len(ops)
  BY DEF IInv, Sound, Typed
<1>14. PICK middle : middle = Append(ops, const)
  OBVIOUS
<1>15. Grown(middle, ops, const) /\ Typed(middle) /\ Len(middle) = neg /\ middle[neg] = const
  BY <1>4, <1>12, <1>13, <1>14, Append1 DEF Grown
<1>16. /\ neg \notin Live /\ Sound(middle, Live \cup {neg}, outputs)
       /\ \A v \in Args \cup Live : TypeOf(middle, v) = TypeOf(ops, v)
       /\ TypeOf(middle, neg) = IntType(sub.w)
  <2>1. MayJoin(ops, Live, const)
    BY <1>12 DEF MayJoin
  <2>2. Joined(middle, ops, Live, outputs, const)
    BY ONLY <1>13, <1>15, <2>1, GrowthKeeps
  <2> QED
    BY <1>12, <1>15, <2>2 DEF Joined
<1>17. /\ IsOperation(sum) /\ sum.name = "comb.add" /\ sum.w = sub.w
       /\ Len(sum.in) = 2 /\ sum.in[1] = sub.in[1] /\ sum.in[2] = neg
       /\ sum.in \in Seq(Values) /\ Range(sum.in) = {sub.in[1], neg}
  <2>1. sum = [name |-> "comb.add", in |-> <<sub.in[1], neg>>, w |-> sub.w, attr |-> sub.attr]
    BY <1>7, <1>10 DEF IsOperation
  <2>2. sub.in[1] \in Values /\ neg \in Values
    BY <1>4, <1>10, <1>11, <1>13 DEF Values
  <2>3. sum.in = <<sub.in[1], neg>> /\ sum.in \in Seq(Values)
    BY <2>1, <2>2
  <2> QED
    BY <1>11, <2>1, <2>3 DEF IsOperation, Range
<1>18. Grown(arena, middle, sum)
  <2>1. arena = Append(middle, sum)
    BY <1>8, <1>12, <1>13, <1>14, <1>17 DEF Typed
  <2> QED
    BY <1>15, <1>17, <2>1, Append1
<1>19. /\ Len(arena) = add /\ arena[add] = sum /\ arena[neg] = const /\ add \in Nat
       /\ \A k \in 1..Len(ops) : arena[k] = ops[k]
  <2>1. Len(arena) = Len(middle) + 1 /\ Len(middle) + 1 = add /\ neg \in 1..Len(middle)
    BY <1>4, <1>5, <1>13, <1>15, <1>18 DEF Grown
  <2>2. \A k \in 1..Len(ops) : k \in 1..Len(middle) /\ middle[k] = ops[k]
    BY <1>4, <1>13, <1>15 DEF Grown
  <2> QED
    BY <1>5, <1>13, <1>15, <1>18, <2>1, <2>2 DEF Grown
<1> DEFINE larger == Live \cup {neg}
<1>20. /\ add \notin larger /\ Sound(arena, larger \cup {add}, outputs)
       /\ \A v \in Args \cup larger : TypeOf(arena, v) = TypeOf(middle, v)
       /\ TypeOf(arena, add) = IntType(sub.w)
  <2>1. Range(sum.in) \subseteq Args \cup larger
    BY <1>11, <1>17
  <2>2. /\ TypeOf(middle, sum.in[1]) = IntType(sum.w)
        /\ TypeOf(middle, sum.in[2]) = IntType(sum.w)
    BY <1>11, <1>16, <1>17
  <2> DEFINE seen == [name |-> sum.name, in |-> [k \in DOMAIN sum.in |-> TypeOf(middle, sum.in[k])],
                      out |-> IntType(sum.w), attr |-> sum.attr]
  <2>3. verify(seen)
    <3>1. /\ seen.name = "comb.add" /\ Len(seen.in) = 2 /\ seen.out = IntType(sum.w)
          /\ seen.in[1] = IntType(sum.w) /\ seen.in[2] = IntType(sum.w)
      BY <1>17, <2>2
    <3> HIDE DEF seen
    <3>2. verify(seen) <=> verify_binary_arithmetic(seen)
      BY <3>1 DEF verify, BinaryArithmetic, VariadicBitwise, Unary, Reductions
    <3>3. verify_binary_arithmetic(seen)
      BY <1>11, <1>17, <3>1 DEF verify_binary_arithmetic, verify_integer_type, IntType
    <3> QED
      BY <3>2, <3>3
  <2>4. MayJoin(middle, larger, sum)
    BY <2>1, <2>3 DEF MayJoin
  <2> HIDE DEF seen
  <2>5. Sound(middle, larger, outputs)
    BY <1>16
  <2> HIDE DEF larger
  <2>6. Joined(arena, middle, larger, outputs, sum)
    BY ONLY <1>18, <2>4, <2>5, GrowthKeeps
  <2> QED
    BY <1>17, <1>19, <2>6 DEF Joined
<1>21. MayReplace(arena, larger \cup {add}, o, add)
  <2>1. neg # o /\ add # o /\ neg \in larger /\ Range(arena[neg].in) = {}
    BY <1>3, <1>12, <1>16, <1>19, <1>20
  <2>2. TypeOf(arena, add) = TypeOf(arena, o)
    BY <1>3, <1>10, <1>16, <1>20
  <2>3. Range(arena[add].in) = {sub.in[1], neg} /\ sub.in[1] \in Range(arena[o].in)
    <3>1. o \in 1..Len(ops)
      BY <1>3, <1>13
    <3> QED
      BY <1>11, <1>17, <1>19, <3>1
  <2> QED
    BY <1>3, <2>1, <2>2, <2>3 DEF MayReplace
<1> DEFINE new == <<neg, add>>
<1>22. /\ new \in Seq(1..Len(arena)) /\ IsInjective(new) /\ Range(new) = {neg, add}
       /\ Len(ops) <= Len(arena)
  BY <1>4, <1>5, <1>13, <1>19 DEF IsInjective, Range
<1>23. InsteadOf(o, new) /\ Len(new) = 2 /\ new[1] = neg /\ new[2] = add
  BY <1>9
<1> HIDE DEF new
<1>24. Range(new) \cap Live = {} /\ larger \cup {add} = Live \cup Range(new)
  BY <1>16, <1>20, <1>22
<1> HIDE DEF larger
<1>25. Follows(arena, new, o, add)
  <2>1. \A k \in 1..Len(ops) : k \in 1..Len(arena) /\ arena[k] = ops[k]
    BY <1>5, <1>13, <1>19
  <2>2. neg \in 1..Len(arena) /\ add \in 1..Len(arena)
    BY <1>4, <1>5, <1>13, <1>19
  <2>3. Range(arena[neg].in) = {} /\ Range(arena[add].in) = {sub.in[1], neg}
    BY <1>12, <1>17, <1>19
  <2>4. 1 \in 1..(2 - 1) /\ neg \in {new[j] : j \in 1..(2 - 1)}
    BY <1>23
  <2>5. \A i \in 1..Len(new) :
          /\ new[i] \in 1..Len(arena)
          /\ Range(arena[new[i]].in) \subseteq Range(ops[o].in) \cup {new[j] : j \in 1..(i - 1)}
    <3> TAKE i \in 1..Len(new)
    <3>1. i = 1 \/ i = 2
      BY <1>23
    <3>2. CASE i = 1
      BY <1>23, <2>2, <2>3, <3>2
    <3>3. CASE i = 2
      BY <1>11, <1>23, <2>2, <2>3, <2>4, <3>3
    <3> QED
      BY <3>1, <3>2, <3>3
  <2> QED
    BY <1>22, <2>1, <2>5 DEF Follows
<1> QED
  BY <1>1, <1>3, <1>9, <1>20, <1>21, <1>22, <1>23, <1>24, <1>25, Rewrite
\* What no rule applies to is in canonical form.
LEMMA LeftIsCanonical ==
  ASSUME IInv, NEW o \in Live, NEW op, op = ops[o], ~const_first(op), ~XorSelf(op),
         ~SubOfConst(op), Matching(op) = {}
  PROVE  Canonical(o)
<1> DEFINE Is(k, n) == op.in[k] \notin Args /\ ops[op.in[k]] = Constant(op.w, n)
           Fixed(k) == op.in[k] \notin Args /\ ops[op.in[k]].name = "hw.constant"
<1>1. \A k, n : Is(k, n) => HasValue(op.in[k], n)
  BY DEF HasValue, IsConst, Constant
<1>2. op.name \in Commutative /\ Len(op.in) = 2 => (Fixed(1) => Fixed(2))
  BY DEF const_first, IsConst
<1>3. op.name = "comb.sub" => ~Fixed(2)
  BY DEF SubOfConst, IsConst
<1>4. op.name = "comb.mux" => op.in[2] # op.in[3] /\ (op.w = 1 => ~(Is(2, 1) /\ Is(3, 0)))
  <2> SUFFICES ASSUME op.name = "comb.mux"
               PROVE  op.in[2] # op.in[3] /\ ~(op.w = 1 /\ HasValue(op.in[2], 1) /\ HasValue(op.in[3], 0))
    BY <1>1
  <2> DEFINE same == op.in[2] = op.in[3]
             second == op.w = 1 /\ HasValue(op.in[2], 1) /\ HasValue(op.in[3], 0)
  <2>1. Rules(op) = << [when |-> same, to |-> op.in[2]], [when |-> second, to |-> op.in[1]] >>
    BY DEF Rules, canonicalize_mux
  <2> HIDE DEF same, second
  <2>2. 1 \in DOMAIN Rules(op) /\ 2 \in DOMAIN Rules(op)
    BY <2>1
  <2>3. ~Rules(op)[1].when /\ ~Rules(op)[2].when
    BY <2>2 DEF Matching
  <2>4. ~same /\ ~second
    BY <2>1, <2>3
  <2> QED
    BY <2>4 DEF same, second
<1>5. Simplifies(op) => ~Neutral(op, op.in[1]) /\ ~Neutral(op, op.in[2])
  <2> SUFFICES ASSUME Simplifies(op)
               PROVE  ~Neutral(op, op.in[1]) /\ ~Neutral(op, op.in[2])
    OBVIOUS
  <2>1. op.name # "comb.mux"
    BY DEF Simplifies, Commutative
  <2> DEFINE n1 == Neutral(op, op.in[1])
             n2 == Neutral(op, op.in[2])
             a1 == Absorbing(op, op.in[1])
             a2 == Absorbing(op, op.in[2])
  <2>2. Rules(op) = << [when |-> n2, to |-> op.in[1]], [when |-> a2, to |-> op.in[2]],
                       [when |-> n1, to |-> op.in[2]], [when |-> a1, to |-> op.in[1]] >>
    BY <2>1 DEF Rules, canonicalize_identities
  <2> HIDE DEF n1, n2, a1, a2
  <2>3. 1 \in DOMAIN Rules(op) /\ 3 \in DOMAIN Rules(op)
    BY <2>2
  <2>4. ~Rules(op)[1].when /\ ~Rules(op)[3].when
    BY <2>3 DEF Matching
  <2>5. ~n1 /\ ~n2
    BY <2>2, <2>4
  <2> QED
    BY <2>5 DEF n1, n2
<1>6. op.name \in {"comb.add", "comb.or", "comb.xor"} /\ Len(op.in) = 2 => ~Is(1, 0) /\ ~Is(2, 0)
  <2> SUFFICES ASSUME op.name \in {"comb.add", "comb.or", "comb.xor"}, Len(op.in) = 2
               PROVE  ~HasValue(op.in[1], 0) /\ ~HasValue(op.in[2], 0)
    BY <1>1
  <2>1. Simplifies(op)
    BY DEF Simplifies, Commutative
  <2>2. \A v : Neutral(op, v) <=> HasValue(v, 0)
    BY DEF Neutral
  <2> QED
    BY <1>5, <2>1, <2>2
<1>7. op.name = "comb.mul" => ~Is(1, 1) /\ ~Is(2, 1)
  <2> SUFFICES ASSUME op.name = "comb.mul"
               PROVE  ~HasValue(op.in[1], 1) /\ ~HasValue(op.in[2], 1)
    BY <1>1
  <2>1. verify(Seen(op)) /\ op.in \in Seq(Values)
    BY LiveFacts
  <2>2. verify(Seen(op)) => verify_binary_arithmetic(Seen(op))
    BY DEF verify, Seen, BinaryArithmetic, VariadicBitwise, Unary, Reductions
  <2>3. Len(Seen(op).in) = 2
    BY <2>1, <2>2 DEF verify_binary_arithmetic
  <2>4. Len(op.in) = 2
    <3>1. Seen(op).in = [k \in 1..Len(op.in) |-> TypeOf(ops, op.in[k])] /\ Len(op.in) \in Nat
      BY <2>1 DEF Seen
    <3> QED
      BY <2>3, <3>1
  <2>5. Simplifies(op)
    BY <2>4 DEF Simplifies, Commutative
  <2>6. \A v : Neutral(op, v) <=> HasValue(v, 1)
    BY DEF Neutral
  <2> QED
    BY <1>5, <2>5, <2>6
<1> QED
  BY <1>2, <1>3, <1>4, <1>6, <1>7 DEF Canonical

\* Putting the operands of o in order.
LEMMA ReorderKeeps ==
  ASSUME IInv, NEW o \in Live, NEW op, op = canonicalize_commutative(ops[o]),
         NEW arena, arena = [ops EXCEPT ![o] = op]
  PROVE  /\ Sound(arena, Live, outputs) /\ Len(arena) = Len(ops)
         /\ \A u \in Live : Range(arena[u].in) = Range(ops[u].in)
<1>1. /\ Typed(ops) /\ Live \in SUBSET (1..Len(ops)) /\ outputs \in Seq(Values)
      /\ Verified(ops, Live, outputs) /\ NoLoop(ops, Live)
  BY DEF IInv, Sound
<1>2. /\ op.name = ops[o].name /\ op.w = ops[o].w /\ op.attr = ops[o].attr
      /\ IsOperation(op) /\ Range(op.in) = Range(ops[o].in)
      /\ op.name # "hw.constant" => verify(Seen(op))
  BY VisitedFacts
<1>3. Len(ops) \in Nat /\ DOMAIN ops = 1..Len(ops) /\ o \in 1..Len(ops)
  BY <1>1 DEF Typed
<1>4. /\ arena = [k \in 1..Len(ops) |-> IF k = o THEN op ELSE ops[k]]
      /\ arena[o] = op /\ \A k \in 1..Len(ops) : k # o => arena[k] = ops[k]
  BY <1>3
<1>5. Typed(arena) /\ Len(arena) = Len(ops)
  <2>1. DOMAIN arena = 1..Len(ops) /\ \A k \in 1..Len(ops) : arena[k] \in Range(arena)
    BY <1>4 DEF Range
  <2>2. arena \in Seq(Range(arena)) /\ Len(arena) = Len(ops)
    <3>1. PICK n \in Nat : n = Len(ops)
      BY <1>3
    <3>2. PICK R : R = Range(arena)
      OBVIOUS
    <3>3. arena = [k \in 1..n |-> arena[k]] /\ \A k \in 1..n : arena[k] \in R
      BY <1>4, <2>1, <3>1, <3>2
    <3>4. arena \in Seq(R) /\ Len(arena) = n
      BY ONLY <3>3, n \in Nat
    <3> QED
      BY <3>1, <3>2, <3>4
  <2>3. \A k \in 1..Len(ops) : IsOperation(arena[k])
    BY <1>1, <1>2, <1>3, <1>4 DEF Typed
  <2> QED
    BY <2>1, <2>2, <2>3 DEF Typed
<1>6. \A v : v \in Args \cup (1..Len(ops)) => TypeOf(arena, v) = TypeOf(ops, v)
  BY <1>2, <1>4 DEF TypeOf
<1>7. \A u \in Live : Range(arena[u].in) = Range(ops[u].in)
  BY <1>1, <1>2, <1>4
<1>8. ASSUME NEW u \in Live, arena[u].name # "hw.constant"
      PROVE  verify([name |-> arena[u].name,
                     in   |-> [k \in DOMAIN arena[u].in |-> TypeOf(arena, arena[u].in[k])],
                     out  |-> TypeOf(arena, u), attr |-> arena[u].attr])
  <2>1. \A k \in DOMAIN arena[u].in : TypeOf(arena, arena[u].in[k]) = TypeOf(ops, arena[u].in[k])
    <3>1. Range(arena[u].in) \subseteq Args \cup (1..Len(ops))
      BY <1>1, <1>7 DEF Verified
    <3> QED
      BY <1>6, <3>1 DEF Range
  <2>2. [k \in DOMAIN arena[u].in |-> TypeOf(arena, arena[u].in[k])]
          = [k \in DOMAIN arena[u].in |-> TypeOf(ops, arena[u].in[k])]
    BY <2>1
  <2>3. TypeOf(arena, u) = TypeOf(ops, u) /\ TypeOf(ops, u) = IntType(ops[u].w)
    BY <1>1, <1>6, LiveFacts
  <2>4. CASE u = o
    <3>1. verify(Seen(op)) /\ TypeOf(arena, u) = IntType(op.w) /\ arena[u] = op
      BY <1>2, <1>4, <1>8, <2>3, <2>4
    <3> QED
      BY <2>2, <3>1 DEF Seen
  <2>5. CASE u # o
    <3>1. arena[u] = ops[u]
      BY <1>1, <1>4, <2>5
    <3> QED
      BY <1>1, <1>8, <2>2, <2>3, <3>1 DEF Verified
  <2> QED
    BY <2>4, <2>5
<1>9. Verified(arena, Live, outputs)
  BY <1>1, <1>7, <1>8 DEF Verified
<1>10. NoLoop(arena, Live)
  <2> SUFFICES ASSUME NEW S \in SUBSET Live, S # {}
               PROVE  \E u \in S : Range(arena[u].in) \cap S = {}
    BY DEF NoLoop
  <2>1. PICK u \in S : Range(ops[u].in) \cap S = {}
    BY <1>1 DEF NoLoop
  <2> QED
    BY <1>7, <2>1
<1> QED
  BY <1>1, <1>5, <1>7, <1>9, <1>10 DEF Sound

\* An operation left as it is, but for the order of its operands.
LEMMA LeaveStep == ASSUME IInv, VisitLeave PROVE IInv' /\ (InOrder => InOrder')
<1>1. PICK o : o = Head(todo)
  OBVIOUS
<1>2. PICK op : op = Visited
  OBVIOUS
<1>3. /\ o \in Live /\ op = canonicalize_commutative(ops[o])
      /\ todo' \in Seq(1..Len(ops)) /\ IsInjective(todo') /\ Range(todo') = Range(todo) \ {o}
  BY <1>1, <1>2, VisitFacts DEF VisitLeave, Visited
<1>4. /\ ops' = [ops EXCEPT ![o] = op] /\ changed' = (changed \/ const_first(ops[o]))
      /\ block' = block /\ outputs' = outputs /\ phase = "running" /\ phase' = "running"
  BY <1>1, <1>2 DEF VisitLeave, Visit
<1>5. /\ Sound(ops', Live, outputs) /\ Len(ops') = Len(ops)
      /\ \A u \in Live : Range(ops'[u].in) = Range(ops[u].in)
  BY <1>3, <1>4, ReorderKeeps
<1>6. Live' = Live
  BY <1>4 DEF Live
<1>7. Sound(ops, Live, outputs)'
  BY <1>4, <1>5, <1>6
<1>8. TypeInv'
  BY <1>3, <1>4, <1>5 DEF IInv, TypeInv
<1>9. Range(todo)' \subseteq Live'
  BY <1>3, <1>6 DEF IInv
<1>10. SweepCanonical'
  <2> SUFFICES ASSUME ~changed', NEW u \in Live' \ Range(todo')
               PROVE  Canonical(u)'
    BY DEF SweepCanonical
  <2>1. ~changed /\ ~const_first(ops[o])
    BY <1>4
  <2>2. op = ops[o] /\ ops' = ops
    <3>1. op = ops[o]
      BY <1>3, <2>1 DEF canonicalize_commutative
    <3>2. DOMAIN ops = 1..Len(ops)
      BY DEF IInv, Sound, Typed
    <3> QED
      BY <1>4, <3>1, <3>2 DEF IInv, Sound, Typed
  <2>3. Canonical(u)
    <3>1. CASE u = o
      <4>1. ~XorSelf(op) /\ ~SubOfConst(op) /\ Matching(op) = {}
        BY <1>2 DEF VisitLeave
      <4> QED
        BY <1>3, <2>1, <2>2, <3>1, <4>1, LeftIsCanonical
    <3>2. CASE u # o
      <4>1. u \in Live \ Range(todo)
        BY <1>3, <1>6, <3>2
      <4> QED
        BY <1>4, <2>1, <4>1 DEF IInv, SweepCanonical
    <3> QED
      BY <3>1, <3>2
  <2> QED
    BY <2>2, <2>3 DEF Canonical
<1>11. DoneAfterQuiet' /\ PanicsOnUnary'
  BY <1>4 DEF DoneAfterQuiet, PanicsOnUnary
<1>12. InOrder => InOrder'
  <2>1. \A k \in DOMAIN block : block[k] \in Live
    BY DEF Live, Range
  <2>2. \A k \in DOMAIN block : Range(ops'[block[k]].in) = Range(ops[block[k]].in)
    BY <1>5, <2>1
  <2> QED
    BY <1>4, <2>2 DEF InOrder
<1> QED
  BY <1>7, <1>8, <1>9, <1>10, <1>11, <1>12 DEF IInv
\* The loop stops at an operation of one operand, and nothing else changes.
LEMMA PanicStep == ASSUME IInv, VisitPanic PROVE IInv' /\ (InOrder => InOrder')
<1>1. PICK o : o = Head(todo)
  OBVIOUS
<1>2. PICK op : op = Visited
  OBVIOUS
<1>3. /\ o \in Live /\ op = canonicalize_commutative(ops[o])
      /\ todo' \in Seq(1..Len(ops)) /\ IsInjective(todo') /\ Range(todo') = Range(todo) \ {o}
  BY <1>1, <1>2, VisitFacts DEF VisitPanic, Visited
<1>4. /\ ops' = ops /\ block' = block /\ outputs' = outputs /\ phase' = "panicked"
      /\ IndexPanics(op)
  BY <1>2 DEF VisitPanic
<1>5. op = ops[o] /\ op.name \in VariadicBitwise /\ Len(op.in) = 1
  <2>1. /\ op.name \in VariadicBitwise /\ Len(op.in) < 2 /\ op.in \in Seq(Values)
        /\ op.name # "hw.constant" => verify(Seen(op))
    BY <1>3, <1>4, VisitedFacts DEF IndexPanics, IsOperation
  <2>2. verify(Seen(op)) => verify_variadic_bitwise(Seen(op))
    BY <2>1 DEF verify, Seen, BinaryArithmetic, VariadicBitwise, Unary, Reductions
  <2>3. Seen(op).in # << >>
    BY <2>1, <2>2 DEF verify_variadic_bitwise, VariadicBitwise
  <2>4. Seen(op).in = [k \in 1..Len(op.in) |-> TypeOf(ops, op.in[k])] /\ Len(op.in) \in Nat
    BY <2>1 DEF Seen
  <2>5. Len(op.in) = 1
    <3>1. PICK n \in Nat : n = Len(op.in)
      BY <2>4
    <3>2. n = 0 => Seen(op).in = << >>
      BY <2>4, <3>1
    <3>3. n < 2 /\ n # 0
      BY <2>1, <2>3, <3>1, <3>2
    <3>4. n = 1
      BY ONLY <3>3, n \in Nat
    <3> QED
      BY <3>1, <3>4
  <2>6. ~const_first(ops[o])
    <3> SUFFICES ASSUME const_first(ops[o]) PROVE FALSE
      OBVIOUS
    <3>1. PICK old : old = ops[o]
      OBVIOUS
    <3>2. old = [name |-> old.name, in |-> old.in, w |-> old.w, attr |-> old.attr]
      BY <1>3, <3>1, LiveFacts DEF IsOperation
    <3>3. op = [old EXCEPT !.in = <<old.in[2], old.in[1]>>]
      BY <1>3, <3>1 DEF canonicalize_commutative
    <3>4. op.in = <<old.in[2], old.in[1]>>
      BY <3>2, <3>3
    <3>5. Len(op.in) = 2
      BY ONLY <3>4
    <3> QED
      BY <2>5, <3>5
  <2> QED
    BY <1>3, <2>1, <2>5, <2>6, VisitedFacts
<1>6. Live' = Live
  BY <1>4 DEF Live
<1>7. Sound(ops, Live, outputs)' /\ TypeInv' /\ Range(todo)' \subseteq Live'
  BY <1>3, <1>4, <1>6 DEF IInv, TypeInv
<1>8. PanicsOnUnary'
  BY <1>3, <1>4, <1>5, <1>6 DEF PanicsOnUnary
<1>9. InOrder => InOrder'
  BY <1>4 DEF InOrder
<1> QED
  BY <1>4, <1>7, <1>8, <1>9 DEF IInv, SweepCanonical, DoneAfterQuiet

\* A sweep starts with every operation of the block before it.
LEMMA SweepStep == ASSUME IInv, NextSweep PROVE IInv' /\ (InOrder => InOrder')
<1>1. /\ ops' = ops /\ block' = block /\ outputs' = outputs /\ todo' = block
      /\ phase = "running" /\ phase' = "running"
  BY DEF NextSweep
<1>2. Live' = Live /\ Range(todo)' = Live
  BY <1>1 DEF Live
<1>3. Sound(ops, Live, outputs)' /\ TypeInv'
  BY <1>1, <1>2 DEF IInv, TypeInv
<1>4. SweepCanonical' /\ DoneAfterQuiet' /\ PanicsOnUnary'
  BY <1>1, <1>2 DEF SweepCanonical, DoneAfterQuiet, PanicsOnUnary
<1>5. InOrder => InOrder'
  BY <1>1 DEF InOrder
<1> QED
  BY <1>2, <1>3, <1>4, <1>5 DEF IInv

\* The loop ends, or nothing changes.
LEMMA EndStep == ASSUME IInv, Finish \/ UNCHANGED vars PROVE IInv' /\ (InOrder => InOrder')
<1>1. /\ ops' = ops /\ block' = block /\ outputs' = outputs /\ todo' = todo /\ changed' = changed
      /\ phase' = phase \/ (phase' = "done" /\ phase = "running" /\ todo = << >> /\ ~changed)
  BY DEF Finish, vars
<1>2. Live' = Live
  BY <1>1 DEF Live
<1>3. Sound(ops, Live, outputs)' /\ TypeInv' /\ Range(todo)' \subseteq Live'
  BY <1>1, <1>2 DEF IInv, TypeInv
<1>4. \A o : Canonical(o)' <=> Canonical(o)
  BY <1>1 DEF Canonical
<1>5. SweepCanonical' /\ DoneAfterQuiet' /\ PanicsOnUnary'
  BY <1>1, <1>2, <1>4 DEF IInv, SweepCanonical, DoneAfterQuiet, PanicsOnUnary
<1>6. InOrder => InOrder'
  BY <1>1 DEF InOrder
<1> QED
  BY <1>3, <1>5, <1>6 DEF IInv

\* The loop starts on a block that verifies, before its first sweep.
LEMMA InitInv == ASSUME Init PROVE IInv
<1>1. PICK b \in Blocks : ops = b.ops /\ block = b.block /\ outputs = b.outputs
  BY DEF Init
<1>2. /\ ops \in Seq(Range(ops)) /\ \A op \in Range(ops) : IsOperation(op)
      /\ block \in Seq(DOMAIN ops) /\ IsInjective(block) /\ outputs \in Seq(Values)
      /\ Verified(ops, Live, outputs) /\ NoLoop(ops, Live)
  BY <1>1, BlocksAssumption DEF Live
<1>3. DOMAIN ops = 1..Len(ops) /\ Len(ops) \in Nat
  BY <1>2
<1>4. Typed(ops)
  BY <1>2 DEF Typed, Range
<1>5. Live \in SUBSET (1..Len(ops))
  BY <1>2, <1>3, Elements DEF Live
<1>6. Sound(ops, Live, outputs)
  BY <1>2, <1>4, <1>5 DEF Sound
<1>7. /\ todo = << >> /\ todo \in Seq(1..Len(ops)) /\ Range(todo) = {} /\ IsInjective(todo)
      /\ changed = TRUE /\ phase = "running"
  BY DEF Init, IsInjective, Range
<1> QED
  BY <1>2, <1>3, <1>6, <1>7 DEF IInv, TypeInv, SweepCanonical, DoneAfterQuiet, PanicsOnUnary

\* Every step of the loop.
LEMMA NextInv == ASSUME IInv, [Next]_vars PROVE IInv' /\ (InOrder => InOrder')
<1>1. CASE NextSweep
  BY <1>1, SweepStep
<1>2. CASE Finish \/ UNCHANGED vars
  BY <1>2, EndStep
<1>3. CASE VisitReplace
  BY <1>3, ReplaceStep
<1>4. CASE VisitXorSelf
  BY <1>4, XorSelfStep
<1>5. CASE VisitSub
  BY <1>5, SubStep
<1>6. CASE VisitLeave
  BY <1>6, LeaveStep
<1>7. CASE VisitPanic
  BY <1>7, PanicStep
<1>8. CASE Returned
  BY <1>8, EndStep DEF Returned
<1> QED
  BY <1>1, <1>2, <1>3, <1>4, <1>5, <1>6, <1>7, <1>8 DEF Next

\* canonicalize_block, on any block that verifies and has no loop: what it leaves
\* has neither, and the loop panics on no other operation than and, or, xor of one operand.
THEOREM StaysSound == Spec => []IInv
<1>1. Init => IInv
  BY InitInv
<1>2. IInv /\ [Next]_vars => IInv'
  BY NextInv
<1> QED
  BY <1>1, <1>2, PTL DEF Spec

\* Between any two rewrites the block is one the verifiers accept, and no use in it
\* or in the sweep's snapshot is left of an operation that was erased.
THEOREM BlockWellFormed == Spec => []WellFormed
<1>1. IInv => WellFormed
  BY DEF IInv, Sound, WellFormed
<1> QED
  BY <1>1, StaysSound, PTL

\* When the loop ends every operation has the form that canonicalization.rs:3-7 promises.
THEOREM EndsCanonical == Spec => []CanonicalForm
<1>1. IInv => CanonicalForm
  <2> SUFFICES ASSUME IInv, phase = "done", NEW o \in Live PROVE Canonical(o)
    BY DEF CanonicalForm
  <2>1. todo = << >> /\ ~changed /\ phase # "panicked"
    BY DEF IInv, DoneAfterQuiet
  <2>2. Range(todo) = {}
    BY <2>1 DEF Range
  <2> QED
    BY <2>1, <2>2 DEF IInv, SweepCanonical
<1> QED
  BY <1>1, StaysSound, PTL

\* A block in which definitions precede their uses stays one, whatever is rewritten.
THEOREM StaysInOrder == Spec => OrderPreserved
<1>1. IInv /\ [Next]_vars => [InOrder => InOrder']_vars
  BY NextInv
<1> QED
  BY <1>1, StaysSound, PTL DEF Spec, OrderPreserved

-----------------------------------------------------------------------------
(* fold_comb_op, the other use of the evaluators and the verifiers.         *)

Divisions == {"comb.divu", "comb.divs", "comb.modu", "comb.mods"}

\* Constants that stand for the operands of an operation.
Stand(o, s) ==
  /\ DOMAIN s = DOMAIN o.in
  /\ \A k \in DOMAIN o.in : s[k] \in ConstantsOf(o.in[k]) /\ s[k] # Unknown

\* What the operation makes of them.
Result(o, s) == Evaluate(o.name, o.attr, o.out.width, s)

\* A value of a constant operand has the width of its type.
LEMMA StandWidth ==
  ASSUME NEW o, NEW s, Stand(o, s), NEW k \in DOMAIN o.in
  PROVE  s[k].bw = o.in[k].width
<1>1. s[k] \in ConstantsOf(o.in[k]) /\ s[k] # Unknown
  BY DEF Stand
<1>2. \E n : s[k] = [bw |-> o.in[k].width, v |-> n]
  BY <1>1 DEF ConstantsOf
<1> QED
  BY <1>2

\* What is folded has the width of the result, whatever the operation, and only a zero
\* divisor is an error.
LEMMA FoldsToWidth ==
  ASSUME NEW o \in Operations, verify(o), NEW s, Stand(o, s)
  PROVE  IF o.name \in Divisions /\ s[2].v = 0
           THEN Result(o, s).err \in Undefined
           ELSE Result(o, s).err = "none" /\ Result(o, s).value.bw = o.out.width
<1>1. /\ o.in \in Seq(OperandTypes) /\ o.out \in OperandTypes
      /\ o.name \in {"comb.extract", "comb.replicate"} => o.attr \in Nat
  BY OperationsAssumption
<1>2. DOMAIN o.in = 1..Len(o.in) /\ Len(o.in) \in Nat /\ DOMAIN s = DOMAIN o.in
  BY <1>1 DEF Stand
<1>3. \A k \in DOMAIN o.in : s[k].bw = o.in[k].width /\ o.in[k].width \in Nat
  <2>1. \A k \in DOMAIN o.in : o.in[k] \in OperandTypes
    BY <1>1, Elements
  <2> QED
    BY <2>1, StandWidth DEF OperandTypes
<1>4. \A w, n : Wrap(w, n).bw = w
  BY DEF Wrap
<1>5. \A x : Ok(x).err = "none" /\ Ok(x).value = x
  BY DEF Ok
<1>6. ASSUME NEW b PROVE Truth(b).err = "none" /\ Truth(b).value.bw = 1
  <2>1. PICK n : n = IF b THEN 1 ELSE 0
    OBVIOUS
  <2>2. Truth(b) = Ok(Wrap(1, n))
    BY <2>1 DEF Truth
  <2> QED
    BY <1>4, <1>5, <2>2
<1>w. \A w, bits : FromBits(w, bits).bw = w
  BY DEF FromBits
<1>7. CASE o.name \in BinaryArithmetic
  <2>1. /\ 1 \in DOMAIN o.in /\ 2 \in DOMAIN o.in
        /\ o.in[1].width = o.in[2].width /\ o.out.width = o.in[1].width
    BY <1>2, <1>7 DEF verify, verify_binary_arithmetic, BinaryArithmetic,
                      VariadicBitwise, Unary, Reductions
  <2>2. s[1].bw = o.out.width /\ s[2].bw = o.out.width
    BY <1>3, <2>1
  <2>3. CASE o.name \in Divisions
    <3>1. Result(o, s) = eval_division(o.name, s[1], s[2])
      BY <2>3 DEF Result, Evaluate, Divisions, VariadicBitwise
    <3>2. s[2].v = 0 => Result(o, s).err \in Undefined
      BY <2>2, <3>1 DEF eval_division, Err, Undefined
    <3>3. s[2].v # 0 => Result(o, s).err = "none" /\ Result(o, s).value.bw = o.out.width
      <4>1. ASSUME s[2].v # 0 PROVE \E n : Result(o, s) = Ok(Wrap(s[1].bw, n))
        <5> DEFINE a == s[1]
                   b == s[2]
        <5>1. CASE o.name = "comb.divu"
          BY <2>2, <3>1, <4>1, <5>1 DEF eval_division
        <5>2. CASE o.name = "comb.divs"
          BY <2>2, <3>1, <4>1, <5>2 DEF eval_division
        <5>3. CASE o.name = "comb.modu"
          BY <2>2, <3>1, <4>1, <5>3 DEF eval_division
        <5>4. CASE o.name = "comb.mods"
          BY <2>2, <3>1, <4>1, <5>4 DEF eval_division
        <5> QED
          BY <2>3, <5>1, <5>2, <5>3, <5>4 DEF Divisions
      <4> QED
        BY <1>4, <1>5, <2>2, <4>1
    <3> QED
      BY <2>3, <3>2, <3>3
  <2>4. CASE o.name \notin Divisions
    <3>1. Result(o, s) = eval_wrapping(o.name, s[1], s[2])
      BY <1>7, <2>4 DEF Result, Evaluate, Divisions, BinaryArithmetic, VariadicBitwise
    <3>2. \E n : Result(o, s) = Ok(Wrap(s[1].bw, n))
      BY <1>7, <2>2, <2>4, <3>1 DEF eval_wrapping, Divisions, BinaryArithmetic
    <3> QED
      BY <1>4, <1>5, <2>2, <2>4, <3>2
  <2> QED
    BY <2>3, <2>4
<1>8. CASE o.name \in VariadicBitwise
  <2>1. o.in # << >> /\ o.out.width = o.in[1].width
        /\ \A i \in DOMAIN o.in : o.in[i].width = o.in[1].width
    BY <1>8 DEF verify, verify_variadic_bitwise, BinaryArithmetic,
                VariadicBitwise, Unary, Reductions
  <2>2. 1 \in DOMAIN o.in
    BY <1>1, <1>2, <2>1
  <2>3. s # << >> /\ \A k \in DOMAIN s : s[k].bw = s[1].bw
    BY <1>2, <1>3, <2>1, <2>2
  <2>4. Result(o, s) = eval_bitwise(o.name, s)
    BY <1>8 DEF Result, Evaluate, VariadicBitwise
  <2>5. Result(o, s).err = "none" /\ Result(o, s).value.bw = s[1].bw
    BY <1>5, <2>3, <2>4, <1>w DEF eval_bitwise
  <2> QED
    BY <1>3, <1>8, <2>1, <2>2, <2>5 DEF VariadicBitwise, Divisions
<1>9. CASE o.name \in Unary
  <2>1. 1 \in DOMAIN o.in /\ o.out.width = o.in[1].width
    BY <1>2, <1>9 DEF verify, verify_unary, BinaryArithmetic,
                      VariadicBitwise, Unary, Reductions
  <2>2. Result(o, s) = IF o.name = "comb.not" THEN eval_not(s[1]) ELSE eval_neg(s[1])
    BY <1>9 DEF Result, Evaluate, VariadicBitwise, Unary
  <2>3. Result(o, s).err = "none" /\ Result(o, s).value.bw = s[1].bw
    BY <1>4, <1>5, <2>2, <1>w DEF eval_not, eval_neg
  <2> QED
    BY <1>3, <1>9, <2>1, <2>3 DEF Unary, Divisions
<1>10. CASE o.name \in Reductions \/ o.name = "comb.icmp"
  <2>1. o.out.width = 1
    BY <1>10 DEF verify, verify_reduction, verify_icmp, verify_i1,
                 BinaryArithmetic, VariadicBitwise, Unary, Reductions
  <2>2. CASE o.name \in Reductions
    <3>1. \E b : Result(o, s) = Truth(b)
      <4>1. o.name = "comb.any" => Result(o, s) = eval_any(s[1])
        BY DEF Result, Evaluate, VariadicBitwise
      <4>2. o.name = "comb.all" => Result(o, s) = eval_all(s[1])
        BY DEF Result, Evaluate, VariadicBitwise
      <4>3. o.name = "comb.parity" => Result(o, s) = eval_parity(s[1])
        BY DEF Result, Evaluate, VariadicBitwise
      <4> QED
        BY <2>2, <4>1, <4>2, <4>3 DEF Reductions, eval_any, eval_all, eval_parity
    <3> QED
      BY <1>6, <2>1, <2>2, <3>1 DEF Reductions, Divisions
  <2>3. CASE o.name = "comb.icmp"
    <3>1. 1 \in DOMAIN o.in /\ 2 \in DOMAIN o.in /\ o.in[1].width = o.in[2].width
      BY <1>2, <2>3 DEF verify, verify_icmp,
                        BinaryArithmetic, VariadicBitwise, Unary, Reductions
    <3>2. Result(o, s) = eval_icmp(o.attr, s[1], s[2])
      BY <2>3 DEF Result, Evaluate, VariadicBitwise
    <3>3. s[1].bw = s[2].bw
      BY <1>3, <3>1
    <3>4. \E b : Result(o, s) = Truth(b)
      BY <3>2, <3>3 DEF eval_icmp
    <3> QED
      BY <1>6, <2>1, <2>3, <3>4 DEF Divisions
  <2> QED
    BY <1>10, <2>2, <2>3
<1>11. CASE o.name = "comb.mux"
  <2>1. /\ 1 \in DOMAIN o.in /\ 2 \in DOMAIN o.in /\ 3 \in DOMAIN o.in
        /\ o.in[1].width = 1 /\ o.in[2] = o.in[3] /\ o.out = o.in[2]
    BY <1>2, <1>11 DEF verify, verify_mux, verify_i1,
                       BinaryArithmetic, VariadicBitwise, Unary, Reductions
  <2>2. Result(o, s) = eval_mux(s[1], s[2], s[3])
    BY <1>11 DEF Result, Evaluate, VariadicBitwise
  <2>3. s[1].bw = 1 /\ s[2].bw = o.out.width /\ s[3].bw = o.out.width
    BY <1>3, <2>1
  <2> QED
    BY <1>5, <1>11, <2>2, <2>3 DEF eval_mux, Divisions
<1>12. CASE o.name = "comb.concat"
  <2>1. o.in # << >> /\ o.out.width = TotalWidth(o.in)
    BY <1>12 DEF verify, verify_concat,
                 BinaryArithmetic, VariadicBitwise, Unary, Reductions
  <2>2. s # << >> /\ Len(s) = Len(o.in)
    <3>1. 1 \in DOMAIN s
      BY <1>1, <1>2, <2>1
    <3>2. Len(s) = Len(o.in)
      BY <1>2
    <3> QED
      BY <3>1, <3>2
  <2>3. TotalWidth(o.in) = WidthUpTo(s, Len(s))
    <3>1. [k \in DOMAIN o.in |-> o.in[k].width] = [k \in 1..Len(s) |-> s[k].bw]
      BY <1>2, <1>3, <2>2
    <3> QED
      BY <3>1 DEF TotalWidth, WidthUpTo
  <2>4. Result(o, s) = eval_concat(s)
    BY <1>12 DEF Result, Evaluate, VariadicBitwise
  <2>5. Result(o, s).err = "none" /\ Result(o, s).value.bw = WidthUpTo(s, Len(s))
    BY <1>5, <2>2, <2>4, <1>w DEF eval_concat
  <2> QED
    BY <1>12, <2>1, <2>3, <2>5 DEF Divisions
<1>13. CASE o.name = "comb.extract"
  <2>1. /\ 1 \in DOMAIN o.in /\ o.out.width > 0
        /\ o.attr + o.out.width <= o.in[1].width
    BY <1>2, <1>13 DEF verify, verify_extract, verify_integer_type,
                       BinaryArithmetic, VariadicBitwise, Unary, Reductions
  <2>2. Result(o, s) = eval_extract(s[1], o.attr, o.out.width)
    BY <1>13 DEF Result, Evaluate, VariadicBitwise
  <2>3. o.attr \in Nat /\ o.out.width \in Nat /\ s[1].bw = o.in[1].width /\ s[1].bw \in Nat
    BY <1>1, <1>3, <1>13, <2>1 DEF OperandTypes
  <2>4. o.out.width # 0 /\ ~(o.attr + o.out.width > s[1].bw)
    BY <2>1, <2>3
  <2>5. Result(o, s).err = "none" /\ Result(o, s).value.bw = o.out.width
    BY <1>5, <2>2, <2>4, <1>w DEF eval_extract
  <2> QED
    BY <1>13, <2>5 DEF Divisions
<1>14. CASE o.name = "comb.replicate"
  <2>1. /\ 1 \in DOMAIN o.in /\ o.attr > 0
        /\ o.out.width = o.in[1].width * o.attr
    BY <1>2, <1>14 DEF verify, verify_replicate,
                       BinaryArithmetic, VariadicBitwise, Unary, Reductions
  <2>2. Result(o, s) = eval_replicate(s[1], o.attr)
    BY <1>14 DEF Result, Evaluate, VariadicBitwise
  <2>3. o.attr # 0 /\ s[1].bw * o.attr = o.out.width
    BY <1>1, <1>3, <1>14, <2>1
  <2>4. Result(o, s).err = "none" /\ Result(o, s).value.bw = s[1].bw * o.attr
    BY <1>5, <2>2, <2>3, <1>w DEF eval_replicate
  <2> QED
    BY <1>14, <2>3, <2>4 DEF Divisions
<1> QED
  BY <1>7, <1>8, <1>9, <1>10, <1>11, <1>12, <1>13, <1>14 DEF verify

\* The operation is one the verifier accepts, on operands of its types, until it is
\* answered with what it makes of them.
FoldInv ==
  /\ operation \in Operations /\ verify(operation)
  /\ DOMAIN operands = DOMAIN operation.in
  /\ \A k \in DOMAIN operation.in : operands[k] \in ConstantsOf(operation.in[k])
  /\ Known =>
       answer = LET r == Result(operation, operands)
                IN IF r.err \in Undefined THEN NotFolded ELSE r

\* An accepted operation on constants is folded to a value of the width of its result
\* type, and only a zero divisor stops it, whatever the widths.
THEOREM VerifiedOpsFold == FoldSpec => []VerifiedFolds
<1>1. FoldInit => FoldInv
  <2> SUFFICES ASSUME FoldInit PROVE FoldInv
    OBVIOUS
  <2>1. operation \in Operations /\ verify(operation) /\ answer = Pending
    BY DEF FoldInit
  <2>2. operation.in \in Seq(OperandTypes)
    BY <2>1, OperationsAssumption
  <2>3. DOMAIN operation.in = 1..Len(operation.in)
    BY <2>2
  <2>4. /\ operands \in [1..Len(operation.in) ->
                          UNION {ConstantsOf(operation.in[k]) : k \in DOMAIN operation.in}]
        /\ \A k \in DOMAIN operation.in : operands[k] \in ConstantsOf(operation.in[k])
    BY DEF FoldInit
  <2> QED
    BY <2>1, <2>3, <2>4 DEF FoldInv, Known
<1>2. FoldInv /\ [FoldNext]_fold_vars => FoldInv'
  <2> SUFFICES ASSUME FoldInv, [FoldNext]_fold_vars PROVE FoldInv'
    OBVIOUS
  <2>1. operation' = operation /\ operands' = operands
    BY DEF FoldNext, fold_comb_op, Answered, fold_vars
  <2>2. CASE fold_comb_op
    <3>1. Known' => answer' = LET r == Result(operation, operands)
                              IN IF r.err \in Undefined THEN NotFolded ELSE r
      BY <2>1, <2>2 DEF fold_comb_op, Known, Result, FoldInv
    <3> QED
      BY <2>1, <3>1 DEF FoldInv
  <2>3. CASE answer' = answer
    BY <2>1, <2>3 DEF FoldInv, Known
  <2> QED
    BY <2>2, <2>3 DEF FoldNext, Answered, fold_vars
<1>3. FoldInv => VerifiedFolds
  <2> SUFFICES ASSUME FoldInv, Known
               PROVE  IF operation.name \in Divisions /\ operands[2].v = 0
                        THEN answer = NotFolded
                        ELSE answer.err = "none" /\ answer.value.bw = operation.out.width
    BY DEF VerifiedFolds, Divisions
  <2>1. Stand(operation, operands)
    BY DEF FoldInv, Known, Stand
  <2>2. PICK r : r = Result(operation, operands)
    OBVIOUS
  <2>3. IF operation.name \in Divisions /\ operands[2].v = 0
          THEN r.err \in Undefined
          ELSE r.err = "none" /\ r.value.bw = operation.out.width
    BY <2>1, <2>2, FoldsToWidth DEF FoldInv
  <2>4. "none" \notin Undefined
    BY DEF Undefined
  <2>5. answer = IF r.err \in Undefined THEN NotFolded ELSE r
    BY <2>2 DEF FoldInv
  <2> QED
    BY <2>3, <2>4, <2>5
<1> QED
  BY <1>1, <1>2, <1>3, PTL DEF FoldSpec
=============================================================================
