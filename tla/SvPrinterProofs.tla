-------------------------- MODULE SvPrinterProofs --------------------------
(***************************************************************************)
(* What render_module prints of any body that is built before it.          *)
(*                                                                         *)
(* The statements are those of the operations printed so far, and a target *)
(* is declared by the first operation that has it.  What validate_module   *)
(* says of targets is then true of the names in the text.                  *)
(***************************************************************************)
EXTENDS SvPrinter, FiniteSetTheorems, WellFoundedInduction, TLAPS

\* Operations with ids of their own below next, whose operands are values made
\* by operations with smaller ids.
IsBody(b, next) ==
  /\ b \in Seq(Range(b)) /\ next \in Nat /\ Len(Inputs) < next
  /\ \A op \in Range(b) : WellBuilt(op) /\ op.id \in Nat /\ Len(Inputs) < op.id /\ op.id < next
  /\ \A o, p \in Range(b) : o.id = p.id => o = p
  /\ \A op \in Range(b) : \A v \in Range(op.in) : v \in Values(b) /\ v < op.id

\* The operations of which the printer declares the target.
Declaring == Declarations \cup Implicit

DeclaredBy(b, n) == {b[j].target : j \in {i \in 1..n : b[i].kind \in Declaring}}

IsFirst(b, j) ==
  /\ b[j].kind \in Declaring
  /\ \A i \in 1..(j - 1) : b[i].kind \in Declaring => b[i].target # b[j].target

\* The names known and the declarations made after n operations.
Lists(b, n, known, list) ==
  /\ known = InputNames \cup DeclaredBy(b, n)
  /\ list \in Seq(Range(list))
  /\ \A i, j \in DOMAIN list : list[i].name = list[j].name => i = j
  /\ {list[i].name : i \in DOMAIN list} = known \ InputNames
  /\ \A j \in 1..n : IsFirst(b, j) /\ b[j].target \notin InputNames =>
       \E i \in DOMAIN list : list[i].name = b[j].target /\ list[i].ty = DeclaredType(b, b[j])

\* The statements after n operations: one for each operation that is printed.
Texts(b, n, list) ==
  /\ list \in Seq(Range(list))
  /\ \E from \in [1..Len(list) -> 1..n] :
       /\ \A i, j \in 1..Len(list) : from[i] = from[j] => i = j
       /\ \A i \in 1..Len(list) :
            b[from[i]].kind \in Printable /\ list[i] = Rendered(b, b[from[i]])
       /\ \A j \in 1..n : b[j].kind \in Printable => \E i \in 1..Len(list) : from[i] = j

Header == [i \in DOMAIN Inputs |-> [dir |-> "input", ty |-> Inputs[i].ty, name |-> Inputs[i].name]]

Fresh ==
  status = "building" => pos = 0 /\ declarations = << >> /\ statements = << >>

Progress ==
  status \in {"printing", "ok"} =>
    /\ Verified(body) /\ ports = Header
    /\ pos \in 0..Len(body) /\ (status = "ok" => pos = Len(body))
    /\ \A j \in 1..pos : body[j].kind \in Declarations \cup Printable \cup Omitted
    /\ Texts(body, pos, statements) /\ Lists(body, pos, declared_names, declarations)

IInv == IsBody(body, next_id) /\ Fresh /\ Progress

-----------------------------------------------------------------------------
(* A walk over the operands of values.                                      *)

\* A set of positive numbers with a bound has a least element.
LEMMA LeastElement ==
  ASSUME NEW n \in Nat, NEW T \in SUBSET (1..n), T # {}
  PROVE  \E x \in T : \A y \in T : x <= y
<1> DEFINE S == 1..n
           below == {1..x : x \in T}
<1>1. IsWellFoundedOn(StrictSubsetOrdering(S), SUBSET S)
  <2>1. IsFiniteSet(S)
    BY FS_Interval
  <2>2. FiniteSubsetsOf(S) = SUBSET S
    BY <2>1, FS_FiniteSubsetsOfFinite
  <2> QED
    BY <2>2, FS_StrictSubsetOrderingWellFounded
<1>2. below \subseteq SUBSET S
  <2> SUFFICES ASSUME NEW x \in T PROVE 1..x \subseteq S
    OBVIOUS
  <2> QED
    OBVIOUS
<1>3. below # {}
  OBVIOUS
<1>4. PICK low \in below : \A y \in below : ~(<<y, low>> \in StrictSubsetOrdering(S))
  <2> HIDE DEF below
  <2> QED
    BY <1>1, <1>2, <1>3, WFMin
<1>5. PICK x \in T : low = 1..x
  OBVIOUS
<1>6. ASSUME NEW y \in T, y < x PROVE FALSE
  <2>1. 1..y \in below /\ 1..y \subseteq low /\ 1..y # low
    BY <1>5, <1>6
  <2> QED
    BY <1>2, <1>4, <2>1 DEF StrictSubsetOrdering
<1> QED
  BY <1>6

\* g gives a value in E the names of its operands, and any other its own.
Walks(g, V, E, operands, names) ==
  g = [w \in V |-> IF w \in E THEN UNION {g[u] : u \in operands[w]} ELSE {names[w]}]

\* The values, numbered so that every operand of a value comes before it.
Numbered(V, operands, n) ==
  /\ n \in Nat /\ \A w \in V : w \in 1..n
  /\ \A w \in V : \A u \in operands[w] : u \in V /\ u < w

\* The walk over the values up to m ends.
Ends(V, E, operands, names, m) == \E g : Walks(g, {w \in V : w <= m}, E, operands, names)

\* One value more.
LEMMA WalkStep ==
  ASSUME NEW n, NEW V, NEW E, NEW operands, NEW names, Numbered(V, operands, n),
         NEW m \in 1..n, Ends(V, E, operands, names, m - 1)
  PROVE  Ends(V, E, operands, names, m)
<1>1. n \in Nat /\ \A w \in V : w \in Nat /\ 1 <= w /\ w <= n /\ m \in Nat
  BY DEF Numbered
<1>2. PICK before : before = {w \in V : w <= m - 1}
  OBVIOUS
<1>3. PICK upto : upto = {w \in V : w <= m}
  OBVIOUS
<1>4. PICK g : Walks(g, before, E, operands, names)
  BY <1>2 DEF Ends
<1>5. \A w \in upto : operands[w] \subseteq before
  <2> SUFFICES ASSUME NEW w \in upto, NEW u \in operands[w] PROVE u \in before
    OBVIOUS
  <2>1. w \in V /\ w \in Nat /\ w <= m
    BY <1>1, <1>3
  <2>2. u \in V /\ u < w
    BY <2>1 DEF Numbered
  <2>3. u \in Nat
    BY <1>1, <2>2
  <2> QED
    BY <1>1, <1>2, <2>1, <2>2, <2>3
<1>6. before \subseteq upto
  <2> SUFFICES ASSUME NEW w \in before PROVE w \in upto
    OBVIOUS
  <2>1. w \in V /\ w <= m - 1 /\ w \in Nat
    BY <1>1, <1>2
  <2> QED
    BY <1>1, <1>3, <2>1
<1> DEFINE value(w) == IF w \in E THEN UNION {g[u] : u \in operands[w]} ELSE {names[w]}
<1>7. PICK h : h = [w \in upto |-> value(w)]
  OBVIOUS
<1>8. \A w \in before : h[w] = g[w]
  <2> TAKE w \in before
  <2>1. g[w] = value(w)
    BY <1>4 DEF Walks
  <2> QED
    BY <1>6, <1>7, <2>1
<1>9. \A w \in upto : value(w) = IF w \in E THEN UNION {h[u] : u \in operands[w]} ELSE {names[w]}
  <2> TAKE w \in upto
  <2>1. {h[u] : u \in operands[w]} = {g[u] : u \in operands[w]}
    BY <1>5, <1>8
  <2> QED
    BY <2>1
<1>10. Walks(h, upto, E, operands, names)
  BY <1>7, <1>9 DEF Walks
<1> QED
  BY <1>3, <1>10 DEF Ends

\* The walk ends: it is a function of the values.
LEMMA WalkExists ==
  ASSUME NEW n, NEW V, NEW E, NEW operands, NEW names, Numbered(V, operands, n)
  PROVE  \E g : Walks(g, V, E, operands, names)
<1> DEFINE E0(m) == Ends(V, E, operands, names, m)
<1>1. n \in Nat /\ \A w \in V : w \in Nat /\ 1 <= w /\ w <= n
  BY DEF Numbered
<1>2. E0(0)
  <2>1. {w \in V : w <= 0} = {}
    BY <1>1
  <2>2. Walks([w \in {} |-> {}], {}, E, operands, names)
    BY DEF Walks
  <2> QED
    BY <2>1, <2>2 DEF Ends
<1>3. \A m \in 1..n : E0(m - 1) => E0(m)
  BY WalkStep
<1> HIDE DEF E0
<1>4. \A m \in 1..n : E0(m)
  <2> DEFINE Bad == {m \in 1..n : ~E0(m)}
  <2> SUFFICES ASSUME Bad # {} PROVE FALSE
    OBVIOUS
  <2>1. Bad \subseteq 1..n
    OBVIOUS
  <2>2. PICK m \in Bad : \A y \in Bad : m <= y
    <3> HIDE DEF Bad
    <3> QED
      BY <1>1, <2>1, LeastElement
  <2>3. m \in 1..n /\ ~E0(m)
    OBVIOUS
  <2>4. m - 1 = 0 \/ (m - 1 \in 1..n /\ ~(m <= m - 1))
    BY <1>1, <2>3
  <2>5. E0(m - 1)
    BY <1>2, <2>2, <2>4
  <2> QED
    BY <1>3, <2>3, <2>5
<1>5. {w \in V : w <= n} = V
  BY <1>1
<1>6. E0(n)
  <2>1. n = 0 \/ n \in 1..n
    BY <1>1
  <2> QED
    BY <1>2, <1>4, <2>1
<1> QED
  BY <1>5, <1>6 DEF E0, Ends

\* The names met in a walk are those of values outside E.
LEMMA WalkNames ==
  ASSUME NEW n, NEW V, NEW E, NEW operands, NEW names, Numbered(V, operands, n),
         NEW g, Walks(g, V, E, operands, names)
  PROVE  \A w \in V : g[w] \subseteq {names[u] : u \in V \ E}
<1> DEFINE own == {names[u] : u \in V \ E}
           Bad == {w \in V : ~(g[w] \subseteq own)}
<1> SUFFICES ASSUME Bad # {} PROVE FALSE
  OBVIOUS
<1>1. n \in Nat /\ \A w \in V : w \in Nat /\ 1 <= w /\ w <= n
  BY DEF Numbered
<1>2. PICK w \in Bad : \A y \in Bad : w <= y
  <2>1. Bad \in SUBSET (1..n)
    BY <1>1
  <2> HIDE DEF Bad
  <2> QED
    BY <1>1, <2>1, LeastElement
<1>3. g[w] = IF w \in E THEN UNION {g[u] : u \in operands[w]} ELSE {names[w]}
  BY DEF Walks
<1>4. \A u \in operands[w] : u \in V /\ u < w /\ u \in Nat /\ w \in Nat
  BY <1>1 DEF Numbered
<1>5. \A u \in operands[w] : g[u] \subseteq own
  BY <1>2, <1>4
<1>6. CASE w \in E
  <2>1. g[w] = UNION {g[u] : u \in operands[w]}
    BY <1>3, <1>6
  <2> HIDE DEF own
  <2>2. g[w] \subseteq own
    BY <1>5, <2>1
  <2> QED
    BY <2>2
<1>7. CASE w \notin E
  BY <1>3, <1>7
<1> QED
  BY <1>6, <1>7

-----------------------------------------------------------------------------
(* The body.                                                                *)

\* The inputs are the numbers up to their count.
LEMMA InputNumbers == Len(Inputs) \in Nat /\ \A v : IsInput(v) <=> v \in 1..Len(Inputs)
  BY InputsAssumption DEF InputsAssumption, IsInput

\* A value of a body is an input or the result of its defining operation.
LEMMA Defined ==
  ASSUME NEW b, NEW next, IsBody(b, next), NEW v \in Values(b), ~IsInput(v)
  PROVE  /\ DefiningOp(b, v) \in Range(b) /\ DefiningOp(b, v).id = v
         /\ DefiningOp(b, v).ty # NoType
<1>1. PICK op \in Range(b) : op.id = v /\ op.ty # NoType
  BY DEF Values, IsInput
<1>2. DefiningOp(b, v) \in Range(b) /\ DefiningOp(b, v).id = v
  BY <1>1 DEF DefiningOp
<1>3. DefiningOp(b, v) = op
  BY <1>1, <1>2 DEF IsBody
<1> QED
  BY <1>1, <1>2, <1>3

\* The operation with an id is the defining operation of that id.
LEMMA Defining ==
  ASSUME NEW b, NEW next, IsBody(b, next), NEW op \in Range(b)
  PROVE  DefiningOp(b, op.id) = op /\ ~IsInput(op.id)
<1>1. DefiningOp(b, op.id) \in Range(b) /\ DefiningOp(b, op.id).id = op.id
  BY DEF DefiningOp
<1> QED
  BY <1>1, InputNumbers DEF IsBody

\* The names of the values of a body that are not expressions.
LeafNames(b) == {value_name(b, w) : w \in {u \in Values(b) : ~IsExpression(b, u)}}

\* render_expr writes the names of values that are no expressions.
LEMMA ReadsLeaves ==
  ASSUME NEW b, NEW next, IsBody(b, next), NEW v \in Values(b)
  PROVE  Reads(b, v) \subseteq LeafNames(b)
<1> DEFINE operandsOf(w) == IF IsExpression(b, w) THEN Range(DefiningOp(b, w).in) ELSE {}
<1>1. PICK V : V = Values(b)
  OBVIOUS
<1>2. PICK operands : operands = [w \in V |-> operandsOf(w)]
  OBVIOUS
<1>3. PICK names : names = [w \in V |-> value_name(b, w)]
  OBVIOUS
<1>4. PICK E : E = {w \in V : IsExpression(b, w)}
  OBVIOUS
<1>5. Numbered(V, operands, next - 1)
  <2>1. next - 1 \in Nat
    BY InputNumbers DEF IsBody
  <2>2. ASSUME NEW w \in V PROVE w \in 1..(next - 1)
    <3>1. CASE IsInput(w)
      BY <3>1, InputNumbers DEF IsBody
    <3>2. CASE ~IsInput(w)
      <4>1. DefiningOp(b, w) \in Range(b) /\ DefiningOp(b, w).id = w
        BY <1>1, <3>2, Defined
      <4> QED
        BY <4>1, InputNumbers DEF IsBody
    <3> QED
      BY <3>1, <3>2
  <2>3. ASSUME NEW w \in V, NEW u \in operands[w] PROVE u \in V /\ u < w
    <3>1. IsExpression(b, w) /\ u \in Range(DefiningOp(b, w).in)
      BY <1>2, <2>3
    <3>2. DefiningOp(b, w) \in Range(b) /\ DefiningOp(b, w).id = w
      BY <1>1, <3>1, Defined DEF IsExpression
    <3> QED
      BY <1>1, <3>1, <3>2 DEF IsBody
  <2> QED
    BY <2>1, <2>2, <2>3 DEF Numbered
<1> DEFINE step(g) == [w \in Values(b) |->
                         IF IsExpression(b, w) THEN UNION {g[u] : u \in Range(DefiningOp(b, w).in)}
                         ELSE {value_name(b, w)}]
<1>6. \A g : Walks(g, V, E, operands, names) <=> g = step(g)
  <2> TAKE g
  <2>1. \A w \in V : (IF w \in E THEN UNION {g[u] : u \in operands[w]} ELSE {names[w]})
                     = IF IsExpression(b, w) THEN UNION {g[u] : u \in Range(DefiningOp(b, w).in)}
                       ELSE {value_name(b, w)}
    BY <1>2, <1>3, <1>4
  <2> QED
    BY <1>1, <2>1 DEF Walks
<1>7. PICK g : Walks(g, V, E, operands, names) /\ Reads(b, v) = g[v]
  <2>1. \E g : g = step(g)
    BY <1>5, <1>6, WalkExists
  <2>2. PICK g : g = step(g) /\ g = CHOOSE h : h = step(h)
    BY <2>1
  <2>3. Reads(b, v) = g[v]
    BY <2>2 DEF Reads
  <2>4. Walks(g, V, E, operands, names)
    <3>1. g = step(g)
      BY <2>2
    <3> HIDE DEF step
    <3> QED
      BY <1>6, <3>1
  <2> QED
    BY <2>3, <2>4
<1>8. g[v] \subseteq {names[u] : u \in V \ E}
  BY <1>1, <1>5, <1>7, WalkNames
<1>9. {names[u] : u \in V \ E} \subseteq LeafNames(b)
  BY <1>1, <1>3, <1>4 DEF LeafNames
<1> QED
  BY <1>7, <1>8, <1>9

\* A sequence with one element more.
LEMMA OneMore ==
  ASSUME NEW s, s \in Seq(Range(s)), NEW x
  PROVE  /\ Append(s, x) \in Seq(Range(Append(s, x)))
         /\ Range(Append(s, x)) = Range(s) \cup {x}
         /\ Len(s) \in Nat /\ Len(Append(s, x)) = Len(s) + 1
         /\ DOMAIN s = 1..Len(s) /\ DOMAIN Append(s, x) = 1..(Len(s) + 1)
         /\ \A i \in 1..Len(s) : Append(s, x)[i] = s[i]
         /\ Append(s, x)[Len(s) + 1] = x
<1>1. PICK S : S = Range(s) \cup {x}
  OBVIOUS
<1>2. s \in Seq(S) /\ x \in S
  BY <1>1
<1>3. PICK t : t = Append(s, x)
  OBVIOUS
<1>4. PICK n \in Nat : n = Len(s)
  BY <1>2
<1>5. /\ DOMAIN s = 1..n /\ t \in Seq(S) /\ Len(t) = n + 1 /\ DOMAIN t = 1..(n + 1)
      /\ (\A i \in 1..n : t[i] = s[i]) /\ t[n + 1] = x
  BY <1>2, <1>3, <1>4
<1>6. Range(t) = S
  <2>1. Range(s) = {s[i] : i \in 1..n} /\ Range(t) = {t[i] : i \in 1..(n + 1)}
    BY <1>5 DEF Range
  <2>2. \A i \in 1..(n + 1) : i \in 1..n \/ i = n + 1
    BY <1>4
  <2>3. \A i \in 1..n : i \in 1..(n + 1)
    BY <1>4
  <2>4. n + 1 \in 1..(n + 1)
    BY <1>4
  <2> QED
    BY <1>1, <1>5, <2>1, <2>2, <2>3, <2>4
<1> QED
  BY <1>1, <1>3, <1>4, <1>5, <1>6

\* Two sequences in a row.
LEMMA InARow ==
  ASSUME NEW S, NEW a \in Seq(S), NEW b \in Seq(S), NEW la \in Nat, la = Len(a),
         NEW lb \in Nat, lb = Len(b)
  PROVE  /\ a \o b \in Seq(S) /\ Len(a \o b) = la + lb
         /\ \A i \in 1..la : (a \o b)[i] = a[i]
         /\ \A i \in 1..lb : (a \o b)[la + i] = b[i]
  OBVIOUS

\* A sequence with one element less.
LEMMA OneLess ==
  ASSUME NEW s, s \in Seq(Range(s)), NEW k \in DOMAIN s
  PROVE  /\ RemoveAt(s, k) \in Seq(Range(s))
         /\ Range(RemoveAt(s, k)) \subseteq Range(s)
         /\ \A x \in Range(s) : x # s[k] => x \in Range(RemoveAt(s, k))
<1>1. PICK S : S = Range(s)
  OBVIOUS
<1>2. PICK n \in Nat : n = Len(s)
  OBVIOUS
<1>3. s \in Seq(S) /\ DOMAIN s = 1..n /\ k \in 1..n
  BY <1>1, <1>2
<1>4. PICK t : t = RemoveAt(s, k)
  OBVIOUS
<1>5. PICK p : p = SubSeq(s, 1, k - 1)
  OBVIOUS
<1>6. PICK q : q = SubSeq(s, k + 1, n)
  OBVIOUS
<1>7. p \in Seq(S) /\ Len(p) = k - 1 /\ \A i \in 1..(k - 1) : p[i] = s[i]
  BY <1>3, <1>5
<1>8. q \in Seq(S) /\ Len(q) = n - k /\ \A i \in 1..(n - k) : q[i] = s[k + i]
  BY <1>3, <1>6
<1>9. t = p \o q
  BY <1>2, <1>4, <1>5, <1>6 DEF RemoveAt
<1>10. /\ t \in Seq(S) /\ Len(t) = n - 1
       /\ \A i \in 1..(k - 1) : t[i] = s[i]
       /\ \A i \in 1..(n - k) : t[k - 1 + i] = s[k + i]
  <2>1. PICK lp \in Nat : lp = k - 1
    BY <1>3
  <2>2. PICK lq \in Nat : lq = n - k
    BY <1>3
  <2>3. /\ p \o q \in Seq(S) /\ Len(p \o q) = lp + lq
        /\ \A i \in 1..lp : (p \o q)[i] = p[i]
        /\ \A i \in 1..lq : (p \o q)[lp + i] = q[i]
    <3>1. p \in Seq(S) /\ q \in Seq(S) /\ lp = Len(p) /\ lq = Len(q)
      BY <1>7, <1>8, <2>1, <2>2
    <3> QED
      BY ONLY <3>1, InARow
  <2>4. lp + lq = n - 1
    BY <1>3, <2>1, <2>2
  <2> QED
    BY <1>7, <1>8, <1>9, <2>1, <2>2, <2>3, <2>4
<1>11. Range(t) \subseteq S
  BY <1>10 DEF Range
<1>12. ASSUME NEW i \in 1..n, i # k PROVE s[i] \in Range(t)
  <2>1. CASE i < k
    <3>1. i \in 1..(k - 1) /\ i \in DOMAIN t
      BY <1>3, <1>10, <2>1
    <3> QED
      BY <1>10, <3>1 DEF Range
  <2>2. CASE i > k
    <3>1. i - k \in 1..(n - k) /\ i - 1 \in DOMAIN t /\ k - 1 + (i - k) = i - 1 /\ k + (i - k) = i
      BY <1>3, <1>10, <2>2
    <3>2. t[i - 1] = s[i]
      BY <1>10, <3>1
    <3> QED
      BY <3>1, <3>2 DEF Range
  <2> QED
    BY <1>3, <1>12, <2>1, <2>2
<1>13. \A x \in S : x # s[k] => x \in Range(t)
  BY <1>1, <1>3, <1>12 DEF Range
<1> QED
  BY <1>1, <1>4, <1>10, <1>11, <1>13

\* Insert adds an operation over values to the body.
LEMMA InsertKeepsBody ==
  ASSUME NEW b, NEW next, IsBody(b, next),
         NEW op \in Templates, Range(op.in) \subseteq Values(b)
  PROVE  IsBody(Append(b, [op EXCEPT !.id = next]), next + 1)
<1>1. PICK new : new = [op EXCEPT !.id = next]
  OBVIOUS
<1>2. WellBuilt(op)
  BY TemplatesAssumption DEF TemplatesAssumption
<1>3. new = [id |-> next, kind |-> op.kind, target |-> op.target, attr |-> op.attr,
             in |-> op.in, ty |-> op.ty, name |-> op.name]
  BY <1>1, <1>2 DEF WellBuilt
<1>4. new.id = next /\ new.in = op.in /\ WellBuilt(new)
  BY <1>2, <1>3 DEF WellBuilt
<1>5. PICK c : c = Append(b, new)
  OBVIOUS
<1>6. c \in Seq(Range(c)) /\ Range(c) = Range(b) \cup {new}
  BY <1>5, OneMore DEF IsBody
<1>7. Values(b) \subseteq Values(c)
  BY <1>6 DEF Values
<1>8. \A v \in Values(b) : v < next
  <2> TAKE v \in Values(b)
  <2>1. CASE IsInput(v)
    BY <2>1, InputNumbers DEF IsBody
  <2>2. CASE ~IsInput(v)
    BY <2>2, Defined DEF IsBody
  <2> QED
    BY <2>1, <2>2
<1>9. next + 1 \in Nat /\ Len(Inputs) < next + 1 /\ Len(Inputs) < next /\ next < next + 1
  BY InputNumbers DEF IsBody
<1>10. \A o \in Range(c) : WellBuilt(o) /\ o.id \in Nat /\ Len(Inputs) < o.id /\ o.id < next + 1
  <2>1. \A o \in Range(b) : o.id < next + 1
    BY DEF IsBody
  <2> QED
    BY <1>4, <1>6, <1>9, <2>1 DEF IsBody
<1>11. \A o, p \in Range(c) : o.id = p.id => o = p
  <2>1. \A o \in Range(b) : o.id # next
    BY DEF IsBody
  <2> QED
    BY <1>4, <1>6, <2>1 DEF IsBody
<1>12. \A o \in Range(c) : \A v \in Range(o.in) : v \in Values(c) /\ v < o.id
  BY <1>4, <1>6, <1>7, <1>8 DEF IsBody
<1> QED
  BY <1>1, <1>5, <1>6, <1>9, <1>10, <1>11, <1>12 DEF IsBody

\* The operation with one value for another.
Redirected(op, from, to) ==
  [op EXCEPT !.in = [j \in DOMAIN op.in |-> IF op.in[j] = from THEN to ELSE op.in[j]]]

\* Only the operands change.
LEMMA RedirectedOp ==
  ASSUME NEW op, WellBuilt(op), NEW from, NEW to \in Nat
  PROVE  /\ WellBuilt(Redirected(op, from, to))
         /\ Redirected(op, from, to).id = op.id /\ Redirected(op, from, to).ty = op.ty
         /\ Redirected(op, from, to).kind = op.kind /\ Redirected(op, from, to).name = op.name
         /\ Redirected(op, from, to).target = op.target
         /\ \A j \in DOMAIN op.in :
              Redirected(op, from, to).in[j] = IF op.in[j] = from THEN to ELSE op.in[j]
         /\ \A v \in Range(Redirected(op, from, to).in) :
              \E u \in Range(op.in) : v = IF u = from THEN to ELSE u
<1>1. PICK in : in = [j \in DOMAIN op.in |-> IF op.in[j] = from THEN to ELSE op.in[j]]
  OBVIOUS
<1>2. op.in \in Seq(Nat)
  BY DEF WellBuilt
<1>3. PICK n \in Nat : n = Len(op.in) /\ DOMAIN op.in = 1..n
  BY <1>2
<1>4. in = [j \in 1..n |-> IF op.in[j] = from THEN to ELSE op.in[j]] /\ in \in Seq(Nat) /\ Len(in) = n
  BY <1>1, <1>2, <1>3
<1>5. PICK new : new = Redirected(op, from, to)
  OBVIOUS
<1>6. new = [id |-> op.id, kind |-> op.kind, target |-> op.target, attr |-> op.attr,
             in |-> in, ty |-> op.ty, name |-> op.name]
  BY <1>1, <1>5 DEF Redirected, WellBuilt
<1>7. /\ WellBuilt(new) /\ new.id = op.id /\ new.ty = op.ty /\ new.in = in
      /\ new.kind = op.kind /\ new.name = op.name /\ new.target = op.target
  BY <1>3, <1>4, <1>6 DEF WellBuilt
<1>8. \A v \in Range(in) : \E u \in Range(op.in) : v = IF u = from THEN to ELSE u
  BY <1>3, <1>4 DEF Range
<1>9. \A j \in DOMAIN op.in : in[j] = IF op.in[j] = from THEN to ELSE op.in[j]
  BY <1>1
<1> QED
  BY <1>5, <1>7, <1>8, <1>9

\* Eliminating an assignment leaves a body with the other operations, redirected.
LEMMA EraseKeepsBody ==
  ASSUME NEW b, NEW next, IsBody(b, next), NEW k \in DOMAIN b, b[k].kind = "assign"
  PROVE  /\ IsBody(Erase(b, k, b[k].in[1]), next)
         /\ b[k] \in Range(b) /\ WellBuilt(b[k]) /\ b[k].in[1] \in Values(b) /\ b[k].in[1] < b[k].id
         /\ \A o \in Range(b) : o # b[k] =>
              Redirected(o, b[k].id, b[k].in[1]) \in Range(Erase(b, k, b[k].in[1]))
<1>1. PICK gone : gone = b[k]
  OBVIOUS
<1>2. PICK src : src = gone.in[1]
  OBVIOUS
<1>3. gone \in Range(b) /\ WellBuilt(gone) /\ src \in Range(gone.in) /\ src \in Nat
  <2>1. gone \in Range(b)
    BY <1>1 DEF Range
  <2>2. WellBuilt(gone)
    BY <2>1 DEF IsBody
  <2>3. gone.in \in Seq(Nat) /\ Len(gone.in) = 1
    BY <1>1, <2>2 DEF WellBuilt
  <2> QED
    BY <1>2, <2>1, <2>2, <2>3 DEF Range
<1>4. src \in Values(b) /\ src < gone.id /\ gone.id \in Nat
  BY <1>3 DEF IsBody
<1>5. PICK rest : rest = RemoveAt(b, k)
  OBVIOUS
<1>6. /\ rest \in Seq(Range(b)) /\ Range(rest) \subseteq Range(b)
      /\ \A o \in Range(b) : o # gone => o \in Range(rest)
  BY <1>1, <1>5, OneLess DEF IsBody
<1>7. PICK c : c = Erase(b, k, src)
  OBVIOUS
<1>8. c = [j \in DOMAIN rest |-> Redirected(rest[j], gone.id, src)]
  BY <1>1, <1>5, <1>7 DEF Erase, Redirected
<1>9. c \in Seq(Range(c)) /\ Range(c) = {Redirected(o, gone.id, src) : o \in Range(rest)}
  <2>1. PICK n \in Nat : n = Len(rest) /\ DOMAIN rest = 1..n
    BY <1>6
  <2>2. c = [j \in 1..n |-> Redirected(rest[j], gone.id, src)]
    BY <1>8, <2>1
  <2>3. \A j \in 1..n : c[j] \in Range(c)
    BY <2>2 DEF Range
  <2> QED
    BY <2>1, <2>2, <2>3 DEF Range
<1>10. \A o \in Range(rest) : WellBuilt(o) /\ o \in Range(b)
  BY <1>6 DEF IsBody
<1>11. \A o \in Range(rest) :
         LET new == Redirected(o, gone.id, src)
         IN /\ WellBuilt(new) /\ new.id = o.id /\ new.ty = o.ty
            /\ \A v \in Range(new.in) : \E u \in Range(o.in) : v = IF u = gone.id THEN src ELSE u
  BY <1>3, <1>10, RedirectedOp
<1>12. \A v \in Values(b) : v # gone.id => v \in Values(c)
  <2> SUFFICES ASSUME NEW v \in Values(b), v # gone.id, ~IsInput(v) PROVE v \in Values(c)
    BY DEF Values, IsInput
  <2>1. PICK o \in Range(b) : o.id = v /\ o.ty # NoType
    BY Defined
  <2>2. o \in Range(rest)
    BY <1>6, <2>1
  <2>3. PICK new : new = Redirected(o, gone.id, src)
    OBVIOUS
  <2>4. new \in Range(c) /\ new.id = v /\ new.ty # NoType
    BY <1>9, <1>11, <2>1, <2>2, <2>3
  <2> QED
    BY <2>4 DEF Values
<1>13. \A o \in Range(c) : WellBuilt(o) /\ o.id \in Nat /\ Len(Inputs) < o.id /\ o.id < next
  BY <1>9, <1>10, <1>11 DEF IsBody
<1>14. \A o, p \in Range(c) : o.id = p.id => o = p
  <2> SUFFICES ASSUME NEW o \in Range(rest), NEW p \in Range(rest),
                      Redirected(o, gone.id, src).id = Redirected(p, gone.id, src).id
               PROVE  o = p
    BY <1>9
  <2> QED
    BY <1>10, <1>11 DEF IsBody
<1>15. ASSUME NEW o \in Range(c), NEW v \in Range(o.in) PROVE v \in Values(c) /\ v < o.id
  <2>1. PICK p \in Range(rest) : o = Redirected(p, gone.id, src)
    BY <1>9
  <2>2. PICK u \in Range(p.in) : v = IF u = gone.id THEN src ELSE u
    BY <1>11, <1>15, <2>1
  <2>3. o.id = p.id /\ p.id \in Nat
    BY <1>10, <1>11, <2>1 DEF IsBody
  <2>4. u \in Values(b) /\ u < p.id
    BY <1>10 DEF IsBody
  <2>5. CASE u = gone.id
    <3>1. v = src /\ src # gone.id
      BY <1>3, <1>4, <2>2, <2>5
    <3>2. src < p.id
      BY <1>3, <1>4, <2>3, <2>4, <2>5
    <3> QED
      BY <1>4, <1>12, <2>3, <3>1, <3>2
  <2>6. CASE u # gone.id
    BY <1>12, <2>2, <2>3, <2>4, <2>6
  <2> QED
    BY <2>5, <2>6
<1>16. next \in Nat /\ Len(Inputs) < next
  BY DEF IsBody
<1>17. IsBody(c, next)
  BY <1>9, <1>13, <1>14, <1>15, <1>16 DEF IsBody
<1>18. \A o \in Range(b) : o # gone => Redirected(o, gone.id, src) \in Range(c)
  BY <1>6, <1>9
<1> QED
  BY <1>1, <1>2, <1>3, <1>4, <1>7, <1>17, <1>18

-----------------------------------------------------------------------------
(* The text.                                                                *)

\* Nothing is printed yet.
LEMMA NothingPrinted ==
  ASSUME NEW b
  PROVE  Texts(b, 0, << >>) /\ Lists(b, 0, InputNames, << >>)
<1>1. Len(<< >>) = 0 /\ DOMAIN << >> = {} /\ << >> \in Seq(Range(<< >>)) /\ 1..0 = {}
  OBVIOUS
<1>2. DeclaredBy(b, 0) = {}
  BY <1>1 DEF DeclaredBy
<1>3. Lists(b, 0, InputNames, << >>)
  BY <1>1, <1>2 DEF Lists
<1>4. [i \in {} |-> 0] \in [1..0 -> 1..0]
  OBVIOUS
<1> QED
  BY <1>1, <1>3, <1>4 DEF Texts

\* A statement more.
LEMMA TextsGrow ==
  ASSUME NEW b, NEW n \in Nat, NEW list, Texts(b, n, list), b[n + 1].kind \in Printable
  PROVE  Texts(b, n + 1, Append(list, Rendered(b, b[n + 1])))
<1>1. PICK new : new = Rendered(b, b[n + 1])
  OBVIOUS
<1>2. PICK more : more = Append(list, new)
  OBVIOUS
<1>3. list \in Seq(Range(list))
  BY DEF Texts
<1>4. PICK m \in Nat : m = Len(list)
  BY <1>3
<1>5. /\ more \in Seq(Range(more)) /\ Len(more) = m + 1 /\ more[m + 1] = new
      /\ \A i \in 1..m : more[i] = list[i]
  BY <1>2, <1>3, <1>4, OneMore
<1>6. PICK from \in [1..m -> 1..n] :
         /\ \A i, j \in 1..m : from[i] = from[j] => i = j
         /\ \A i \in 1..m : b[from[i]].kind \in Printable /\ list[i] = Rendered(b, b[from[i]])
         /\ \A j \in 1..n : b[j].kind \in Printable => \E i \in 1..m : from[i] = j
  BY <1>4 DEF Texts
<1>7. PICK to : to = [i \in 1..(m + 1) |-> IF i = m + 1 THEN n + 1 ELSE from[i]]
  OBVIOUS
<1>8. /\ \A i \in 1..m : i \in 1..(m + 1) /\ to[i] = from[i] /\ from[i] \in 1..n /\ from[i] # n + 1
      /\ m + 1 \in 1..(m + 1) /\ to[m + 1] = n + 1
      /\ \A i \in 1..(m + 1) : i \in 1..m \/ i = m + 1
      /\ \A j \in 1..(n + 1) : j \in 1..n \/ j = n + 1
      /\ n + 1 \in 1..(n + 1) /\ \A j \in 1..n : j \in 1..(n + 1)
  BY <1>6, <1>7
<1>9. to \in [1..(m + 1) -> 1..(n + 1)]
  BY <1>7, <1>8
<1>10. \A i, j \in 1..(m + 1) : to[i] = to[j] => i = j
  BY <1>6, <1>8
<1>11. \A i \in 1..(m + 1) : b[to[i]].kind \in Printable /\ more[i] = Rendered(b, b[to[i]])
  BY <1>1, <1>5, <1>6, <1>8
<1>12. \A j \in 1..(n + 1) : b[j].kind \in Printable => \E i \in 1..(m + 1) : to[i] = j
  BY <1>6, <1>8
<1>13. Texts(b, n + 1, more)
  <2>1. PICK k : k = m + 1
    OBVIOUS
  <2>2. PICK l : l = n + 1
    OBVIOUS
  <2>3. to \in [1..k -> 1..l] /\ Len(more) = k /\ more \in Seq(Range(more))
    BY <1>5, <1>9, <2>1, <2>2
  <2>4. /\ \A i, j \in 1..k : to[i] = to[j] => i = j
        /\ \A i \in 1..k : b[to[i]].kind \in Printable /\ more[i] = Rendered(b, b[to[i]])
        /\ \A j \in 1..l : b[j].kind \in Printable => \E i \in 1..k : to[i] = j
    BY <1>10, <1>11, <1>12, <2>1, <2>2
  <2>5. Texts(b, l, more)
    BY <2>3, <2>4 DEF Texts
  <2> QED
    BY <2>2, <2>5
<1> QED
  BY <1>1, <1>2, <1>13

\* An operation that is not printed.
LEMMA TextsKept ==
  ASSUME NEW b, NEW n \in Nat, NEW list, Texts(b, n, list), b[n + 1].kind \notin Printable
  PROVE  Texts(b, n + 1, list)
<1>1. \A j \in 1..(n + 1) : j \in 1..n \/ j = n + 1
  OBVIOUS
<1>2. [1..Len(list) -> 1..n] \subseteq [1..Len(list) -> 1..(n + 1)]
  OBVIOUS
<1> QED
  BY <1>1, <1>2 DEF Texts

\* The targets declared by an operation more.
LEMMA DeclaredByNext ==
  ASSUME NEW b, NEW n \in Nat
  PROVE  DeclaredBy(b, n + 1) =
           IF b[n + 1].kind \in Declaring THEN DeclaredBy(b, n) \cup {b[n + 1].target}
           ELSE DeclaredBy(b, n)
<1>1. \A j : j \in 1..(n + 1) <=> j \in 1..n \/ j = n + 1
  OBVIOUS
<1> QED
  BY <1>1 DEF DeclaredBy

\* An operation that declares nothing.
LEMMA ListsKept ==
  ASSUME NEW b, NEW n \in Nat, NEW known, NEW list, Lists(b, n, known, list),
         b[n + 1].kind \notin Declaring
  PROVE  Lists(b, n + 1, known, list)
<1>1. DeclaredBy(b, n + 1) = DeclaredBy(b, n)
  BY DeclaredByNext
<1>2. \A j \in 1..(n + 1) : IsFirst(b, j) => j \in 1..n
  <2> SUFFICES ASSUME NEW j \in 1..(n + 1), IsFirst(b, j) PROVE j # n + 1
    OBVIOUS
  <2> QED
    BY DEF IsFirst
<1> QED
  BY <1>1, <1>2 DEF Lists

\* A target that is known already.
LEMMA ListsKnown ==
  ASSUME NEW b, NEW n \in Nat, NEW known, NEW list, Lists(b, n, known, list),
         b[n + 1].kind \in Declaring, b[n + 1].target \in known
  PROVE  Lists(b, n + 1, known, list)
<1>1. InputNames \cup DeclaredBy(b, n + 1) = known
  BY DeclaredByNext DEF Lists
<1>2. IsFirst(b, n + 1) => b[n + 1].target \in InputNames
  <2> SUFFICES ASSUME b[n + 1].target \in DeclaredBy(b, n) PROVE ~IsFirst(b, n + 1)
    BY DEF Lists
  <2>1. PICK i \in 1..n : b[i].kind \in Declaring /\ b[i].target = b[n + 1].target
    BY DEF DeclaredBy
  <2> QED
    BY <2>1 DEF IsFirst
<1>3. \A j \in 1..(n + 1) : j \in 1..n \/ j = n + 1
  OBVIOUS
<1> QED
  BY <1>1, <1>2, <1>3 DEF Lists

\* A declaration more.
LEMMA ListsGrow ==
  ASSUME NEW b, NEW n \in Nat, NEW known, NEW list, Lists(b, n, known, list),
         b[n + 1].kind \in Declaring, b[n + 1].target \notin known,
         NEW d, d.name = b[n + 1].target, d.ty = DeclaredType(b, b[n + 1])
  PROVE  Lists(b, n + 1, known \cup {b[n + 1].target}, Append(list, d))
<1>1. PICK x : x = b[n + 1].target
  OBVIOUS
<1>2. PICK more : more = Append(list, d)
  OBVIOUS
<1>3. PICK m \in Nat : m = Len(list)
  BY DEF Lists
<1>4. /\ DOMAIN list = 1..m /\ DOMAIN more = 1..(m + 1) /\ more \in Seq(Range(more))
      /\ more[m + 1] = d /\ \A i \in 1..m : more[i] = list[i]
  BY <1>2, <1>3, OneMore DEF Lists
<1>5. /\ \A i \in 1..(m + 1) : i \in 1..m \/ i = m + 1
      /\ \A i \in 1..m : i \in 1..(m + 1)
      /\ m + 1 \in 1..(m + 1)
      /\ \A j \in 1..(n + 1) : j \in 1..n \/ j = n + 1
  OBVIOUS
<1>6. InputNames \cup DeclaredBy(b, n + 1) = known \cup {x} /\ x \notin InputNames
  BY <1>1, DeclaredByNext DEF Lists
<1>7. {list[i].name : i \in 1..m} = known \ InputNames
  BY <1>4 DEF Lists
<1>8. \A i, j \in 1..(m + 1) : more[i].name = more[j].name => i = j
  <2>1. \A i \in 1..m : more[i].name # x
    BY <1>1, <1>4, <1>7
  <2>2. more[m + 1].name = x
    BY <1>1, <1>4
  <2>3. \A i, j \in 1..m : more[i].name = more[j].name => i = j
    BY <1>4 DEF Lists
  <2> QED
    BY <1>5, <2>1, <2>2, <2>3
<1>9. {more[i].name : i \in 1..(m + 1)} = (known \cup {x}) \ InputNames
  <2>1. {more[i].name : i \in 1..(m + 1)} = {list[i].name : i \in 1..m} \cup {x}
    BY <1>1, <1>4, <1>5
  <2> QED
    BY <1>6, <1>7, <2>1
<1>10. \A j \in 1..(n + 1) : IsFirst(b, j) /\ b[j].target \notin InputNames =>
         \E i \in 1..(m + 1) : more[i].name = b[j].target /\ more[i].ty = DeclaredType(b, b[j])
  <2>1. \A j \in 1..n : IsFirst(b, j) /\ b[j].target \notin InputNames =>
          \E i \in 1..m : list[i].name = b[j].target /\ list[i].ty = DeclaredType(b, b[j])
    BY <1>4 DEF Lists
  <2> QED
    BY <1>4, <1>5, <2>1
<1> QED
  BY <1>1, <1>2, <1>4, <1>6, <1>8, <1>9, <1>10 DEF Lists

-----------------------------------------------------------------------------
(* The invariant.                                                           *)

Kinds == Declarations \cup Printable \cup Omitted

\* The kinds are told apart.
LEMMA KindsApart ==
  /\ Declarations \cap Printable = {} /\ Declaring \cap Omitted = {} /\ Printable \cap Omitted = {}
  /\ Implicit \subseteq Printable /\ Implicit \subseteq Declaring /\ Declarations \subseteq Declaring
  /\ \A kind \in Printable : kind \in Declaring => kind \in Implicit
  /\ "mem_decl" \in Printable \ Declaring
  BY DEF Declarations, Printable, Declaring, Implicit, Omitted, Expressions

\* An operation visited, with what it adds to the text.
LEMMA VisitKeeps ==
  ASSUME IInv, NEW op, Visiting(op), op.kind \in Kinds, status' = "printing",
         Texts(body, pos + 1, statements'),
         Lists(body, pos + 1, declared_names', declarations')
  PROVE  IInv'
<1>1. /\ status = "printing" /\ pos < Len(body) /\ op = body[pos + 1] /\ pos' = pos + 1
      /\ body' = body /\ next_id' = next_id /\ ports' = ports
  BY DEF Visiting
<1>2. IsBody(body', next_id')
  BY <1>1 DEF IInv
<1>3. Fresh'
  BY DEF Fresh
<1>4. Verified(body) /\ ports = Header /\ pos \in 0..Len(body) /\ Len(body) \in Nat
  BY <1>1 DEF IInv, Progress, IsBody
<1>5. pos' \in 0..Len(body')
  BY <1>1, <1>4
<1>6. \A j \in 1..pos' : body'[j].kind \in Kinds
  <2>1. \A j \in 1..(pos + 1) : j \in 1..pos \/ j = pos + 1
    BY <1>4
  <2> QED
    BY <1>1, <2>1 DEF IInv, Progress, Kinds
<1>7. Header' = Header
  BY DEF Header
<1>8. Texts(body', pos', statements') /\ Lists(body', pos', declared_names', declarations')
  BY <1>1
<1>9. Progress'
  BY <1>1, <1>4, <1>5, <1>6, <1>7, <1>8 DEF Progress, Kinds
<1> QED
  BY <1>2, <1>3, <1>9 DEF IInv

\* A target declared where it is first met.
LEMMA DeclareKeeps ==
  ASSUME IInv, NEW op, Visiting(op), op.kind \in Declaring, Declare(op)
  PROVE  Lists(body, pos + 1, declared_names', declarations')
<1>1. pos \in Nat /\ op = body[pos + 1] /\ Lists(body, pos, declared_names, declarations)
  BY DEF IInv, Progress, Visiting
<1>2. CASE op.target \in declared_names
  BY <1>1, <1>2, ListsKnown DEF Declare
<1>3. CASE op.target \notin declared_names
  <2>1. PICK d : d = Declaration(Keyword(op), DeclaredType(body, op), op.target)
    OBVIOUS
  <2>2. d.name = op.target /\ d.ty = DeclaredType(body, op)
    BY <2>1 DEF Declaration
  <2>3. declared_names' = declared_names \cup {op.target} /\ declarations' = Append(declarations, d)
    BY <1>3, <2>1 DEF Declare
  <2> QED
    BY <1>1, <1>3, <2>2, <2>3, ListsGrow
<1> QED
  BY <1>2, <1>3

\* The invariant holds at first.
LEMMA InitInv == Init => IInv
<1> SUFFICES ASSUME Init PROVE IInv
  OBVIOUS
<1>1. IsBody(body, next_id)
  <2>1. << >> \in Seq(Range(<< >>)) /\ Range(<< >>) = {}
    BY DEF Range
  <2> QED
    BY <2>1, InputNumbers DEF Init, IsBody
<1> QED
  BY <1>1 DEF Init, IInv, Fresh, Progress

\* The invariant is kept by every step.
LEMMA NextInv == IInv /\ [Next]_vars => IInv'
<1> SUFFICES ASSUME IInv, [Next]_vars PROVE IInv'
  OBVIOUS
<1>1. ASSUME NEW op \in Templates, Insert(op) PROVE IInv'
  <2>1. IsBody(body', next_id')
    BY <1>1, InsertKeepsBody DEF Insert, IInv
  <2> QED
    BY <1>1, <2>1 DEF Insert, IInv, Fresh, Progress, printer
<1>2. ASSUME NEW k \in DOMAIN body, EliminateRedundantAssign(k) PROVE IInv'
  <2>1. IsBody(body', next_id')
    BY <1>2, EraseKeepsBody DEF EliminateRedundantAssign, IInv
  <2> QED
    BY <1>2, <2>1 DEF EliminateRedundantAssign, IInv, Fresh, Progress, printer
<1>3. ASSUME StartPrinting PROVE IInv'
  <2>1. pos = 0 /\ declarations = << >> /\ statements = << >>
    BY <1>3 DEF StartPrinting, IInv, Fresh
  <2>2. /\ body' = body /\ next_id' = next_id /\ pos' = 0 /\ status' = "printing"
        /\ declarations' = << >> /\ statements' = << >> /\ declared_names' = InputNames
        /\ ports' = Header /\ Verified(body)
    BY <1>3, <2>1 DEF StartPrinting, InputNames, Header
  <2>3. Texts(body', pos', statements') /\ Lists(body', pos', declared_names', declarations')
    BY <2>2, NothingPrinted
  <2>4. Len(body) \in Nat /\ IsBody(body', next_id')
    BY <2>2 DEF IInv, IsBody
  <2>5. Progress'
    BY <2>2, <2>3, <2>4 DEF Progress, Header
  <2> QED
    BY <2>2, <2>4, <2>5 DEF IInv, Fresh
<1>4. ASSUME NotVerified PROVE IInv'
  BY <1>4 DEF NotVerified, IInv, Fresh, Progress, printer
<1>5. ASSUME Finish PROVE IInv'
  <2>1. /\ status = "printing" /\ status' = "ok" /\ pos = Len(body) /\ UNCHANGED <<body, next_id, printer>>
    BY <1>5 DEF Finish
  <2> QED
    BY <2>1 DEF IInv, Fresh, Progress, printer, Header
<1>6. ASSUME NEW op \in Range(body), PrintDeclaration(op) PROVE IInv'
  <2>1. /\ Visiting(op) /\ op.kind \in Declarations /\ Declare(op) /\ UNCHANGED <<statements, status>>
    BY <1>6 DEF PrintDeclaration
  <2>2. pos \in Nat /\ op = body[pos + 1] /\ Texts(body, pos, statements) /\ status' = "printing"
    BY <2>1 DEF IInv, Progress, Visiting
  <2>3. Texts(body, pos + 1, statements')
    BY <2>1, <2>2, KindsApart, TextsKept
  <2>4. Lists(body, pos + 1, declared_names', declarations')
    BY <2>1, KindsApart, DeclareKeeps
  <2> QED
    BY <2>1, <2>2, <2>3, <2>4, VisitKeeps DEF Kinds
<1>7. ASSUME NEW op \in Range(body), PrintStatement(op) PROVE IInv'
  <2>1. /\ Visiting(op) /\ op.kind \in Printable /\ status' = status
        /\ IF op.kind \in Implicit THEN Declare(op) ELSE UNCHANGED <<declared_names, declarations>>
        /\ statements' = Append(statements, Rendered(body, op))
    BY <1>7 DEF PrintStatement
  <2>2. /\ pos \in Nat /\ op = body[pos + 1] /\ Texts(body, pos, statements) /\ status' = "printing"
        /\ Lists(body, pos, declared_names, declarations)
    BY <2>1 DEF IInv, Progress, Visiting
  <2>3. Texts(body, pos + 1, statements')
    BY <2>1, <2>2, TextsGrow
  <2>4. Lists(body, pos + 1, declared_names', declarations')
    <3>1. CASE op.kind \in Implicit
      BY <2>1, <3>1, KindsApart, DeclareKeeps
    <3>2. CASE op.kind \notin Implicit
      BY <2>1, <2>2, <3>2, KindsApart, ListsKept
    <3> QED
      BY <3>1, <3>2
  <2> QED
    BY <2>1, <2>2, <2>3, <2>4, VisitKeeps DEF Kinds
<1>8. ASSUME NEW op \in Range(body), EmptyMemory(op) PROVE IInv'
  <2>1. /\ Visiting(op) /\ op.kind = "mem_decl" /\ UNCHANGED <<declared_names, declarations>>
        /\ \/ status' = "panic"
           \/ statements' = Append(statements, Rendered(body, op)) /\ UNCHANGED status
    BY <1>8 DEF EmptyMemory
  <2>2. /\ pos \in Nat /\ op = body[pos + 1] /\ Texts(body, pos, statements) /\ status = "printing"
        /\ Lists(body, pos, declared_names, declarations)
        /\ body' = body /\ next_id' = next_id
    BY <2>1 DEF IInv, Progress, Visiting
  <2>3. CASE status' = "panic"
    BY <2>2, <2>3 DEF IInv, Fresh, Progress
  <2>4. CASE statements' = Append(statements, Rendered(body, op)) /\ UNCHANGED status
    <3>1. Texts(body, pos + 1, statements')
      BY <2>1, <2>2, <2>4, KindsApart, TextsGrow
    <3>2. Lists(body, pos + 1, declared_names', declarations')
      BY <2>1, <2>2, KindsApart, ListsKept
    <3> QED
      BY <2>1, <2>2, <2>4, <3>1, <3>2, KindsApart, VisitKeeps DEF Kinds
  <2> QED
    BY <2>1, <2>3, <2>4
<1>9. ASSUME NEW op \in Range(body), Omit(op) PROVE IInv'
  <2>1. /\ Visiting(op) /\ op.kind \in Omitted
        /\ UNCHANGED <<declared_names, declarations, statements, status>>
    BY <1>9 DEF Omit
  <2>2. /\ pos \in Nat /\ op = body[pos + 1] /\ Texts(body, pos, statements) /\ status' = "printing"
        /\ Lists(body, pos, declared_names, declarations)
    BY <2>1 DEF IInv, Progress, Visiting
  <2>3. Texts(body, pos + 1, statements') /\ Lists(body, pos + 1, declared_names', declarations')
    BY <2>1, <2>2, KindsApart, TextsKept, ListsKept
  <2> QED
    BY <2>1, <2>2, <2>3, VisitKeeps DEF Kinds
<1>10. ASSUME NEW op \in Range(body), Unsupported(op) PROVE IInv'
  BY <1>10 DEF Unsupported, Visiting, IInv, Fresh, Progress
<1>11. ASSUME UNCHANGED vars PROVE IInv'
  BY <1>11 DEF vars, IInv, Fresh, Progress, Header
<1> QED
  BY <1>1, <1>2, <1>3, <1>4, <1>5, <1>6, <1>7, <1>8, <1>9, <1>10, <1>11 DEF Next, Returned

\* render_module keeps, of the operations it has visited, one statement for each
\* that is printed and one declaration for each new target.
THEOREM TextFollows == Spec => []IInv
  BY InitInv, NextInv, PTL DEF Spec

-----------------------------------------------------------------------------
(* What validate_module adds.                                               *)

\* Two operations that validate_module looks at have different targets.
LEMMA TargetsApart ==
  ASSUME NEW b, b \in Seq(Range(b)), Validated(b),
         NEW i \in DOMAIN b, NEW j \in DOMAIN b, i # j,
         b[i].kind \in Validation!TargetKinds, b[j].kind \in Validation!TargetKinds
  PROVE  b[i].target # b[j].target
<1> DEFINE seen(k) == [kind |-> IF b[k].kind = "instance" THEN "sv.instance" ELSE b[k].kind,
                       target |-> b[k].target, name |-> b[k].target, module |-> b[k].attr,
                       clock_or_reset |-> b[k].kind = "assign" /\ TypeOf(b, b[k].in[1]) \in {Clock, Reset}]
<1>1. PICK s : s = [k \in DOMAIN b |-> seen(k)]
  OBVIOUS
<1>2. Validation!validate_module(s)
  BY <1>1 DEF Validated
<1>3. \A k \in DOMAIN b : ~Validation!DuplicateTarget(s, k)
  BY <1>1, <1>2 DEF Validation!validate_module, Validation!Offends
<1>4. \A k \in DOMAIN b : b[k].kind \in Validation!TargetKinds =>
        k \in DOMAIN s /\ s[k].kind = b[k].kind /\ s[k].target = b[k].target
  BY <1>1 DEF Validation!TargetKinds
<1>5. PICK n \in Nat : DOMAIN b = 1..n
  OBVIOUS
<1>6. ASSUME NEW k \in DOMAIN b, NEW l \in DOMAIN b, l < k,
             b[k].kind \in Validation!TargetKinds, b[l].kind \in Validation!TargetKinds
      PROVE  b[k].target # b[l].target
  <2>1. l \in 1..(k - 1)
    BY <1>5, <1>6
  <2>2. s[l].target \in Validation!target_names(s, k) \/ s[l].target # s[k].target
    BY <1>4, <1>6, <2>1 DEF Validation!target_names
  <2>3. s[k].kind \in Validation!TargetKinds /\ s[k].target \notin Validation!target_names(s, k)
    BY <1>3, <1>4, <1>6 DEF Validation!DuplicateTarget
  <2> QED
    BY <1>4, <1>6, <2>2, <2>3
<1>7. i < j \/ j < i
  BY <1>5
<1> QED
  BY <1>6, <1>7

\* What drives a target from a statement of its own, and what declares one of
\* its own, is looked at by validate_module.
LEMMA LookedAt ==
  /\ Implicit \subseteq Validation!TargetKinds
  /\ Declaring \ {"wire_decl", "reg_decl"} \subseteq Validation!TargetKinds
  /\ "mem_decl" \in Validation!TargetKinds
  BY DEF Implicit, Declaring, Declarations, Validation!TargetKinds

\* A set whose elements are equal has one at most.
LEMMA AtMostOne ==
  ASSUME NEW S, \A x, y \in S : x = y
  PROVE  Cardinality(S) \in Nat /\ Cardinality(S) <= 1
<1>1. CASE S = {}
  BY <1>1, FS_EmptySet
<1>2. ASSUME NEW x \in S PROVE Cardinality(S) = 1
  <2>1. S = {x}
    OBVIOUS
  <2> QED
    BY <2>1, FS_Singleton
<1> QED
  BY <1>1, <1>2

\* The statement printed for an operation of each kind: a memory.
LEMMA RenderedMemory ==
  ASSUME NEW b, NEW op, op.kind = "mem_decl"
  PROVE  Rendered(b, op) = Statement("memory", op.target, {})
  BY DEF Rendered

\* A memory read.
LEMMA RenderedRead ==
  ASSUME NEW b, NEW op, op.kind = "mem_read"
  PROVE  Rendered(b, op) =
           Statement("process", op.target,
                     {value_name(b, op.in[1]), memory_name(b, op.in[2])} \cup Reads(b, op.in[3]))
  BY DEF Rendered

\* A memory write.
LEMMA RenderedWrite ==
  ASSUME NEW b, NEW op, op.kind = "mem_write"
  PROVE  Rendered(b, op) =
           Statement("write", memory_name(b, op.in[2]),
                     {value_name(b, op.in[1])} \cup UNION {Reads(b, op.in[k]) : k \in 3..5})
  BY DEF Rendered

\* A register without a reset.
LEMMA RenderedFfNoReset ==
  ASSUME NEW b, NEW op, op.kind = "always_ff_no_reset"
  PROVE  Rendered(b, op) =
           Statement("process", op.target, {value_name(b, op.in[1])} \cup Reads(b, op.in[2]))
  BY DEF Rendered

\* A register with a reset.
LEMMA RenderedFf ==
  ASSUME NEW b, NEW op, op.kind = "always_ff"
  PROVE  Rendered(b, op) =
           Statement("process", op.target,
                     {value_name(b, op.in[1]), value_name(b, op.in[3])}
                     \cup Reads(b, op.in[2]) \cup Reads(b, op.in[4]))
  BY DEF Rendered

\* Instances, assignments and processes over expressions only.
LEMMA RenderedOther ==
  ASSUME NEW b, NEW op
  PROVE  /\ op.kind = "instance" => Rendered(b, op) = Statement("instance", Unnamed, AllReads(b, op))
         /\ op.kind = "assign" => Rendered(b, op) = Statement("assign", op.target, AllReads(b, op))
         /\ op.kind \in {"always_comb", "bpa", "nba"} =>
              Rendered(b, op) = Statement("process", op.target, AllReads(b, op))
  BY DEF Rendered

\* Only the kinds with a target of their own drive it.
LEMMA DrivingKinds ==
  ASSUME NEW b, NEW op, op.kind \in Printable, Rendered(b, op).form \in Driving
  PROVE  op.kind \in Implicit \cup {"bpa", "nba"} /\ Rendered(b, op).target = op.target
<1>1. op.kind \notin {"mem_decl", "mem_write", "instance"}
  BY RenderedMemory, RenderedWrite, RenderedOther DEF Driving, Statement
<1>2. op.kind \in Implicit \cup {"bpa", "nba"}
  BY <1>1 DEF Printable
<1>3. CASE op.kind = "mem_read"
  BY <1>3, RenderedRead DEF Statement, Implicit
<1>4. CASE op.kind = "always_ff_no_reset"
  BY <1>4, RenderedFfNoReset DEF Statement, Implicit
<1>5. CASE op.kind = "always_ff"
  BY <1>5, RenderedFf DEF Statement, Implicit
<1>6. CASE op.kind \in {"assign", "always_comb", "bpa", "nba"}
  BY <1>2, <1>6, RenderedOther DEF Statement
<1> QED
  BY <1>2, <1>3, <1>4, <1>5, <1>6 DEF Implicit

\* Only a memory is printed as one.
LEMMA FormOfMemory ==
  ASSUME NEW b, NEW op, op.kind \in Printable, Rendered(b, op).form = "memory"
  PROVE  op.kind = "mem_decl"
<1>1. op.kind # "mem_read"
  BY RenderedRead DEF Statement
<1>2. op.kind # "mem_write"
  BY RenderedWrite DEF Statement
<1>3. op.kind # "always_ff_no_reset"
  BY RenderedFfNoReset DEF Statement
<1>4. op.kind # "always_ff"
  BY RenderedFf DEF Statement
<1>5. op.kind \notin {"instance", "assign", "always_comb", "bpa", "nba"}
  BY RenderedOther DEF Statement
<1> QED
  BY <1>1, <1>2, <1>3, <1>4, <1>5 DEF Printable, Implicit

\* No name that validate_module accepts has two drivers.
LEMMA InvDrivenOnce == IInv => DrivenOnce
<1> SUFFICES ASSUME IInv, status = "ok", Validated(body),
                    \A op \in Range(body) : op.kind \notin {"bpa", "nba"},
                    NEW n \in Mentioned \ InputNames
             PROVE  Cardinality(Drivers(n)) <= 1
  BY DEF DrivenOnce
<1>1. body \in Seq(Range(body)) /\ Texts(body, pos, statements) /\ pos \in 0..Len(body)
  BY DEF IInv, Progress, IsBody
<1>2. PICK from \in [1..Len(statements) -> 1..pos] :
         /\ \A i, j \in 1..Len(statements) : from[i] = from[j] => i = j
         /\ \A i \in 1..Len(statements) :
              /\ body[from[i]].kind \in Printable
              /\ statements[i] = Rendered(body, body[from[i]])
  BY <1>1 DEF Texts
<1>3. statements \in Seq(Range(statements)) /\ DOMAIN statements = 1..Len(statements)
  BY <1>1 DEF Texts
<1>4. \A k \in 1..pos : k \in DOMAIN body /\ body[k] \in Range(body)
  BY <1>1 DEF Range
<1>5. ASSUME NEW i \in Drivers(n)
      PROVE  /\ i \in 1..Len(statements) /\ from[i] \in DOMAIN body
             /\ body[from[i]].kind \in Implicit /\ body[from[i]].target = n
  <2>1. i \in 1..Len(statements) /\ statements[i].form \in Driving /\ statements[i].target = n
    BY <1>3, <1>5 DEF Drivers
  <2>2. from[i] \in 1..pos
    BY <1>2, <2>1
  <2> QED
    BY <1>2, <1>4, <2>1, <2>2, DrivingKinds
<1>6. ASSUME NEW i \in Drivers(n), NEW j \in Drivers(n) PROVE i = j
  <2>1. from[i] = from[j]
    BY <1>1, <1>5, <1>6, TargetsApart, LookedAt
  <2> QED
    BY <1>2, <1>5, <1>6, <2>1
<1> QED
  BY <1>6, AtMostOne

\* In the text of a module that validate_module accepts, without procedural
\* assignments, every name but an input is driven from one statement at most.
THEOREM AcceptedTextDrivesOnce == Spec => []DrivenOnce
  BY TextFollows, InvDrivenOnce, PTL

\* A memory read has the element type of its memory.
LEMMA VerifiedRead ==
  ASSUME IsBody(body, next_id), Verified(body), NEW op \in Range(body), op.kind = "mem_read"
  PROVE  op.ty = IntType(TypeOf(body, op.in[2]).width)
<1>1. PICK k \in DOMAIN body : op = body[k]
  BY DEF Range
<1>2. verify(OperandTypes(body, op))
  BY <1>1 DEF Verified
<1>3. WellBuilt(op) /\ op.in \in Seq(Nat) /\ Len(op.in) = 3
  BY DEF IsBody, WellBuilt
<1>4. PICK in : in = [j \in DOMAIN op.in |-> TypeOf(body, op.in[j])]
  OBVIOUS
<1>5. in[2] = TypeOf(body, op.in[2])
  BY <1>3, <1>4
<1>6. PICK typed : typed = OperandTypes(body, op)
  OBVIOUS
<1>7. typed = [id |-> op.id, kind |-> op.kind, target |-> op.target, attr |-> op.attr,
               in |-> in, ty |-> op.ty, name |-> op.name]
  BY <1>3, <1>4, <1>6 DEF OperandTypes, WellBuilt
<1>8. typed.kind = "mem_read" /\ typed.in = in /\ typed.ty = op.ty
  BY <1>7
<1>9. verify_mem_read(typed)
  BY <1>2, <1>6, <1>8 DEF verify, Targeted, Declarations
<1> QED
  BY <1>5, <1>8, <1>9 DEF verify_mem_read

\* What is declared is what is stored.
LEMMA InvTypeStored == IInv => TypeStored
<1> SUFFICES ASSUME IInv, status = "ok", Validated(body),
                    NEW op \in Range(body), op.kind \in Implicit, op.target \notin InputNames,
                    \A o \in Range(body) : o.kind \in {"wire_decl", "reg_decl"} => o.target # op.target
             PROVE  \E d \in Range(declarations) : d.name = op.target /\ d.ty = StoredType(op)
  BY DEF TypeStored
<1>1. /\ body \in Seq(Range(body)) /\ pos = Len(body) /\ Verified(body) /\ IsBody(body, next_id)
      /\ Lists(body, pos, declared_names, declarations)
  BY DEF IInv, Progress, IsBody
<1>2. PICK k \in DOMAIN body : op = body[k]
  BY DEF Range
<1>3. PICK n \in Nat : n = pos /\ DOMAIN body = 1..n
  BY <1>1
<1>4. ASSUME NEW i \in 1..(k - 1), body[i].kind \in Declaring, body[i].target = op.target PROVE FALSE
  <2>1. i \in DOMAIN body /\ i # k /\ body[i] \in Range(body)
    BY <1>2, <1>3 DEF Range
  <2>2. body[i].kind \notin {"wire_decl", "reg_decl"}
    BY <1>4, <2>1
  <2> QED
    BY <1>1, <1>2, <1>4, <2>1, <2>2, TargetsApart, LookedAt
<1>5. IsFirst(body, k)
  BY <1>2, <1>4, KindsApart DEF IsFirst
<1>6. PICK i \in DOMAIN declarations :
         declarations[i].name = op.target /\ declarations[i].ty = DeclaredType(body, op)
  BY <1>1, <1>2, <1>3, <1>5 DEF Lists
<1>7. DeclaredType(body, op) = StoredType(op)
  <2>1. CASE op.kind = "mem_read"
    <3>1. DeclaredType(body, op) = op.ty
      BY <2>1 DEF DeclaredType, Declarations
    <3>2. StoredType(op) = IntType(TypeOf(body, op.in[2]).width)
      BY <2>1 DEF StoredType
    <3> QED
      BY <1>1, <2>1, <3>1, <3>2, VerifiedRead
  <2>2. CASE op.kind \in {"assign", "always_comb"}
    BY <2>2 DEF DeclaredType, StoredType, Declarations
  <2>3. CASE op.kind \in {"always_ff", "always_ff_no_reset"}
    BY <2>3 DEF DeclaredType, StoredType, Declarations
  <2> QED
    BY <2>1, <2>2, <2>3 DEF Implicit
<1> QED
  BY <1>6, <1>7 DEF Range

\* In the text of a module that validate_module accepts, every name has the type
\* of what is stored in it, unless it is an input or declared as a wire or a register.
THEOREM AcceptedTextTypes == Spec => []TypeStored
  BY TextFollows, InvTypeStored, PTL

-----------------------------------------------------------------------------
(* Names.                                                                   *)

\* Everything in the body has been printed, and names are as OwnNames asks.
Complete ==
  /\ IInv /\ status = "ok" /\ OwnNames

KnownNames == InputNames \cup DeclaredBy(body, Len(body)) \cup MemoryNames

\* The invariant, for a body printed to its end.
LEMMA AllPrinted ==
  ASSUME Complete
  PROVE  /\ IsBody(body, next_id) /\ body \in Seq(Range(body)) /\ Verified(body) /\ ports = Header
         /\ Texts(body, Len(body), statements)
         /\ Lists(body, Len(body), declared_names, declarations)
         /\ Len(body) \in Nat /\ DOMAIN body = 1..Len(body)
         /\ \A k \in DOMAIN body : body[k] \in Range(body) /\ body[k].kind \in Kinds
<1>1. IsBody(body, next_id) /\ body \in Seq(Range(body))
  BY DEF Complete, IInv, IsBody
<1>2. DOMAIN body = 1..Len(body) /\ Len(body) \in Nat /\ pos = Len(body)
  BY <1>1 DEF Complete, IInv, Progress
<1>3. \A k \in DOMAIN body : body[k] \in Range(body)
  BY DEF Range
<1> QED
  BY <1>1, <1>2, <1>3 DEF Complete, IInv, Progress, Kinds

\* What the verifier of each operation asks, with the types of its operands.
LEMMA VerifiedOp ==
  ASSUME Complete, NEW op \in Range(body)
  PROVE  /\ op.in \in Seq(Nat)
         /\ op.kind \in Declarations \cup {"assign", "mem_decl", "mem_read"} => op.target # NoTarget
         /\ op.kind = "always_ff_no_reset" => Len(op.in) = 2 /\ TypeOf(body, op.in[1]) = Clock
         /\ op.kind = "always_ff" =>
              Len(op.in) = 4 /\ TypeOf(body, op.in[1]) = Clock /\ TypeOf(body, op.in[3]) = Reset
         /\ op.kind = "mem_read" =>
              Len(op.in) = 3 /\ TypeOf(body, op.in[1]) = Clock /\ TypeOf(body, op.in[2]).sort = "mem"
         /\ op.kind = "mem_write" =>
              Len(op.in) = 5 /\ TypeOf(body, op.in[1]) = Clock /\ TypeOf(body, op.in[2]).sort = "mem"
<1>1. PICK k \in DOMAIN body : op = body[k]
  BY DEF Range
<1>2. verify(OperandTypes(body, op)) /\ WellBuilt(op)
  BY <1>1, AllPrinted DEF Verified, IsBody
<1>3. op.in \in Seq(Nat)
  BY <1>2 DEF WellBuilt
<1>4. PICK in : in = [j \in DOMAIN op.in |-> TypeOf(body, op.in[j])]
  OBVIOUS
<1>5. \A j \in DOMAIN op.in : in[j] = TypeOf(body, op.in[j])
  BY <1>4
<1>6. PICK typed : typed = OperandTypes(body, op)
  OBVIOUS
<1>7. typed = [id |-> op.id, kind |-> op.kind, target |-> op.target, attr |-> op.attr,
               in |-> in, ty |-> op.ty, name |-> op.name]
  BY <1>2, <1>4, <1>6 DEF OperandTypes, WellBuilt
<1>8. typed.kind = op.kind /\ typed.in = in /\ typed.target = op.target /\ verify(typed)
  BY <1>2, <1>6, <1>7
<1>9. op.kind \in Declarations \cup {"assign", "mem_decl", "mem_read"} => op.target # NoTarget
  BY <1>8 DEF verify, Targeted, Declarations, verify_assign, verify_mem_decl, verify_mem_read
<1>10. op.kind = "always_ff_no_reset" => Len(op.in) = 2 /\ in[1] = Clock
  BY <1>2, <1>8 DEF verify, Targeted, Declarations, verify_always_ff_no_reset, WellBuilt
<1>11. op.kind = "always_ff" => Len(op.in) = 4 /\ in[1] = Clock /\ in[3] = Reset
  BY <1>2, <1>8 DEF verify, Targeted, Declarations, verify_always_ff, WellBuilt
<1>12. op.kind = "mem_read" => Len(op.in) = 3 /\ in[1] = Clock /\ in[2].sort = "mem"
  BY <1>2, <1>8 DEF verify, Targeted, Declarations, verify_mem_read, WellBuilt
<1>13. op.kind = "mem_write" => Len(op.in) = 5 /\ in[1] = Clock /\ in[2].sort = "mem"
  BY <1>2, <1>8 DEF verify, Targeted, Declarations, verify_mem_write, WellBuilt
<1>14. DOMAIN op.in = 1..Len(op.in)
  BY <1>3
<1> QED
  BY <1>3, <1>5, <1>9, <1>10, <1>11, <1>12, <1>13, <1>14

\* The target of what declares one, and of a memory, is known.
LEMMA KnownTarget ==
  ASSUME Complete, NEW op \in Range(body), op.kind \in Declaring \cup {"mem_decl"}
  PROVE  op.target \in KnownNames
<1>1. PICK k \in 1..Len(body) : op = body[k]
  BY AllPrinted DEF Range
<1> QED
  BY <1>1 DEF KnownNames, DeclaredBy, MemoryNames

\* The name of a value that is not an expression is known.
LEMMA KnownLeaf ==
  ASSUME Complete, NEW v \in Values(body), ~IsExpression(body, v)
  PROVE  value_name(body, v) \in KnownNames /\ memory_name(body, v) \in KnownNames
<1>1. CASE IsInput(v)
  BY <1>1 DEF value_name, memory_name, KnownNames, InputNames, IsInput
<1>2. CASE ~IsInput(v)
  <2>1. PICK op : op = DefiningOp(body, v)
    OBVIOUS
  <2>2. op \in Range(body) /\ op.ty # NoType /\ op.kind \notin Expressions /\ WellBuilt(op)
    BY <1>2, <2>1, AllPrinted, Defined DEF IsExpression, IsBody
  <2>3. op.kind \in Kinds \ (Effects \cup Expressions \cup {"compreg", "bpa", "nba"})
    <3>1. op.kind \in Kinds
      BY <2>2, AllPrinted DEF Range
    <3>2. op.kind \notin {"bpa", "nba", "compreg"}
      BY <2>2 DEF Complete, OwnNames
    <3>3. op.kind \notin Effects
      BY <2>2 DEF WellBuilt
    <3> QED
      BY <2>2, <3>1, <3>2, <3>3
  <2>4. op.kind \in Declarations \cup {"assign", "mem_decl", "mem_read"}
    BY <2>3 DEF Kinds, Effects, Printable, Implicit, Omitted
  <2>5. op.name = op.target /\ op.target # Unnamed
    BY <2>2, <2>4, VerifiedOp DEF Complete, OwnNames, NamedAfterTarget, NoTarget, Unnamed
  <2>6. value_name(body, v) = op.target /\ memory_name(body, v) = op.target
    BY <1>2, <2>1, <2>5 DEF value_name, memory_name
  <2> QED
    BY <2>2, <2>4, <2>6, KnownTarget DEF Declaring, Implicit
<1> QED
  BY <1>1, <1>2

\* The name of a clock, a reset or a memory is known.
LEMMA KnownControl ==
  ASSUME Complete, NEW v \in Values(body), TypeOf(body, v).sort # "int"
  PROVE  value_name(body, v) \in KnownNames /\ memory_name(body, v) \in KnownNames
<1>1. ~IsExpression(body, v)
  <2> SUFFICES ASSUME IsExpression(body, v) PROVE FALSE
    OBVIOUS
  <2>1. DefiningOp(body, v) \in Range(body) /\ TypeOf(body, v) = DefiningOp(body, v).ty
    BY AllPrinted, Defined DEF IsExpression, TypeOf
  <2> QED
    BY <2>1 DEF IsExpression, Complete, OwnNames, ComputesIntegers, IsInt
<1> QED
  BY <1>1, KnownLeaf

\* The names read in an expression are known.
LEMMA KnownReads ==
  ASSUME Complete, NEW v \in Values(body)
  PROVE  Reads(body, v) \subseteq KnownNames
<1>1. LeafNames(body) \subseteq KnownNames
  BY KnownLeaf DEF LeafNames
<1> QED
  BY <1>1, AllPrinted, ReadsLeaves

\* What a statement reads, and the memory it writes, is known.
LEMMA KnownInStatement ==
  ASSUME Complete, NEW op \in Range(body), op.kind \in Printable
  PROVE  /\ Rendered(body, op).reads \subseteq KnownNames
         /\ Rendered(body, op).form = "write" => Rendered(body, op).target \in KnownNames
<1>1. op.in \in Seq(Nat) /\ DOMAIN op.in = 1..Len(op.in)
  BY VerifiedOp
<1>2. \A k \in DOMAIN op.in : op.in[k] \in Values(body)
  BY AllPrinted DEF IsBody, Range
<1>3. \A k \in DOMAIN op.in : Reads(body, op.in[k]) \subseteq KnownNames
  BY <1>2, KnownReads
<1>4. \A k \in DOMAIN op.in : TypeOf(body, op.in[k]).sort # "int" =>
        value_name(body, op.in[k]) \in KnownNames /\ memory_name(body, op.in[k]) \in KnownNames
  BY <1>2, KnownControl
<1>5. Clock.sort # "int" /\ Reset.sort # "int" /\ "mem" # "int"
  BY DEF Clock, Reset
<1>6. AllReads(body, op) \subseteq KnownNames
  BY <1>3 DEF AllReads
<1>7. CASE op.kind = "mem_decl"
  BY <1>7, RenderedMemory DEF Statement
<1>8. CASE op.kind = "mem_read"
  <2>1. 1 \in DOMAIN op.in /\ 2 \in DOMAIN op.in /\ 3 \in DOMAIN op.in
    <3>1. Len(op.in) = 3
      BY <1>8, VerifiedOp
    <3> QED
      BY <1>1, <3>1
  <2>2. value_name(body, op.in[1]) \in KnownNames /\ memory_name(body, op.in[2]) \in KnownNames
    BY <1>4, <1>5, <1>8, <2>1, VerifiedOp
  <2> QED
    BY <1>3, <1>8, <2>1, <2>2, RenderedRead DEF Statement
<1>9. CASE op.kind = "mem_write"
  <2>1. 1 \in DOMAIN op.in /\ 2 \in DOMAIN op.in /\ \A k \in 3..5 : k \in DOMAIN op.in
    <3>1. Len(op.in) = 5
      BY <1>9, VerifiedOp
    <3> QED
      BY <1>1, <3>1
  <2>2. value_name(body, op.in[1]) \in KnownNames /\ memory_name(body, op.in[2]) \in KnownNames
    BY <1>4, <1>5, <1>9, <2>1, VerifiedOp
  <2>3. UNION {Reads(body, op.in[k]) : k \in 3..5} \subseteq KnownNames
    BY <1>3, <2>1
  <2> QED
    BY <1>9, <2>2, <2>3, RenderedWrite DEF Statement
<1>10. CASE op.kind = "always_ff_no_reset"
  <2>1. 1 \in DOMAIN op.in /\ 2 \in DOMAIN op.in
    <3>1. Len(op.in) = 2
      BY <1>10, VerifiedOp
    <3> QED
      BY <1>1, <3>1
  <2>2. value_name(body, op.in[1]) \in KnownNames
    BY <1>4, <1>5, <1>10, <2>1, VerifiedOp
  <2> QED
    BY <1>3, <1>10, <2>1, <2>2, RenderedFfNoReset DEF Statement
<1>11. CASE op.kind = "always_ff"
  <2>1. 1 \in DOMAIN op.in /\ 2 \in DOMAIN op.in /\ 3 \in DOMAIN op.in /\ 4 \in DOMAIN op.in
    <3>1. Len(op.in) = 4
      BY <1>11, VerifiedOp
    <3> QED
      BY <1>1, <3>1
  <2>2. value_name(body, op.in[1]) \in KnownNames /\ value_name(body, op.in[3]) \in KnownNames
    BY <1>4, <1>5, <1>11, <2>1, VerifiedOp
  <2> QED
    BY <1>3, <1>11, <2>1, <2>2, RenderedFf DEF Statement
<1>12. CASE op.kind \in {"instance", "assign", "always_comb", "bpa", "nba"}
  BY <1>6, <1>12, RenderedOther DEF Statement
<1> QED
  BY <1>7, <1>8, <1>9, <1>10, <1>11, <1>12 DEF Printable, Implicit

\* Every name of the text is known.
LEMMA MentionedKnown ==
  ASSUME Complete
  PROVE  Mentioned \subseteq KnownNames
<1>1. ASSUME NEW s \in Range(statements)
      PROVE  /\ s.reads \subseteq KnownNames
             /\ s.form \in Driving \cup {"write"} => s.target \in KnownNames
  <2>1. PICK op \in Range(body) : op.kind \in Printable /\ s = Rendered(body, op)
    <3>1. statements \in Seq(Range(statements)) /\ DOMAIN statements = 1..Len(statements)
      BY AllPrinted DEF Texts
    <3>2. PICK from \in [1..Len(statements) -> 1..Len(body)] :
            \A i \in 1..Len(statements) :
              body[from[i]].kind \in Printable /\ statements[i] = Rendered(body, body[from[i]])
      BY AllPrinted DEF Texts
    <3>3. PICK i \in 1..Len(statements) : s = statements[i]
      BY <3>1 DEF Range
    <3>4. from[i] \in DOMAIN body
      BY <3>2, AllPrinted
    <3> QED
      BY <3>2, <3>3, <3>4 DEF Range
  <2>2. s.form \in Driving => op.kind \in Declaring /\ s.target = op.target
    <3>1. op.kind \notin {"bpa", "nba"}
      BY DEF Complete, OwnNames
    <3> QED
      BY <2>1, <3>1, DrivingKinds, KindsApart
  <2> QED
    BY <2>1, <2>2, KnownInStatement, KnownTarget
<1> QED
  BY <1>1 DEF Mentioned

\* A set of equal elements that has one, and one that has none.
LEMMA ExactlyOne ==
  ASSUME NEW S
  PROVE  /\ (\E x \in S : \A y \in S : x = y) => Cardinality(S) = 1
         /\ (\A x \in S : FALSE) => Cardinality(S) = 0
<1>1. ASSUME NEW x \in S, \A y \in S : x = y PROVE Cardinality(S) = 1
  <2>1. S = {x}
    BY <1>1
  <2> QED
    BY <2>1, FS_Singleton
<1>2. ASSUME \A x \in S : FALSE PROVE Cardinality(S) = 0
  <2>1. S = {}
    BY <1>2
  <2> QED
    BY <2>1, FS_EmptySet
<1> QED
  BY <1>1, <1>2

\* Inputs, other targets and memories have different names.
LEMMA KnownApart ==
  ASSUME Complete
  PROVE  MemoryNames \cap (InputNames \cup DeclaredBy(body, Len(body))) = {}
<1> SUFFICES ASSUME NEW n \in MemoryNames
             PROVE  n \notin InputNames /\ n \notin DeclaredBy(body, Len(body))
  OBVIOUS
<1>1. PICK k \in DOMAIN body : body[k].kind = "mem_decl" /\ body[k].target = n
  BY DEF MemoryNames, Range
<1>2. n \notin InputNames \cup {body[j].target : j \in DOMAIN body \ {k}}
  BY <1>1 DEF Complete, OwnNames
<1>3. ASSUME NEW j \in 1..Len(body), body[j].kind \in Declaring PROVE body[j].target # n
  BY <1>1, <1>2, <1>3, AllPrinted, KindsApart
<1> QED
  BY <1>2, <1>3 DEF DeclaredBy

\* The header has one port for every input.
LEMMA CountPorts ==
  ASSUME Complete, NEW n
  PROVE  Cardinality({i \in DOMAIN ports : ports[i].name = n}) = IF n \in InputNames THEN 1 ELSE 0
<1>1. PICK S : S = {i \in DOMAIN ports : ports[i].name = n}
  OBVIOUS
<1>2. S = {i \in DOMAIN Inputs : Inputs[i].name = n}
  BY <1>1, AllPrinted DEF Header
<1>3. CASE n \in InputNames
  <2>1. PICK i \in DOMAIN Inputs : Inputs[i].name = n
    BY <1>3 DEF InputNames
  <2>2. i \in S /\ \A j \in S : i = j
    BY <1>2, <2>1, InputsAssumption DEF InputsAssumption
  <2>3. Cardinality(S) = 1
    BY <2>2, ExactlyOne
  <2> QED
    BY <1>1, <1>3, <2>3
<1>4. CASE n \notin InputNames
  <2>1. \A i \in S : FALSE
    BY <1>2, <1>4 DEF InputNames
  <2>2. Cardinality(S) = 0
    BY <2>1, ExactlyOne
  <2> QED
    BY <1>1, <1>4, <2>2
<1> QED
  BY <1>3, <1>4

\* There is one declaration for every other target.
LEMMA CountDeclarations ==
  ASSUME Complete, NEW n
  PROVE  Cardinality({i \in DOMAIN declarations : declarations[i].name = n})
           = IF n \in DeclaredBy(body, Len(body)) \ InputNames THEN 1 ELSE 0
<1>1. PICK S : S = {i \in DOMAIN declarations : declarations[i].name = n}
  OBVIOUS
<1>2. /\ {declarations[i].name : i \in DOMAIN declarations} = DeclaredBy(body, Len(body)) \ InputNames
      /\ \A i, j \in DOMAIN declarations : declarations[i].name = declarations[j].name => i = j
  BY AllPrinted DEF Lists
<1>3. CASE n \in DeclaredBy(body, Len(body)) \ InputNames
  <2>1. PICK i \in DOMAIN declarations : declarations[i].name = n
    BY <1>2, <1>3
  <2>2. i \in S /\ \A j \in S : i = j
    BY <1>1, <1>2, <2>1
  <2>3. Cardinality(S) = 1
    BY <2>2, ExactlyOne
  <2> QED
    BY <1>1, <1>3, <2>3
<1>4. CASE n \notin DeclaredBy(body, Len(body)) \ InputNames
  <2>1. \A i \in S : FALSE
    BY <1>1, <1>2, <1>4
  <2>2. Cardinality(S) = 0
    BY <2>1, ExactlyOne
  <2> QED
    BY <1>1, <1>4, <2>2
<1> QED
  BY <1>3, <1>4

\* There is one statement for every memory.
LEMMA CountMemories ==
  ASSUME Complete, NEW n
  PROVE  Cardinality({i \in DOMAIN statements :
                        statements[i].form = "memory" /\ statements[i].target = n})
           = IF n \in MemoryNames THEN 1 ELSE 0
<1>1. PICK S : S = {i \in DOMAIN statements :
                      statements[i].form = "memory" /\ statements[i].target = n}
  OBVIOUS
<1>2. statements \in Seq(Range(statements)) /\ DOMAIN statements = 1..Len(statements)
  BY AllPrinted DEF Texts
<1>3. PICK from \in [1..Len(statements) -> 1..Len(body)] :
         /\ \A i, j \in 1..Len(statements) : from[i] = from[j] => i = j
         /\ \A i \in 1..Len(statements) :
              body[from[i]].kind \in Printable /\ statements[i] = Rendered(body, body[from[i]])
         /\ \A j \in 1..Len(body) : body[j].kind \in Printable =>
              \E i \in 1..Len(statements) : from[i] = j
  BY AllPrinted DEF Texts
<1>4. ASSUME NEW i \in S
      PROVE  from[i] \in DOMAIN body /\ body[from[i]].kind = "mem_decl" /\ body[from[i]].target = n
  <2>1. i \in 1..Len(statements) /\ statements[i].form = "memory" /\ statements[i].target = n
    BY <1>1, <1>2, <1>4
  <2>2. PICK op : op = body[from[i]]
    OBVIOUS
  <2>3. op.kind \in Printable /\ Rendered(body, op).form = "memory"
    BY <1>3, <2>1, <2>2
  <2>4. op.kind = "mem_decl"
    BY <2>3, FormOfMemory
  <2>5. Rendered(body, op).target = op.target
    BY <2>4, RenderedMemory DEF Statement
  <2> QED
    BY <1>3, <2>1, <2>2, <2>4, <2>5, AllPrinted
<1>5. ASSUME NEW i \in S, NEW j \in S PROVE i = j
  <2>1. from[i] = from[j]
    BY <1>4, <1>5 DEF Complete, OwnNames
  <2> QED
    BY <1>1, <1>2, <1>3, <2>1
<1>6. CASE n \in MemoryNames
  <2>1. PICK k \in DOMAIN body : body[k].kind = "mem_decl" /\ body[k].target = n
    BY <1>6 DEF MemoryNames, Range
  <2>2. PICK i \in 1..Len(statements) : from[i] = k
    BY <1>3, <2>1, AllPrinted, KindsApart
  <2>3. statements[i] = Statement("memory", n, {})
    BY <1>3, <2>1, <2>2, RenderedMemory
  <2>4. i \in S
    BY <1>1, <1>2, <2>3 DEF Statement
  <2> QED
    BY <1>1, <1>5, <1>6, <2>4, ExactlyOne
<1>7. CASE n \notin MemoryNames
  <2>1. \A i \in S : FALSE
    BY <1>4, <1>7 DEF MemoryNames, Range
  <2> QED
    BY <1>1, <1>7, <2>1, ExactlyOne
<1> QED
  BY <1>6, <1>7

\* Every name of the text is declared, once.
LEMMA InvDeclaredOnce == IInv => DeclaredOnce
<1> SUFFICES ASSUME Complete, NEW n \in Mentioned PROVE Declared(n) = 1
  BY DEF DeclaredOnce, Complete
<1>1. n \in KnownNames
  BY MentionedKnown
<1>2. PICK ofPorts : ofPorts = Cardinality({i \in DOMAIN ports : ports[i].name = n})
  OBVIOUS
<1>3. PICK ofList : ofList = Cardinality({i \in DOMAIN declarations : declarations[i].name = n})
  OBVIOUS
<1>4. PICK ofMemories :
         ofMemories = Cardinality({i \in DOMAIN statements :
                                     statements[i].form = "memory" /\ statements[i].target = n})
  OBVIOUS
<1>5. Declared(n) = ofPorts + ofList + ofMemories
  BY <1>2, <1>3, <1>4 DEF Declared
<1>6. ofPorts = IF n \in InputNames THEN 1 ELSE 0
  BY <1>2, CountPorts
<1>7. ofList = IF n \in DeclaredBy(body, Len(body)) \ InputNames THEN 1 ELSE 0
  BY <1>3, CountDeclarations
<1>8. ofMemories = IF n \in MemoryNames THEN 1 ELSE 0
  BY <1>4, CountMemories
<1> QED
  BY <1>1, <1>5, <1>6, <1>7, <1>8, KnownApart DEF KnownNames

\* In the text of a module where results bear the names of their targets, memories
\* have names of their own and expressions compute integers, every name is
\* declared, and declared once, however many operations have it as their target.
THEOREM TextDeclaresOnce == Spec => []DeclaredOnce
  BY TextFollows, InvDeclaredOnce, PTL

-----------------------------------------------------------------------------
(* Elimination.                                                             *)

\* A value has the same name where its operation has the same kind and name.
LEMMA ValueKept ==
  ASSUME NEW b, NEW next, IsBody(b, next), NEW c, NEW later, IsBody(c, later),
         NEW v \in Values(b),
         \A o \in Range(b) : o.id = v =>
           \E p \in Range(c) : p.id = v /\ p.kind = o.kind /\ p.name = o.name
  PROVE  (IsExpression(c, v) <=> IsExpression(b, v)) /\ value_name(c, v) = value_name(b, v)
<1>1. CASE IsInput(v)
  BY <1>1 DEF IsExpression, value_name
<1>2. CASE ~IsInput(v)
  <2>1. PICK o : o = DefiningOp(b, v) /\ o \in Range(b) /\ o.id = v
    BY <1>2, Defined
  <2>2. PICK p \in Range(c) : p.id = v /\ p.kind = o.kind /\ p.name = o.name
    BY <2>1
  <2>3. DefiningOp(c, v) = p
    BY <2>2, Defining
  <2> QED
    BY <1>2, <2>1, <2>2, <2>3 DEF IsExpression, value_name
<1> QED
  BY <1>1, <1>2

\* Insert takes no driver away.
LEMMA InsertKeepsDrivers ==
  ASSUME IsBody(body, next_id), IsBody(body', next_id'), NEW op \in Templates, Insert(op),
         NEW n, DrivenIn(body, n)
  PROVE  DrivenIn(body', n)
<1>1. PICK o \in Range(body) : o.kind \in Implicit /\ o.target = n /\ ~SelfAssigned(body, o)
  BY DEF DrivenIn
<1>2. Range(body) \subseteq Range(body')
  BY OneMore DEF Insert, IsBody
<1>3. ~SelfAssigned(body', o)
  <2> SUFFICES ASSUME o.kind = "assign"
               PROVE  /\ IsExpression(body', o.in[1]) <=> IsExpression(body, o.in[1])
                      /\ value_name(body', o.in[1]) = value_name(body, o.in[1])
    BY <1>1 DEF SelfAssigned
  <2>1. o.in \in Seq(Nat) /\ Len(o.in) = 1
    BY DEF IsBody, WellBuilt
  <2>2. o.in[1] \in Range(o.in)
    BY <2>1 DEF Range
  <2>3. o.in[1] \in Values(body)
    BY <2>2 DEF IsBody
  <2> QED
    BY <1>2, <2>3, ValueKept
<1> QED
  BY <1>1, <1>2, <1>3 DEF DrivenIn

\* The name of the result of an eliminated assignment is the name of its source.
LEMMA EliminatedNames ==
  ASSUME IsBody(body, next_id), NEW k \in DOMAIN body, EliminateRedundantAssign(k),
         NamedAfterTarget(body[k])
  PROVE  /\ ~IsExpression(body, body[k].id) /\ value_name(body, body[k].id) = body[k].target
         /\ value_name(body, body[k].in[1]) = body[k].target
         /\ IsExpression(body, body[k].in[1]) => body[k].target \in NamesOfExpressions(body)
<1>1. PICK gone : gone = body[k]
  OBVIOUS
<1>2. PICK src : src = gone.in[1]
  OBVIOUS
<1>3. /\ gone.kind = "assign" /\ gone \in Range(body) /\ src \in Values(body)
      /\ GivenName(body, src) # Unnamed /\ gone.target = GivenName(body, src)
      /\ gone.name = gone.target
  BY <1>1, <1>2, EraseKeepsBody DEF EliminateRedundantAssign, NamedAfterTarget
<1>4. DefiningOp(body, gone.id) = gone /\ ~IsInput(gone.id)
  BY <1>3, Defining
<1>5. ~IsExpression(body, gone.id) /\ value_name(body, gone.id) = gone.target
  BY <1>3, <1>4 DEF IsExpression, Expressions, value_name
<1>6. value_name(body, src) = gone.target
  BY <1>3 DEF value_name, GivenName
<1>7. IsExpression(body, src) => gone.target \in NamesOfExpressions(body)
  <2> SUFFICES ASSUME IsExpression(body, src) PROVE gone.target \in NamesOfExpressions(body)
    OBVIOUS
  <2>1. DefiningOp(body, src) \in Range(body) /\ GivenName(body, src) = DefiningOp(body, src).name
    BY <1>3, Defined DEF IsExpression, GivenName
  <2> QED
    BY <1>3, <2>1 DEF NamesOfExpressions, IsExpression
<1> QED
  BY <1>1, <1>2, <1>5, <1>6, <1>7

\* An elimination takes its driver from no name that no expression bears.
LEMMA EliminateKeepsDrivers ==
  ASSUME IsBody(body, next_id), NEW k \in DOMAIN body, EliminateRedundantAssign(k),
         \A op \in Range(body) : NamedAfterTarget(op),
         NEW n, n \notin NamesOfExpressions(body), DrivenIn(body, n)
  PROVE  DrivenIn(body', n)
<1>1. PICK o \in Range(body) : o.kind \in Implicit /\ o.target = n /\ ~SelfAssigned(body, o)
  BY DEF DrivenIn
<1>2. PICK gone : gone = body[k]
  OBVIOUS
<1>3. PICK src : src = gone.in[1]
  OBVIOUS
<1>4. PICK c : c = body'
  OBVIOUS
<1>5. /\ IsBody(c, next_id) /\ gone \in Range(body) /\ WellBuilt(gone)
      /\ src \in Values(body) /\ src < gone.id /\ gone.kind = "assign"
      /\ \A p \in Range(body) : p # gone => Redirected(p, gone.id, src) \in Range(c)
  BY <1>2, <1>3, <1>4, EraseKeepsBody DEF EliminateRedundantAssign
<1>6. /\ ~IsExpression(body, gone.id) /\ value_name(body, gone.id) = gone.target
      /\ value_name(body, src) = gone.target
      /\ IsExpression(body, src) => gone.target \in NamesOfExpressions(body)
  BY <1>2, <1>3, <1>5, EliminatedNames
<1>7. o # gone
  BY <1>1, <1>3, <1>5, <1>6 DEF SelfAssigned
<1>8. src \in Nat
  <2>1. gone.in \in Seq(Nat) /\ Len(gone.in) = 1
    BY <1>5 DEF WellBuilt
  <2> QED
    BY <1>3, <2>1
<1>9. \A p \in Range(body) : WellBuilt(p) /\ gone.id \in Nat
  BY <1>5 DEF IsBody
<1>10. \A v \in Values(body) : v # gone.id =>
         (IsExpression(c, v) <=> IsExpression(body, v)) /\ value_name(c, v) = value_name(body, v)
  <2> SUFFICES ASSUME NEW v \in Values(body), v # gone.id,
                      NEW p \in Range(body), p.id = v
               PROVE  \E q \in Range(c) : q.id = v /\ q.kind = p.kind /\ q.name = p.name
    BY <1>5, ValueKept
  <2>1. PICK q : q = Redirected(p, gone.id, src)
    OBVIOUS
  <2>2. q \in Range(c) /\ q.id = v /\ q.kind = p.kind /\ q.name = p.name
    BY <1>5, <1>8, <1>9, <2>1, RedirectedOp
  <2> QED
    BY <2>2
<1>11. PICK new : new = Redirected(o, gone.id, src)
  OBVIOUS
<1>12. /\ new \in Range(c) /\ new.kind = o.kind /\ new.target = o.target
       /\ \A j \in DOMAIN o.in : new.in[j] = IF o.in[j] = gone.id THEN src ELSE o.in[j]
  BY <1>1, <1>5, <1>7, <1>8, <1>9, <1>11, RedirectedOp
<1>13. ~SelfAssigned(c, new)
  <2> SUFFICES ASSUME o.kind = "assign", ~IsExpression(c, new.in[1]),
                      value_name(c, new.in[1]) = o.target
               PROVE  SelfAssigned(body, o)
    BY <1>1, <1>12 DEF SelfAssigned
  <2>1. o.in \in Seq(Nat) /\ Len(o.in) = 1
    BY <1>9 DEF WellBuilt
  <2>2. PICK u : u = o.in[1] /\ u \in Values(body)
    BY <2>1 DEF IsBody, Range
  <2>3. new.in[1] = IF u = gone.id THEN src ELSE u
    BY <1>12, <2>1, <2>2
  <2>4. CASE u = gone.id
    <3>1. value_name(c, src) = value_name(body, src)
      BY <1>5, <1>8, <1>9, <1>10
    <3> QED
      BY <1>6, <2>2, <2>3, <2>4, <3>1 DEF SelfAssigned
  <2>5. CASE u # gone.id
    BY <1>10, <2>2, <2>3, <2>5 DEF SelfAssigned
  <2> QED
    BY <2>4, <2>5
<1> QED
  BY <1>1, <1>4, <1>12, <1>13 DEF DrivenIn

\* The steps that build the body keep the drivers; printing leaves it alone.
LEMMA NextKeepsDrivers ==
  ASSUME IInv, [Next]_vars, \A op \in Range(body) : NamedAfterTarget(op),
         NEW n, n \notin NamesOfExpressions(body), DrivenIn(body, n), body' # body
  PROVE  DrivenIn(body', n)
<1>1. IsBody(body, next_id) /\ IsBody(body', next_id')
  BY NextInv DEF IInv
<1>2. ASSUME NEW op \in Templates, Insert(op) PROVE DrivenIn(body', n)
  BY <1>1, <1>2, InsertKeepsDrivers
<1>3. ASSUME NEW k \in DOMAIN body, EliminateRedundantAssign(k) PROVE DrivenIn(body', n)
  BY <1>1, <1>3, EliminateKeepsDrivers
<1>4. ~StartPrinting /\ ~NotVerified /\ ~Finish /\ ~Returned /\ ~UNCHANGED vars
  BY DEF StartPrinting, NotVerified, Finish, Returned, vars
<1>5. \A op : ~Visiting(op)
  BY DEF Visiting
<1>6. \A op : ~PrintDeclaration(op) /\ ~PrintStatement(op) /\ ~EmptyMemory(op) /\ ~Omit(op) /\ ~Unsupported(op)
  BY <1>5 DEF PrintDeclaration, PrintStatement, EmptyMemory, Omit, Unsupported
<1> QED
  BY <1>2, <1>3, <1>4, <1>6 DEF Next

\* eliminate_redundant_assign takes its driver from no name, where results bear
\* the names of their targets and no expression bears the name.
THEOREM EliminationIsSafe == Spec => EliminationKeepsDrivers
<1>1. IInv /\ [Next]_vars =>
        [(\A op \in Range(body) : NamedAfterTarget(op)) =>
           \A n \in {op.target : op \in Range(body)} \ NamesOfExpressions(body) :
             DrivenIn(body, n) => DrivenIn(body', n)]_body
  BY NextKeepsDrivers
<1> QED
  BY <1>1, TextFollows, PTL DEF Spec, EliminationKeepsDrivers
=============================================================================
