--------------------------- MODULE VParserProofs ---------------------------
(***************************************************************************)
(* Proofs about VParser, for all syntax trees, port lists and items over   *)
(* them and any number of items: which names the scope holds, which of     *)
(* them an expression needs, and what becomes of literals and of port      *)
(* widths.                                                                 *)
(***************************************************************************)
EXTENDS VParser, FiniteSetTheorems, WellFoundedInduction, TLAPS

-----------------------------------------------------------------------------
(* Induction.                                                               *)

\* What a sequence is.
LEMMA SequenceIs ==
  ASSUME NEW S, NEW s \in Seq(S)
  PROVE  /\ Len(s) \in Nat /\ DOMAIN s = 1..Len(s)
         /\ \A k \in DOMAIN s : s[k] \in S
         /\ s # << >> => Len(s) # 0
  OBVIOUS

\* A set of positive numbers with a bound has a least element.
LEMMA LeastElement ==
  ASSUME NEW n \in Nat, NEW T \in SUBSET (1..n), T # {}
  PROVE  \E x \in T : \A y \in T : x <= y
  <1> DEFINE S == 1..n
             below == {1..x : x \in T}
  <1>1. IsWellFoundedOn(StrictSubsetOrdering(S), SUBSET S)
    <2>1. IsFiniteSet(S)
      BY FS_Interval
    <2>2. FiniteSubsetsOf(S) = SUBSET S
      BY <2>1, FS_FiniteSubsetsOfFinite
    <2> QED
      BY <2>2, FS_StrictSubsetOrderingWellFounded
  <1>2. below \subseteq SUBSET S
    <2> SUFFICES ASSUME NEW x \in T PROVE 1..x \subseteq S
      OBVIOUS
    <2> QED
      OBVIOUS
  <1>3. below # {}
    OBVIOUS
  <1>4. PICK low \in below : \A y \in below : ~(<<y, low>> \in StrictSubsetOrdering(S))
    <2> HIDE DEF below
    <2> QED
      BY <1>1, <1>2, <1>3, WFMin
  <1>5. PICK x \in T : low = 1..x
    OBVIOUS
  <1>6. ASSUME NEW y \in T, y < x PROVE FALSE
    <2>1. 1..y \in below /\ 1..y \subseteq low /\ 1..y # low
      BY <1>5, <1>6
    <2> QED
      BY <1>2, <1>4, <2>1 DEF StrictSubsetOrdering
  <1> QED
    BY <1>6

\* Steps from 0 to n reach every number between.
LEMMA Climb ==
  ASSUME NEW n \in Nat, NEW T, 0 \in T, \A k \in 1..n : k - 1 \in T => k \in T
  PROVE  \A k \in 0..n : k \in T
  <1> DEFINE Bad == {m \in 1..n : m \notin T}
  <1>1. Bad = {}
    <2> SUFFICES ASSUME Bad # {} PROVE FALSE
      OBVIOUS
    <2>1. PICK m \in Bad : \A y \in Bad : m <= y
      <3>1. Bad \in SUBSET (1..n)
        OBVIOUS
      <3> HIDE DEF Bad
      <3> QED
        BY <3>1, LeastElement
    <2>2. m \in 1..n /\ m \in Nat
      OBVIOUS
    <2>3. m - 1 = 0 \/ m - 1 \in 1..n
      BY <2>2
    <2>4. ~(m <= m - 1)
      BY <2>2
    <2>5. m - 1 \in T
      BY <2>1, <2>3, <2>4
    <2> QED
      BY <2>2, <2>5
  <1>2. \A k \in 0..n : k = 0 \/ k \in 1..n
    OBVIOUS
  <1> QED
    BY <1>1, <1>2

\* What is ranked below x.
Under(D, rank, x) == {y \in D : rank[y] < rank[x]}

\* What holds of everything whose lower ranks it holds of holds of all.
LEMMA RankInduction ==
  ASSUME NEW D, NEW rank \in [D -> Nat], NEW T,
         \A x \in D : Under(D, rank, x) \subseteq T => x \in T
  PROVE  \A x \in D : x \in T
  <1> SUFFICES ASSUME NEW e \in D, e \notin T PROVE FALSE
    OBVIOUS
  <1> DEFINE n == rank[e] + 1
             Bad == {m \in 1..n : \E x \in D : x \notin T /\ m = rank[x] + 1}
  <1>1. n \in Nat /\ n \in Bad
    OBVIOUS
  <1>2. PICK m \in Bad : \A y \in Bad : m <= y
    <2>1. Bad \in SUBSET (1..n) /\ Bad # {}
      BY <1>1
    <2> HIDE DEF Bad, n
    <2> QED
      BY <1>1, <2>1, LeastElement
  <1>3. PICK x \in D : x \notin T /\ m = rank[x] + 1
    BY <1>2
  <1>4. ASSUME NEW y \in D, rank[y] < rank[x] PROVE y \in T
    <2> SUFFICES ASSUME y \notin T PROVE FALSE
      OBVIOUS
    <2>1. rank[y] \in Nat /\ rank[x] \in Nat /\ n \in Nat /\ m <= n
      BY <1>2
    <2>2. rank[y] + 1 \in 1..n
      BY <2>1, <1>3, <1>4
    <2>3. rank[y] + 1 \in Bad
      BY <2>2
    <2>4. ~(m <= rank[y] + 1)
      BY <2>1, <1>3, <1>4
    <2> HIDE DEF Bad
    <2> QED
      BY <1>2, <2>3, <2>4
  <1> QED
    BY <1>3, <1>4 DEF Under

\* What g has under x.
Cut(D, rank, g, x) == [y \in Under(D, rank, x) |-> g[y]]

Level(D, rank, n) == {x \in D : rank[x] < n}

\* g follows the step wherever the rank is less than n.
Follows(D, rank, step, V, n, g) ==
  /\ g \in [Level(D, rank, n) -> V]
  /\ \A x \in Level(D, rank, n) : g[x] = step[x][Cut(D, rank, g, x)]

\* Two functions that follow one step agree where both are defined.
LEMMA FollowersAgree ==
  ASSUME NEW D, NEW rank \in [D -> Nat], NEW V, NEW step, NEW n \in Nat, NEW m \in Nat,
         NEW g, NEW h, Follows(D, rank, step, V, n, g), Follows(D, rank, step, V, m, h)
  PROVE  \A x \in Level(D, rank, n) \cap Level(D, rank, m) : g[x] = h[x]
  <1> DEFINE Both == Level(D, rank, n) \cap Level(D, rank, m)
             T == {x \in D : x \in Both => g[x] = h[x]}
  <1>1. ASSUME NEW x \in D, Under(D, rank, x) \subseteq T PROVE x \in T
    <2> SUFFICES ASSUME x \in Both PROVE g[x] = h[x]
      OBVIOUS
    <2>1. \A y \in Under(D, rank, x) : y \in Both
      <3> SUFFICES ASSUME NEW y \in Under(D, rank, x) PROVE y \in Both
        OBVIOUS
      <3>1. y \in D /\ rank[y] < rank[x] /\ rank[y] \in Nat /\ rank[x] \in Nat
        BY DEF Under
      <3>2. rank[x] < n /\ rank[x] < m
        BY DEF Level
      <3> QED
        BY <3>1, <3>2 DEF Level
    <2>2. Cut(D, rank, g, x) = Cut(D, rank, h, x)
      BY <1>1, <2>1 DEF Cut
    <2> QED
      BY <2>2 DEF Follows
  <1> HIDE DEF T
  <1>2. \A x \in D : x \in T
    BY <1>1, RankInduction
  <1> QED
    BY <1>2 DEF T, Level

\* A step to a value of V from values of V at lower ranks.
Steps(D, rank, V, step) ==
  \A x \in D : step[x] \in [[Under(D, rank, x) -> V] -> V]

\* A step from lower ranks can be followed to any rank.
LEMMA FollowerExists ==
  ASSUME NEW D, NEW rank \in [D -> Nat], NEW V, NEW step,
         Steps(D, rank, V, step),
         NEW n \in Nat
  PROVE  \E g : Follows(D, rank, step, V, n, g)
  <1> DEFINE T == {m \in 0..n : \E g : Follows(D, rank, step, V, m, g)}
  <1>1. 0 \in T
    <2>1. Level(D, rank, 0) = {}
      BY DEF Level
    <2> DEFINE g == [x \in Level(D, rank, 0) |-> rank]
    <2>2. g \in [Level(D, rank, 0) -> V]
      BY <2>1
    <2>3. Follows(D, rank, step, V, 0, g)
      BY <2>1, <2>2 DEF Follows
    <2> HIDE DEF g
    <2> QED
      BY <2>3
  <1>2. ASSUME NEW k \in 1..n, k - 1 \in T PROVE k \in T
    <2>1. PICK g : Follows(D, rank, step, V, k - 1, g)
      BY <1>2
    <2> DEFINE L == Level(D, rank, k)
               h == [x \in L |-> step[x][Cut(D, rank, g, x)]]
    <2>2. ASSUME NEW x \in L
          PROVE  x \in D /\ Under(D, rank, x) \subseteq Level(D, rank, k - 1)
                         /\ Under(D, rank, x) \subseteq L
      <3>1. x \in D /\ rank[x] < k /\ rank[x] \in Nat
        BY DEF Level
      <3> SUFFICES ASSUME NEW y \in Under(D, rank, x)
                   PROVE  y \in Level(D, rank, k - 1) /\ y \in L
        BY <3>1
      <3>2. y \in D /\ rank[y] < rank[x] /\ rank[y] \in Nat
        BY DEF Under
      <3>3. rank[y] < k - 1 /\ rank[y] < k
        BY <3>1, <3>2
      <3> QED
        BY <3>2, <3>3 DEF Level
    <2>3. ASSUME NEW x \in L PROVE h[x] \in V
      <3>1. Cut(D, rank, g, x) \in [Under(D, rank, x) -> V]
        BY <2>1, <2>2 DEF Cut, Follows
      <3> QED
        BY <2>2, <3>1 DEF Steps
    <2>4. \A x \in Level(D, rank, k - 1) : x \in L => h[x] = g[x]
      BY <2>1 DEF Follows
    <2>5. ASSUME NEW x \in L PROVE h[x] = step[x][Cut(D, rank, h, x)]
      <3>1. \A y \in Under(D, rank, x) : h[y] = g[y]
        BY <2>2, <2>4
      <3> HIDE DEF h
      <3>2. Cut(D, rank, h, x) = Cut(D, rank, g, x)
        BY <3>1 DEF Cut
      <3> QED
        BY <3>2 DEF h
    <2>6. h \in [L -> V]
      <3>1. h = [x \in L |-> h[x]]
        OBVIOUS
      <3> HIDE DEF h
      <3> QED
        BY <2>3, <3>1
    <2> HIDE DEF h
    <2>7. Follows(D, rank, step, V, k, h)
      BY <2>5, <2>6 DEF Follows
    <2> QED
      BY <2>7
  <1>3. n \in T
    <2> HIDE DEF T
    <2>1. \A k \in 0..n : k \in T
      BY <1>1, <1>2, Climb
    <2> QED
      BY <2>1
  <1> QED
    BY <1>3

\* A step from lower ranks has a function that follows it everywhere.
LEMMA Recursion ==
  ASSUME NEW D, NEW rank \in [D -> Nat], NEW V, NEW step,
         Steps(D, rank, V, step)
  PROVE  \E g \in [D -> V] : \A x \in D : g[x] = step[x][Cut(D, rank, g, x)]
  <1> DEFINE Is(n, g) == Follows(D, rank, step, V, n, g)
             At(n) == CHOOSE g : Is(n, g)
             g == [x \in D |-> At(rank[x] + 1)[x]]
  <1>1. ASSUME NEW n \in Nat PROVE Is(n, At(n))
    <2>1. \E f : Is(n, f)
      BY FollowerExists
    <2> HIDE DEF Is
    <2> QED
      BY <2>1
  <1>2. ASSUME NEW n \in Nat, NEW x \in Level(D, rank, n)
        PROVE  x \in D /\ g[x] = At(n)[x]
    <2>1. x \in D /\ rank[x] \in Nat /\ rank[x] + 1 \in Nat
      BY DEF Level
    <2>2. x \in Level(D, rank, rank[x] + 1)
      BY <2>1 DEF Level
    <2> HIDE DEF At
    <2>3. At(rank[x] + 1)[x] = At(n)[x]
      BY <1>1, <2>1, <2>2, FollowersAgree
    <2> QED
      BY <2>1, <2>3
  <1>3. ASSUME NEW x \in D
        PROVE  g[x] \in V /\ g[x] = step[x][Cut(D, rank, g, x)]
    <2>1. PICK n \in Nat : n = rank[x] + 1
      OBVIOUS
    <2>2. x \in Level(D, rank, n) /\ Under(D, rank, x) \subseteq Level(D, rank, n)
      <3>1. rank[x] \in Nat /\ \A y \in D : rank[y] \in Nat
        OBVIOUS
      <3> QED
        BY <2>1, <3>1 DEF Level, Under
    <2>3. PICK f : f = At(n)
      OBVIOUS
    <2> HIDE DEF At, g
    <2>4. \A y \in Level(D, rank, n) : g[y] = f[y]
      BY <1>2, <2>3
    <2>5. Cut(D, rank, g, x) = Cut(D, rank, f, x)
      BY <2>2, <2>4 DEF Cut
    <2>6. Follows(D, rank, step, V, n, f)
      BY <1>1, <2>3
    <2>7. f[x] \in V /\ f[x] = step[x][Cut(D, rank, f, x)]
      BY <2>2, <2>6 DEF Follows
    <2> QED
      BY <2>2, <2>4, <2>5, <2>7
  <1>4. g \in [D -> V]
    <2>1. g = [x \in D |-> g[x]]
      OBVIOUS
    <2> HIDE DEF g
    <2> QED
      BY <1>3, <2>1
  <1> HIDE DEF g
  <1> QED
    BY <1>3, <1>4

-----------------------------------------------------------------------------
(* Trees.                                                                   *)

Ranked == [e \in Exprs |-> Height[e]]

Lower(e) == Under(Exprs, Ranked, e)

\* Expressions have kinds, the expressions inside them are expressions too, and they
\* are less high.
LEMMA InsideIs ==
  ASSUME NEW e \in Exprs
  PROVE  /\ IsExpr(e) /\ Ranked \in [Exprs -> Nat]
         /\ DOMAIN e.in = 1..Len(e.in) /\ Len(e.in) \in Nat
         /\ \A k \in DOMAIN e.in : e.in[k] \in Exprs /\ e.in[k] \in Lower(e)
  <1>1. IsExpr(e) /\ Ranked \in [Exprs -> Nat]
    BY ExprsAssumption DEF Ranked
  <1>2. e.in \in Seq(Exprs)
    BY <1>1 DEF IsExpr
  <1>3. \A k \in DOMAIN e.in : e.in[k] \in Exprs
    BY <1>2
  <1>4. \A k \in DOMAIN e.in : Height[e.in[k]] < Height[e]
    BY ExprsAssumption
  <1> QED
    BY <1>1, <1>2, <1>3, <1>4 DEF Lower, Under, Ranked

\* What is below something lower is lower.
LEMMA LowerStill ==
  ASSUME NEW e \in Exprs, NEW d \in Lower(e)
  PROVE  d \in Exprs /\ Lower(d) \subseteq Lower(e)
  <1>1. \A x \in Exprs : Ranked[x] \in Nat
    BY InsideIs
  <1> QED
    BY <1>1 DEF Lower, Under

\* The expressions inside e in which a search finds something, and the first of them.
Holding(e, f) == {k \in DOMAIN e.in : f[e.in[k]] # NoExpr}

LEMMA FirstHolding ==
  ASSUME NEW e \in Exprs, NEW f, Holding(e, f) # {}
  PROVE  Min(Holding(e, f)) \in Holding(e, f)
  <1>1. Holding(e, f) \in SUBSET (1..Len(e.in)) /\ Len(e.in) \in Nat
    BY InsideIs DEF Holding
  <1>2. \E k \in Holding(e, f) : \A j \in Holding(e, f) : k <= j
    BY <1>1, LeastElement
  <1> QED
    BY <1>2 DEF Min

\* A search finds what it finds in the expressions inside.
LEMMA FirstIsLocal ==
  ASSUME NEW e \in Exprs, NEW kinds, NEW f, NEW g, \A x \in Lower(e) : f[x] = g[x]
  PROVE  First(e, kinds, f) = First(e, kinds, g)
  <1>1. \A k \in DOMAIN e.in : f[e.in[k]] = g[e.in[k]]
    BY InsideIs
  <1>2. Holding(e, f) = Holding(e, g)
    BY <1>1 DEF Holding
  <1>3. \A h : First(e, kinds, h) = IF e.kind \in kinds THEN e
                                    ELSE IF Holding(e, h) = {} THEN NoExpr
                                    ELSE h[e.in[Min(Holding(e, h))]]
    BY DEF First, Holding
  <1>4. CASE Holding(e, f) = {}
    BY <1>2, <1>3, <1>4
  <1>5. CASE Holding(e, f) # {}
    <2>1. Min(Holding(e, f)) \in DOMAIN e.in
      BY <1>5, FirstHolding DEF Holding
    <2>2. f[e.in[Min(Holding(e, f))]] = g[e.in[Min(Holding(e, g))]]
      BY <1>1, <1>2, <2>1
    <2> QED
      BY <1>2, <1>3, <2>2
  <1> QED
    BY <1>4, <1>5

\* A step that looks only at what is lower is one over the functions on that.
LEMMA FoundExists ==
  ASSUME NEW kinds
  PROVE  \E f : f = [x \in Exprs |-> First(x, kinds, f)]
  <1> DEFINE V == Exprs \cup {NoExpr}
             step == [x \in Exprs |-> [h \in [Lower(x) -> V] |-> First(x, kinds, h)]]
  <1>1. ASSUME NEW x \in Exprs, NEW h \in [Lower(x) -> V] PROVE First(x, kinds, h) \in V
    <2>1. \A k \in DOMAIN x.in : h[x.in[k]] \in V
      BY InsideIs
    <2>2. First(x, kinds, h) = IF x.kind \in kinds THEN x
                               ELSE IF Holding(x, h) = {} THEN NoExpr
                               ELSE h[x.in[Min(Holding(x, h))]]
      BY DEF First, Holding
    <2>3. Holding(x, h) # {} => Min(Holding(x, h)) \in DOMAIN x.in
      BY FirstHolding DEF Holding
    <2> HIDE DEF V
    <2>4. NoExpr \in V /\ x \in V
      BY DEF V
    <2> QED
      BY <2>1, <2>2, <2>3, <2>4
  <1>2. Steps(Exprs, Ranked, V, step)
    BY <1>1 DEF Steps, Lower
  <1>3. Ranked \in [Exprs -> Nat]
    BY ExprsAssumption DEF Ranked
  <1>4. PICK g \in [Exprs -> V] : \A x \in Exprs : g[x] = step[x][Cut(Exprs, Ranked, g, x)]
    <2> HIDE DEF V, step
    <2> QED
      BY <1>2, <1>3, Recursion
  <1>5. ASSUME NEW x \in Exprs PROVE g[x] = First(x, kinds, g)
    <2>1. \A y \in Lower(x) : y \in Exprs
      BY DEF Lower, Under
    <2>2. Cut(Exprs, Ranked, g, x) \in [Lower(x) -> V]
      BY <2>1 DEF Cut, Lower
    <2>3. \A y \in Lower(x) : Cut(Exprs, Ranked, g, x)[y] = g[y]
      BY DEF Cut, Lower
    <2>4. g[x] = First(x, kinds, Cut(Exprs, Ranked, g, x))
      BY <1>4, <2>2
    <2> QED
      BY <2>3, <2>4, FirstIsLocal
  <1>6. g = [x \in Exprs |-> First(x, kinds, g)]
    BY <1>5
  <1> QED
    BY <1>6

\* unwrap_node is the search that its recursion describes.
LEMMA UnwrapIs ==
  ASSUME NEW kinds
  PROVE  \E f : \A x \in Exprs : f[x] = First(x, kinds, f) /\ unwrap_node(x, kinds) = f[x]
  <1> DEFINE Is(f) == f = [x \in Exprs |-> First(x, kinds, f)]
             found == CHOOSE f : Is(f)
  <1>1. Is(found)
    <2>1. \E f : Is(f)
      BY FoundExists
    <2> HIDE DEF Is
    <2> QED
      BY <2>1
  <1>2. PICK f : f = found
    OBVIOUS
  <1>3. \A x \in Exprs : unwrap_node(x, kinds) = First(x, kinds, f)
    BY <1>2 DEF unwrap_node
  <1> HIDE DEF found
  <1>4. f = [x \in Exprs |-> First(x, kinds, f)]
    BY <1>1, <1>2
  <1>5. \A x \in Exprs : f[x] = First(x, kinds, f)
    <2> DEFINE F == [x \in Exprs |-> First(x, kinds, f)]
    <2>1. \A x \in Exprs : F[x] = First(x, kinds, f)
      OBVIOUS
    <2> HIDE DEF F
    <2>2. f = F
      BY <1>4 DEF F
    <2> QED
      BY <2>1, <2>2
  <1> QED
    BY <1>3, <1>5

\* The names inside are names of the whole.
LEMMA NamesAreLocal ==
  ASSUME NEW e \in Exprs, NEW f, NEW g, \A x \in Lower(e) : f[x] = g[x]
  PROVE  Names(e, f) = Names(e, g)
  <1>1. \A k \in DOMAIN e.in : f[e.in[k]] = g[e.in[k]]
    BY InsideIs
  <1> QED
    BY <1>1 DEF Names

\* What NamesOf's recursion says holds of it.
LEMMA NamesOfIs == \A e \in Exprs : NamesOf[e] = Names(e, NamesOf)
  <1> DEFINE V == SUBSET {e.attr : e \in Exprs}
             step == [x \in Exprs |-> [h \in [Lower(x) -> V] |-> Names(x, h)]]
             Is(f) == f = [x \in Exprs |-> Names(x, f)]
  <1>1. ASSUME NEW x \in Exprs, NEW h \in [Lower(x) -> V] PROVE Names(x, h) \in V
    <2>1. \A k \in DOMAIN x.in : h[x.in[k]] \in V
      BY InsideIs
    <2> QED
      BY <2>1 DEF Names
  <1>2. Steps(Exprs, Ranked, V, step)
    BY <1>1 DEF Steps, Lower
  <1>3. Ranked \in [Exprs -> Nat]
    BY ExprsAssumption DEF Ranked
  <1>4. PICK g \in [Exprs -> V] : \A x \in Exprs : g[x] = step[x][Cut(Exprs, Ranked, g, x)]
    <2> HIDE DEF V, step
    <2> QED
      BY <1>2, <1>3, Recursion
  <1>5. ASSUME NEW x \in Exprs PROVE g[x] = Names(x, g)
    <2>1. \A y \in Lower(x) : y \in Exprs
      BY DEF Lower, Under
    <2>2. Cut(Exprs, Ranked, g, x) \in [Lower(x) -> V]
      BY <2>1 DEF Cut, Lower
    <2>3. \A y \in Lower(x) : Cut(Exprs, Ranked, g, x)[y] = g[y]
      BY DEF Cut, Lower
    <2>4. g[x] = Names(x, Cut(Exprs, Ranked, g, x))
      BY <1>4, <2>2
    <2> QED
      BY <2>3, <2>4, NamesAreLocal
  <1>6. Is(g)
    BY <1>5
  <1>7. NamesOf = CHOOSE f : Is(f)
    BY DEF NamesOf
  <1>8. Is(NamesOf)
    <2> HIDE DEF Is
    <2> QED
      BY <1>6, <1>7
  <1>9. PICK F : F = NamesOf
    OBVIOUS
  <1>10. F = [x \in Exprs |-> Names(x, F)]
    BY <1>8, <1>9
  <1> HIDE DEF Is
  <1>11. ASSUME NEW e \in Exprs PROVE F[e] = Names(e, F)
    <2> DEFINE G == [x \in Exprs |-> Names(x, F)]
    <2>1. G[e] = Names(e, F)
      OBVIOUS
    <2> HIDE DEF G
    <2>2. F = G
      BY <1>10 DEF G
    <2> QED
      BY <2>1, <2>2
  <1> QED
    BY <1>9, <1>11

\* No expression is none of those of the source.
LEMMA NoExprIsNone == NoExpr \notin Exprs
  BY InsideIs DEF NoExpr, Node, IsExpr, Primaries

\* An expression in which a kind is not found holds none in which it is.
LEMMA HasNotInside ==
  ASSUME NEW kinds, NEW e \in Exprs, ~HasKind(e, kinds), NEW k \in DOMAIN e.in
  PROVE  ~HasKind(e.in[k], kinds)
  <1>1. PICK f : \A x \in Exprs : f[x] = First(x, kinds, f) /\ unwrap_node(x, kinds) = f[x]
    BY UnwrapIs
  <1>2. f[e] = IF e.kind \in kinds THEN e
               ELSE IF Holding(e, f) = {} THEN NoExpr
               ELSE f[e.in[Min(Holding(e, f))]]
    BY <1>1 DEF First, Holding
  <1>3. f[e] = NoExpr
    BY <1>1 DEF HasKind
  <1>4. Holding(e, f) = {}
    BY <1>2, <1>3, NoExprIsNone, FirstHolding DEF Holding
  <1>5. f[e.in[k]] = NoExpr
    BY <1>4 DEF Holding
  <1> QED
    BY <1>1, <1>5, InsideIs DEF HasKind

\* A search returns an expression inside e or e itself, of the kind looked for; e reads
\* every name that one reads, and holds every literal that one holds.
LEMMA UnwrapFinds ==
  ASSUME NEW kinds, NEW e \in Exprs, HasKind(e, kinds)
  PROVE  /\ unwrap_node(e, kinds) \in Lower(e) \cup {e}
         /\ unwrap_node(e, kinds).kind \in kinds
         /\ NamesOf[unwrap_node(e, kinds)] \subseteq NamesOf[e]
         /\ HasKind(unwrap_node(e, kinds), {"literal"}) => HasKind(e, {"literal"})
  <1>1. PICK f : \A x \in Exprs : f[x] = First(x, kinds, f) /\ unwrap_node(x, kinds) = f[x]
    BY UnwrapIs
  <1> DEFINE Fine(x) == /\ f[x] \in Lower(x) \cup {x} /\ f[x].kind \in kinds
                        /\ NamesOf[f[x]] \subseteq NamesOf[x]
                        /\ HasKind(f[x], {"literal"}) => HasKind(x, {"literal"})
             T == {x \in Exprs : f[x] # NoExpr => Fine(x)}
  <1>2. ASSUME NEW x \in Exprs, Under(Exprs, Ranked, x) \subseteq T, f[x] # NoExpr PROVE Fine(x)
    <2>1. f[x] = IF x.kind \in kinds THEN x
                 ELSE IF Holding(x, f) = {} THEN NoExpr
                 ELSE f[x.in[Min(Holding(x, f))]]
      BY <1>1 DEF First, Holding
    <2>2. CASE x.kind \in kinds
      BY <2>1, <2>2
    <2>3. CASE x.kind \notin kinds
      <3>1. PICK k : k = Min(Holding(x, f))
        OBVIOUS
      <3>2. k \in DOMAIN x.in /\ f[x] = f[x.in[k]] /\ f[x.in[k]] # NoExpr
        BY <1>2, <2>1, <2>3, <3>1, FirstHolding DEF Holding
      <3>3. PICK y : y = x.in[k]
        OBVIOUS
      <3>4. y \in Lower(x) /\ y \in Exprs
        BY <3>2, <3>3, InsideIs
      <3>5. Fine(y)
        BY <1>2, <3>2, <3>3, <3>4 DEF Lower
      <3>6. f[y] \in Lower(x)
        BY <3>4, <3>5, LowerStill
      <3>7. NamesOf[y] \subseteq NamesOf[x]
        BY <3>2, <3>3, NamesOfIs DEF Names
      <3>8. HasKind(y, {"literal"}) => HasKind(x, {"literal"})
        BY <3>2, <3>3, HasNotInside
      <3> QED
        BY <3>2, <3>3, <3>5, <3>6, <3>7, <3>8
    <2> QED
      BY <2>2, <2>3
  <1>3. \A x \in Exprs : Under(Exprs, Ranked, x) \subseteq T => x \in T
    BY <1>2
  <1>4. \A x \in Exprs : x \in T
    <2>1. Ranked \in [Exprs -> Nat]
      BY ExprsAssumption DEF Ranked
    <2> HIDE DEF T
    <2> QED
      BY <1>3, <2>1, RankInduction
  <1> QED
    BY <1>1, <1>4 DEF HasKind

\* A search for the kind of an expression ends there.
LEMMA UnwrapSelf ==
  ASSUME NEW kinds, NEW e \in Exprs, e.kind \in kinds
  PROVE  HasKind(e, kinds) /\ unwrap_node(e, kinds) = e
  <1>1. unwrap_node(e, kinds) = e
    BY UnwrapIs DEF First
  <1> QED
    BY <1>1, NoExprIsNone DEF HasKind

-----------------------------------------------------------------------------
(* What an expression is lowered to.                                        *)

\* The kinds of the operations, in the order they are looked for.
Operators == {"binary", "unary", "mux", "concat"}

\* The node the lowerer starts at.
Start(e) ==
  IF HasKind(e, {"binary"}) THEN unwrap_node(e, {"binary"})
  ELSE IF HasKind(e, {"unary"}) THEN unwrap_node(e, {"unary"})
  ELSE IF HasKind(e, {"mux"}) THEN unwrap_node(e, {"mux"})
  ELSE IF HasKind(e, {"concat"}) THEN unwrap_node(e, {"concat"})
  ELSE unwrap_node(e, Primaries)

\* It is an operator, or the expression itself and a primary.
LEMMA StartIs ==
  ASSUME NEW e \in Exprs
  PROVE  /\ Start(e) \in Exprs /\ Lower(Start(e)) \subseteq Lower(e)
         /\ NamesOf[Start(e)] \subseteq NamesOf[e]
         /\ HasKind(Start(e), {"literal"}) => HasKind(e, {"literal"})
         /\ HasKind(e, {"binary"}) => Start(e).kind = "binary"
         /\ ~HasKind(e, {"binary"}) /\ HasKind(e, {"unary"}) => Start(e).kind = "unary"
         /\ ~HasKind(e, {"binary"}) /\ ~HasKind(e, {"unary"}) /\ HasKind(e, {"mux"})
              => Start(e).kind = "mux"
         /\ ~HasKind(e, {"binary"}) /\ ~HasKind(e, {"unary"}) /\ ~HasKind(e, {"mux"})
            /\ HasKind(e, {"concat"}) => Start(e).kind = "concat"
         /\ (\A k \in Operators : ~HasKind(e, {k})) => Start(e) = e /\ e.kind \in Primaries
  <1>1. e.kind \in Primaries \cup Operators
    BY InsideIs DEF IsExpr, Operators
  <1>2. (\A k \in Operators : ~HasKind(e, {k})) => e.kind \in Primaries /\ Start(e) = e
    <2>1. \A k \in Operators : e.kind = k => HasKind(e, {k})
      BY UnwrapSelf
    <2>2. e.kind \in Primaries => unwrap_node(e, Primaries) = e
      BY UnwrapSelf
    <2> QED
      BY <1>1, <2>1, <2>2 DEF Start, Operators
  <1>3. \A k \in Operators : HasKind(e, {k}) =>
          /\ unwrap_node(e, {k}) \in Lower(e) \cup {e}
          /\ unwrap_node(e, {k}).kind = k
          /\ NamesOf[unwrap_node(e, {k})] \subseteq NamesOf[e]
          /\ HasKind(unwrap_node(e, {k}), {"literal"}) => HasKind(e, {"literal"})
    BY UnwrapFinds
  <1>4. /\ Start(e) \in Lower(e) \cup {e} /\ NamesOf[Start(e)] \subseteq NamesOf[e]
        /\ HasKind(Start(e), {"literal"}) => HasKind(e, {"literal"})
    BY <1>2, <1>3 DEF Start, Operators
  <1>5. Start(e) \in Exprs /\ Lower(Start(e)) \subseteq Lower(e)
    BY <1>4, LowerStill
  <1> QED
    BY <1>2, <1>3, <1>4, <1>5 DEF Start, Operators

\* Expressions are lowered alike where those inside the first node are.
LEMMA LowerNodeIsLocal ==
  ASSUME NEW e \in Exprs, NEW names, NEW f, NEW g, \A x \in Lower(e) : f[x] = g[x]
  PROVE  LowerNode(e, names, f) = LowerNode(e, names, g)
  <1>1. PICK d : d = Start(e)
    OBVIOUS
  <1>2. d \in Exprs /\ Lower(d) \subseteq Lower(e)
    BY <1>1, StartIs
  <1>3. \A k \in DOMAIN d.in : f[d.in[k]] = g[d.in[k]]
    BY <1>2, InsideIs
  <1>4. [k \in DOMAIN d.in |-> f[d.in[k]]] = [k \in DOMAIN d.in |-> g[d.in[k]]]
    BY <1>3
  <1>5. lower_binary_expression(d, f) = lower_binary_expression(d, g)
    BY <1>4 DEF lower_binary_expression, Lowered
  <1>6. lower_unary_expression(d, f) = lower_unary_expression(d, g)
    BY <1>4 DEF lower_unary_expression, Lowered
  <1>7. lower_conditional_expression(d, f) = lower_conditional_expression(d, g)
    BY <1>4 DEF lower_conditional_expression, Lowered
  <1>8. lower_concatenation(d, f) = lower_concatenation(d, g)
    BY <1>4 DEF lower_concatenation, Lowered
  <1>9. lower_primary(d, names, f) = lower_primary(d, names, g)
    <2>1. d.in # << >> => f[d.in[1]] = g[d.in[1]]
      <3>1. d.in \in Seq(Exprs)
        BY <1>2, InsideIs DEF IsExpr
      <3>2. d.in # << >> => 1 \in DOMAIN d.in
        BY <3>1
      <3> QED
        BY <1>3, <3>2
    <2> QED
      BY <2>1 DEF lower_primary
  <1> QED
    BY <1>1, <1>5, <1>6, <1>7, <1>8, <1>9 DEF LowerNode, Start

\* g lowers every expression of a height less than n.
LowersTo(names, n, g) ==
  \A x \in Level(Exprs, Ranked, n) : g[x] = LowerNode(x, names, g)

\* An expression of less than n levels holds expressions of less than n - 1.
LEMMA LowerLevel ==
  ASSUME NEW n \in Nat, NEW x \in Level(Exprs, Ranked, n), NEW y \in Lower(x)
  PROVE  y \in Exprs /\ y \in Level(Exprs, Ranked, n - 1) /\ y \in Level(Exprs, Ranked, n)
  <1>1. x \in Exprs /\ Ranked[x] < n /\ y \in Exprs /\ Ranked[y] < Ranked[x]
    BY DEF Level, Lower, Under
  <1>2. Ranked[x] \in Nat /\ Ranked[y] \in Nat
    BY <1>1, InsideIs
  <1>3. Ranked[y] < n - 1 /\ Ranked[y] < n
    BY <1>1, <1>2
  <1> QED
    BY <1>1, <1>3 DEF Level

\* Two that lower expressions lower them alike.
LEMMA LowersAlike ==
  ASSUME NEW names, NEW n \in Nat, NEW m \in Nat, NEW f, NEW g,
         LowersTo(names, n, f), LowersTo(names, m, g)
  PROVE  \A x \in Level(Exprs, Ranked, n) \cap Level(Exprs, Ranked, m) : f[x] = g[x]
  <1> DEFINE Both == Level(Exprs, Ranked, n) \cap Level(Exprs, Ranked, m)
             T == {x \in Exprs : x \in Both => f[x] = g[x]}
  <1>1. ASSUME NEW x \in Exprs, Under(Exprs, Ranked, x) \subseteq T PROVE x \in T
    <2> SUFFICES ASSUME x \in Both PROVE f[x] = g[x]
      OBVIOUS
    <2>1. \A y \in Lower(x) : f[y] = g[y]
      BY <1>1, LowerLevel DEF Lower
    <2>2. LowerNode(x, names, f) = LowerNode(x, names, g)
      BY <2>1, LowerNodeIsLocal
    <2> QED
      BY <2>2 DEF LowersTo
  <1>2. Ranked \in [Exprs -> Nat]
    BY ExprsAssumption DEF Ranked
  <1>3. \A x \in Exprs : x \in T
    <2> HIDE DEF T
    <2> QED
      BY <1>1, <1>2, RankInduction
  <1> QED
    BY <1>3 DEF Level

\* Expressions of any height can be lowered.
LEMMA LowersSome ==
  ASSUME NEW names, NEW n \in Nat
  PROVE  \E g : LowersTo(names, n, g)
  <1> DEFINE T == {m \in 0..n : \E g : LowersTo(names, m, g)}
  <1>1. 0 \in T
    <2>1. Level(Exprs, Ranked, 0) = {}
      BY InsideIs DEF Level
    <2>2. LowersTo(names, 0, 0)
      BY <2>1 DEF LowersTo
    <2> QED
      BY <2>2
  <1>2. ASSUME NEW k \in 1..n, k - 1 \in T PROVE k \in T
    <2>1. PICK g : LowersTo(names, k - 1, g)
      BY <1>2
    <2> DEFINE h == [x \in Exprs |-> LowerNode(x, names, g)]
    <2>2. \A x \in Exprs : h[x] = LowerNode(x, names, g)
      OBVIOUS
    <2>3. \A y \in Level(Exprs, Ranked, k - 1) : h[y] = g[y]
      BY <2>1, <2>2 DEF LowersTo, Level
    <2> HIDE DEF h
    <2>4. ASSUME NEW x \in Level(Exprs, Ranked, k) PROVE h[x] = LowerNode(x, names, h)
      <3>1. k \in Nat /\ x \in Exprs
        BY DEF Level
      <3>2. \A y \in Lower(x) : h[y] = g[y]
        BY <2>3, <3>1, LowerLevel
      <3> QED
        BY <2>2, <3>1, <3>2, LowerNodeIsLocal
    <2>5. LowersTo(names, k, h)
      BY <2>4 DEF LowersTo
    <2> QED
      BY <2>5
  <1>3. n \in T
    <2> HIDE DEF T
    <2>1. \A k \in 0..n : k \in T
      BY <1>1, <1>2, Climb
    <2> QED
      BY <2>1
  <1> QED
    BY <1>3

\* The recursion of lower_expression has a solution.
LEMMA LoweringExists ==
  ASSUME NEW names
  PROVE  \E f : f = [x \in Exprs |-> LowerNode(x, names, f)]
  <1> DEFINE At(n) == CHOOSE g : LowersTo(names, n, g)
             f == [x \in Exprs |-> At(Ranked[x] + 1)[x]]
  <1>1. \A n \in Nat : LowersTo(names, n, At(n))
    BY LowersSome
  <1>2. \A x \in Exprs : Ranked[x] \in Nat
    BY InsideIs
  <1>3. ASSUME NEW n \in Nat, NEW x \in Level(Exprs, Ranked, n)
        PROVE  x \in Exprs /\ f[x] = At(n)[x]
    <2>1. x \in Exprs /\ Ranked[x] + 1 \in Nat /\ x \in Level(Exprs, Ranked, Ranked[x] + 1)
      BY <1>2 DEF Level
    <2> HIDE DEF At
    <2>2. At(Ranked[x] + 1)[x] = At(n)[x]
      BY <1>1, <2>1, LowersAlike
    <2> QED
      BY <2>1, <2>2
  <1>4. ASSUME NEW x \in Exprs PROVE f[x] = LowerNode(x, names, f)
    <2>1. PICK n \in Nat : n = Ranked[x] + 1
      BY <1>2
    <2>2. x \in Level(Exprs, Ranked, n)
      BY <1>2, <2>1 DEF Level
    <2>3. PICK g : g = At(n)
      OBVIOUS
    <2> HIDE DEF At, f
    <2>4. \A y \in Lower(x) : f[y] = g[y]
      BY <1>3, <2>2, <2>3, LowerLevel
    <2>5. LowerNode(x, names, f) = LowerNode(x, names, g)
      BY <2>4, LowerNodeIsLocal
    <2>6. LowersTo(names, n, g)
      BY <1>1, <2>3
    <2> QED
      BY <1>3, <2>2, <2>3, <2>5, <2>6 DEF LowersTo
  <1>5. f = [x \in Exprs |-> LowerNode(x, names, f)]
    <2>1. f = [x \in Exprs |-> f[x]]
      OBVIOUS
    <2> HIDE DEF f
    <2> QED
      BY <1>4, <2>1
  <1> HIDE DEF f
  <1> QED
    BY <1>5

\* lower_expression is what its recursion describes.
LEMMA LoweringIs ==
  ASSUME NEW names
  PROVE  \E f : \A x \in Exprs :
           f[x] = LowerNode(x, names, f) /\ lower_expression(x, names) = f[x]
  <1> DEFINE Is(f) == f = [x \in Exprs |-> LowerNode(x, names, f)]
             lower == CHOOSE f : Is(f)
  <1>1. Is(lower)
    <2>1. \E f : Is(f)
      BY LoweringExists
    <2> HIDE DEF Is
    <2> QED
      BY <2>1
  <1>2. PICK f : f = lower
    OBVIOUS
  <1>3. \A x \in Exprs : lower_expression(x, names) = LowerNode(x, names, f)
    BY <1>2 DEF lower_expression
  <1> HIDE DEF lower
  <1>4. f = [x \in Exprs |-> LowerNode(x, names, f)]
    BY <1>1, <1>2
  <1>5. \A x \in Exprs : f[x] = LowerNode(x, names, f)
    <2> DEFINE F == [x \in Exprs |-> LowerNode(x, names, f)]
    <2>1. \A x \in Exprs : F[x] = LowerNode(x, names, f)
      OBVIOUS
    <2> HIDE DEF F
    <2>2. f = F
      BY <1>4 DEF F
    <2> QED
      BY <2>1, <2>2
  <1> QED
    BY <1>3, <1>5

\* Nothing that the scope holds stands for a failure.
AllBound(names) == \A n \in DOMAIN names : names[n] # Unresolved

\* The names an expression reads are bound, and it holds no literal but numbers.
Readable(e, names) == NamesOf[e] \subseteq DOMAIN names /\ ~HasKind(e, {"literal"})

\* An expression is lowered when its names are bound and its literals are numbers.
LEMMA BoundLowers ==
  ASSUME NEW names, AllBound(names), NEW e \in Exprs, Readable(e, names)
  PROVE  lower_expression(e, names) # Unresolved
  <1>1. PICK f : \A x \in Exprs : f[x] = LowerNode(x, names, f) /\ lower_expression(x, names) = f[x]
    BY LoweringIs
  <1> DEFINE T == {x \in Exprs : Readable(x, names) => f[x] # Unresolved}
  <1>2. ASSUME NEW x \in Exprs, Under(Exprs, Ranked, x) \subseteq T, Readable(x, names)
        PROVE  f[x] # Unresolved
    <2>1. PICK d : d = Start(x)
      OBVIOUS
    <2>2. d \in Exprs /\ Lower(d) \subseteq Lower(x) /\ Readable(d, names)
      BY <1>2, <2>1, StartIs DEF Readable
    <2>3. \A k \in DOMAIN d.in : f[d.in[k]] # Unresolved
      <3> SUFFICES ASSUME NEW k \in DOMAIN d.in PROVE f[d.in[k]] # Unresolved
        OBVIOUS
      <3>1. d.in[k] \in Lower(x) /\ d.in[k] \in Exprs
        BY <2>2, InsideIs
      <3>2. NamesOf[d.in[k]] \subseteq NamesOf[d]
        BY <2>2, NamesOfIs DEF Names
      <3>3. ~HasKind(d.in[k], {"literal"})
        BY <2>2, HasNotInside DEF Readable
      <3> QED
        BY <1>2, <2>2, <3>1, <3>2, <3>3 DEF Lower, Readable
    <2> DEFINE values == [k \in DOMAIN d.in |-> f[d.in[k]]]
    <2>4. AllResolved(values)
      BY <2>3 DEF AllResolved
    <2> HIDE DEF values
    <2>5. lower_binary_expression(d, f) # Unresolved
      <3>1. lower_binary_expression(d, f) = BinaryExprOp(d.attr, values[1], values[2], values[1].ty)
        BY <2>4 DEF lower_binary_expression, Lowered, values
      <3> QED
        BY <3>1 DEF BinaryExprOp, Unresolved, Expr
    <2>6. lower_unary_expression(d, f) # Unresolved
      <3>1. lower_unary_expression(d, f) = UnaryExprOp(d.attr, values[1], values[1].ty)
        BY <2>4 DEF lower_unary_expression, Lowered, values
      <3> QED
        BY <3>1 DEF UnaryExprOp, Unresolved, Expr
    <2>7. lower_conditional_expression(d, f) # Unresolved
      <3>1. lower_conditional_expression(d, f) = MuxExprOp(values[1], values[2], values[3], values[2].ty)
        BY <2>4 DEF lower_conditional_expression, Lowered, values
      <3> QED
        BY <3>1 DEF MuxExprOp, Unresolved, Expr
    <2>8. lower_concatenation(d, f) # Unresolved
      <3>1. lower_concatenation(d, f) = ConcatExprOp(values, IntType(SumWidths(values)))
        BY <2>4 DEF lower_concatenation, Lowered, values
      <3> QED
        BY <3>1 DEF ConcatExprOp, Unresolved, Expr
    <2>9. d.kind \in Primaries => lower_primary(d, names, f) # Unresolved
      <3>1. d.in # << >> => 1 \in DOMAIN d.in
        BY <2>2, InsideIs DEF IsExpr
      <3>2. lower_number_literal(d) # Unresolved
        BY DEF lower_number_literal, ConstantExprOp, Unresolved, Expr
      <3>3. d.kind # "literal"
        BY <2>2, UnwrapSelf DEF Readable
      <3>4. d.kind \in Primaries /\ d.in = << >> /\ d.kind # "number" => d.attr \in NamesOf[d]
        <4>1. d.kind \in {"paren", "repeat"} => Len(d.in) \in {1, 2}
          BY <2>2, InsideIs DEF IsExpr, Arity, Primaries
        <4>2. d.kind \in {"paren", "repeat"} => d.in # << >>
          BY <4>1
        <4> QED
          BY <2>2, <3>3, <4>2, NamesOfIs DEF Names, Primaries
      <3> QED
        BY <2>2, <2>3, <3>1, <3>2, <3>3, <3>4 DEF lower_primary, resolve_val, AllBound, Readable
    <2>10. LowerNode(x, names, f) # Unresolved
      <3>1. (\A k \in Operators : ~HasKind(x, {k})) => d.kind \in Primaries
        BY <2>1, StartIs
      <3> QED
        BY <2>1, <2>5, <2>6, <2>7, <2>8, <2>9, <3>1 DEF LowerNode, Start, Operators
    <2> QED
      BY <1>1, <2>10
  <1>3. Ranked \in [Exprs -> Nat]
    BY ExprsAssumption DEF Ranked
  <1>4. \A x \in Exprs : Under(Exprs, Ranked, x) \subseteq T => x \in T
    BY <1>2
  <1>5. \A x \in Exprs : x \in T
    <2> HIDE DEF T
    <2> QED
      BY <1>3, <1>4, RankInduction
  <1> QED
    BY <1>1, <1>5

-----------------------------------------------------------------------------
(* The event control.                                                       *)

\* Events whose signals no "or" cuts.
Uncut(control) ==
  /\ control.events \in Seq(Range(control.events)) /\ control.events # << >>
  /\ control.comma \in BOOLEAN
  /\ \A k \in DOMAIN control.events :
       LET signal == control.events[k].signal
       IN signal \in Seq(Range(signal)) /\ Len(signal) = 1

Piece(event) == [word |-> event.signal[1], negedge |-> event.edge = "negedge"]

\* The parts of the first k events when every event is one piece.
PartsOf(control, k) ==
  IF control.comma
    THEN <<[word |-> control.events[k].signal[1],
            negedge |-> \E j \in 1..k : control.events[j].edge = "negedge"]>>
    ELSE [j \in 1..k |-> Piece(control.events[j])]

\* Such an event has one piece, and is the word of that piece.
LEMMA OnePiece ==
  ASSUME NEW control, Uncut(control), NEW k \in DOMAIN control.events
  PROVE  /\ Pieces(control.events[k]) = <<Piece(control.events[k])>>
         /\ Word(control.events[k].signal[1]) = control.events[k].signal
  <1>1. PICK signal : signal = control.events[k].signal
    OBVIOUS
  <1>2. signal \in Seq(Range(signal)) /\ Len(signal) = 1
    BY <1>1 DEF Uncut
  <1>3. DOMAIN signal = {1}
    BY <1>2
  <1>4. signal = <<signal[1]>>
    BY <1>2
  <1>5. Pieces(control.events[k]) = [j \in {1} |-> Piece(control.events[k])]
    BY <1>1, <1>3 DEF Pieces, Piece
  <1> QED
    BY <1>1, <1>4, <1>5 DEF Word

\* The parts of uncut events are the events, or the last word of all.
LEMMA PartsAre ==
  ASSUME NEW control, Uncut(control)
  PROVE  EventParts(control) = PartsOf(control, Len(control.events))
  <1> DEFINE n == Len(control.events)
             Is(f) == f = [k \in 1..n |-> PartsUpTo(control, k, f)]
             g == [k \in 1..n |-> PartsOf(control, k)]
             parts == CHOOSE f : Is(f)
  <1>1. n \in Nat /\ DOMAIN control.events = 1..n /\ n # 0
    BY DEF Uncut
  <1>2. ASSUME NEW k \in 1..n PROVE g[k] = PartsUpTo(control, k, g)
    <2>1. Pieces(control.events[k]) = <<Piece(control.events[k])>>
      BY <1>1, OnePiece
    <2>2. CASE k = 1
      <3>1. PartsOf(control, 1) = <<Piece(control.events[1])>>
        <4>1. (\E j \in 1..1 : control.events[j].edge = "negedge")
                <=> control.events[1].edge = "negedge"
          OBVIOUS
        <4>2. control.comma => PartsOf(control, 1) = <<Piece(control.events[1])>>
          BY <4>1 DEF PartsOf, Piece
        <4>3. ~control.comma => PartsOf(control, 1) = [j \in 1..1 |-> Piece(control.events[j])]
          BY DEF PartsOf
        <4>4. [j \in 1..1 |-> Piece(control.events[j])] = <<Piece(control.events[1])>>
          OBVIOUS
        <4> QED
          BY <4>2, <4>3, <4>4
      <3> QED
        BY <2>1, <2>2, <3>1 DEF PartsUpTo
    <2>3. CASE k # 1 /\ control.comma
      <3>1. k - 1 \in 1..n
        BY <1>1, <2>3
      <3>2. g[k - 1] = PartsOf(control, k - 1)
        BY <3>1
      <3> DEFINE low == \E j \in 1..(k - 1) : control.events[j].edge = "negedge"
                 left == [word |-> control.events[k - 1].signal[1], negedge |-> low]
                 right == Piece(control.events[k])
      <3>3. PartsOf(control, k - 1) = <<left>>
        BY <2>3 DEF PartsOf
      <3>4. Front(<<left>>) = << >> /\ Last(<<left>>) = left /\ Tail(<<right>>) = << >>
        <4> HIDE DEF left, right
        <4> QED
          BY DEF Front, Last
      <3>5. (\E j \in 1..k : control.events[j].edge = "negedge")
              <=> (low \/ control.events[k].edge = "negedge")
        <4>1. \A j \in 1..k : j = k \/ j \in 1..(k - 1)
          BY <1>1
        <4>2. k \in 1..k /\ \A j \in 1..(k - 1) : j \in 1..k
          BY <1>1
        <4> QED
          BY <4>1, <4>2
      <3>6. Merged(<<left>>, <<right>>)
              = <<[word |-> right.word, negedge |-> left.negedge \/ right.negedge]>>
        <4> HIDE DEF left, right
        <4> QED
          BY <3>4 DEF Merged
      <3>7. right.word = control.events[k].signal[1] /\ left.negedge = low
            /\ right.negedge = (control.events[k].edge = "negedge")
        BY DEF Piece
      <3>8. PartsOf(control, k)
              = <<[word |-> control.events[k].signal[1],
                   negedge |-> low \/ control.events[k].edge = "negedge"]>>
        BY <2>3, <3>5 DEF PartsOf
      <3>9. PartsUpTo(control, k, g) = Merged(<<left>>, <<right>>)
        <4> HIDE DEF left, right, g
        <4> QED
          BY <2>1, <2>3, <3>2, <3>3 DEF PartsUpTo, right
      <3> QED
        BY <3>6, <3>7, <3>8, <3>9
    <2>4. CASE k # 1 /\ ~control.comma
      <3>1. k - 1 \in 1..n
        BY <1>1, <2>4
      <3>2. g[k - 1] = [j \in 1..(k - 1) |-> Piece(control.events[j])]
        BY <2>4, <3>1 DEF PartsOf
      <3>3. PartsUpTo(control, k, g) = g[k - 1] \o <<Piece(control.events[k])>>
        <4> HIDE DEF g
        <4> QED
          BY <2>1, <2>4 DEF PartsUpTo
      <3>4. [j \in 1..(k - 1) |-> Piece(control.events[j])] \o <<Piece(control.events[k])>>
              = [j \in 1..k |-> Piece(control.events[j])]
        <4> DEFINE left == [j \in 1..(k - 1) |-> Piece(control.events[j])]
                   all == [j \in 1..k |-> Piece(control.events[j])]
                   S == {Piece(control.events[j]) : j \in 1..k}
        <4>1. left \in Seq(S) /\ Len(left) = k - 1 /\ all \in Seq(S) /\ Len(all) = k
          <5>1. k - 1 \in Nat /\ k \in Nat
            BY <1>1
          <5>2. left \in [1..(k - 1) -> S] /\ all \in [1..k -> S]
            OBVIOUS
          <5> HIDE DEF left, all, S
          <5> QED
            BY <5>1, <5>2
        <4>2. Piece(control.events[k]) \in S
          BY <1>1
        <4>3. \A j \in 1..(k - 1) : left[j] = all[j]
          BY <1>1
        <4>4. all[k] = Piece(control.events[k])
          BY <1>1
        <4> HIDE DEF left, all, S
        <4>5. left \o <<Piece(control.events[k])>> = all
          BY <1>1, <4>1, <4>2, <4>3, <4>4
        <4> QED
          BY <4>5 DEF left, all
      <3> QED
        BY <2>4, <3>2, <3>3, <3>4 DEF PartsOf
    <2> QED
      BY <2>2, <2>3, <2>4
  <1>3. Is(g)
    <2>1. g = [k \in 1..n |-> g[k]]
      OBVIOUS
    <2> HIDE DEF g
    <2> QED
      BY <1>2, <2>1
  <1>4. Is(parts)
    <2> HIDE DEF Is, g
    <2> QED
      BY <1>3
  <1>5. PICK f : f = parts
    OBVIOUS
  <1>6. EventParts(control) = f[n]
    BY <1>5 DEF EventParts
  <1> HIDE DEF parts
  <1>7. \A k \in 1..n : f[k] = PartsUpTo(control, k, f)
    <2>1. f = [k \in 1..n |-> PartsUpTo(control, k, f)]
      BY <1>4, <1>5
    <2> DEFINE F == [k \in 1..n |-> PartsUpTo(control, k, f)]
    <2>2. \A k \in 1..n : F[k] = PartsUpTo(control, k, f)
      OBVIOUS
    <2> HIDE DEF F, n
    <2>3. f = F
      BY <2>1 DEF F
    <2> QED
      BY <2>2, <2>3
  <1> DEFINE T == {k \in 0..n : k = 0 \/ f[k] = g[k]}
  <1>8. ASSUME NEW k \in 1..n, k - 1 \in T PROVE k \in T
    <2> HIDE DEF g
    <2>1. k = 1 \/ f[k - 1] = g[k - 1]
      BY <1>1, <1>8
    <2>2. PartsUpTo(control, k, f) = PartsUpTo(control, k, g)
      BY <2>1 DEF PartsUpTo
    <2> QED
      BY <1>2, <1>7, <2>2
  <1>9. \A k \in 0..n : k \in T
    <2>1. 0 \in T
      BY <1>1
    <2> HIDE DEF T, n
    <2> QED
      BY <1>1, <1>8, <2>1, Climb
  <1>10. f[n] = g[n]
    <2>1. n \in 0..n
      BY <1>1
    <2>2. n \in T
      BY <1>9, <2>1
    <2> HIDE DEF g
    <2> QED
      BY <1>1, <2>2
  <1> QED
    BY <1>1, <1>6, <1>10

-----------------------------------------------------------------------------
(* The items.                                                               *)

\* Every name of the scope is bound to the value it names.
NamesStand == \A n \in DOMAIN scope : scope[n].kind = "name" /\ scope[n].attr = n

\* An item that must not be refused.
Acceptable(item, names) ==
  /\ item.kind \in BasicKinds \ {"always"}
  /\ ~UnfitReset(item) /\ ~CutSignal(item)
  /\ ReadNames(item) \subseteq names
  /\ \A e \in ReadExprs(item) : ~HasKind(e, {"literal"})

\* What an item leaves behind: the names it binds, or the error it was refused with.
Taken(item) ==
  \/ status' = "err" /\ ~Acceptable(item, DOMAIN scope)
  \/ /\ status' = status
     /\ DOMAIN scope \cup Binds(item) \subseteq DOMAIN scope'
     /\ NamesStand'

\* What is lowered of an item is the item itself, of a kind that is not supported, or a
\* basic item.
LEMMA FoundIs ==
  ASSUME NEW item \in Items
  PROVE  /\ Found(item).kind = "other" \/ IsBasic(Found(item))
         /\ item.kind # "other" => Found(item) = item
  <1>1. IsItem(item)
    BY SourceAssumption
  <1>2. item.kind # "other" \/ item.in = << >> => Found(item) = item
    BY DEF Found
  <1>3. CASE item.kind # "other" \/ item.in = << >>
    BY <1>1, <1>2, <1>3 DEF IsItem
  <1>4. CASE item.kind = "other" /\ item.in # << >>
    <2>1. item.in \in Seq(Range(item.in)) /\ \A k \in DOMAIN item.in : IsBasic(item.in[k])
      BY <1>1, <1>4 DEF IsItem
    <2>2. Len(item.in) \in Nat /\ DOMAIN item.in = 1..Len(item.in) /\ Len(item.in) # 0
      BY <1>4, <2>1, SequenceIs
    <2> DEFINE In(m) == Inside(item, SearchedKinds[m])
               ms == {m \in DOMAIN SearchedKinds : In(m) # {}}
    <2>3. ms \in SUBSET (1..5)
      BY DEF SearchedKinds
    <2>4. ms # {}
      <3>1. 1 \in DOMAIN item.in /\ item.in[1].kind \in BasicKinds
        BY <2>1, <2>2 DEF IsBasic
      <3>2. \E m \in 1..5 : item.in[1].kind \in SearchedKinds[m]
        BY <3>1 DEF BasicKinds, SearchedKinds
      <3>3. DOMAIN SearchedKinds = 1..5
        BY DEF SearchedKinds
      <3> QED
        BY <3>1, <3>2, <3>3 DEF Inside
    <2>5. PICK n : n = Min(ms)
      OBVIOUS
    <2>6. n \in ms
      <3> HIDE DEF ms
      <3>1. \E x \in ms : \A y \in ms : x <= y
        BY <2>3, <2>4, LeastElement
      <3> QED
        BY <2>5, <3>1 DEF Min
    <2>7. In(n) # {} /\ In(n) \in SUBSET (1..Len(item.in))
      BY <2>2, <2>6 DEF Inside
    <2>8. Min(In(n)) \in In(n)
      <3> HIDE DEF In
      <3>1. \E x \in In(n) : \A y \in In(n) : x <= y
        BY <2>2, <2>7, LeastElement
      <3> QED
        BY <3>1 DEF Min
    <2>9. Found(item) = item.in[Min(In(n))]
      BY <1>4, <2>5 DEF Found
    <2> QED
      BY <1>4, <2>1, <2>8, <2>9 DEF Inside
  <1> QED
    BY <1>2, <1>3, <1>4

\* Names that stand are bound to a value.
LEMMA StandingBound ==
  NamesStand => AllBound(scope)
  BY DEF NamesStand, AllBound, Unresolved, Expr

\* A bound name resolves.
LEMMA Resolves ==
  ASSUME NEW names, AllBound(names), NEW n \in DOMAIN names
  PROVE  resolve_val(names, n) # Unresolved
  BY DEF AllBound, resolve_val

\* Binding a name to the value it names keeps the names standing.
LEMMA BindStands ==
  ASSUME NEW name, NEW ty, NamesStand, Bind(name, Named(name, ty))
  PROVE  NamesStand' /\ DOMAIN scope' = DOMAIN scope \cup {name}
  <1>1. Named(name, ty).kind = "name" /\ Named(name, ty).attr = name
    BY DEF Named, Expr
  <1> DEFINE value == Named(name, ty)
  <1> HIDE DEF value
  <1>2. scope' = [n \in DOMAIN scope \cup {name} |-> IF n = name THEN value ELSE scope[n]]
    BY DEF Bind, value
  <1>3. value.kind = "name" /\ value.attr = name
    BY <1>1 DEF value
  <1> QED
    BY <1>2, <1>3 DEF NamesStand

\* An item that reads an expression which cannot be lowered may be refused.
LEMMA Unreadable ==
  ASSUME NEW item, NEW e \in Exprs, e \in ReadExprs(item), NamesStand,
         lower_expression(e, scope) = Unresolved
  PROVE  ~Acceptable(item, DOMAIN scope)
  <1>1. ~Readable(e, scope)
    BY StandingBound, BoundLowers
  <1>2. NamesOf[e] \subseteq ReadNames(item)
    BY DEF ReadNames
  <1> QED
    BY <1>1, <1>2 DEF Readable, Acceptable

\* An assignment is refused only for its expression.
LEMMA AssignTaken ==
  ASSUME NEW item, IsBasic(item), NamesStand, LowerContinuousAssign(item)
  PROVE  Taken(item)
  <1> DEFINE a == item.assigns[1]
             v == lower_expression(a.expr, scope)
  <1>1. item.kind = "assign"
    BY DEF LowerContinuousAssign
  <1>2. a.expr \in Exprs /\ a.expr \in ReadExprs(item) /\ Binds(item) = {a.target}
    BY <1>1 DEF IsBasic, ReadExprs, Binds
  <1>3. CASE v = Unresolved
    <2>1. status' = "err"
      BY <1>3 DEF LowerContinuousAssign, Fail
    <2> QED
      BY <1>2, <1>3, <2>1, Unreadable DEF Taken
  <1>4. CASE v # Unresolved
    <2>1. status' = status /\ Bind(a.target, Named(a.target, v.ty))
      BY <1>4 DEF LowerContinuousAssign, Emit
    <2> HIDE DEF a, v
    <2> QED
      BY <1>2, <2>1, BindStands DEF Taken
  <1> QED
    BY <1>3, <1>4

\* A declaration is never refused.
LEMMA DeclarationTaken ==
  ASSUME NEW item, IsBasic(item), NamesStand, LowerNetDeclaration(item) \/ LowerDataDeclaration(item)
  PROVE  Taken(item)
  <1>1. item.kind \in {"net", "data"}
    BY DEF LowerNetDeclaration, LowerDataDeclaration
  <1>2. Binds(item) \subseteq {DeclaredName(item)}
    <2>1. item.names \in Seq(Range(item.names)) /\ item.names # << >>
      BY <1>1 DEF IsBasic, IsDeclaration
    <2>2. item.before = << >> => item.before \o item.names = item.names
      BY <2>1
    <2>3. Head(item.names) = item.names[1]
      BY <2>1
    <2>4. Binds(item) = IF item.before = << >> THEN {item.names[1]} ELSE {}
      BY <1>1 DEF Binds
    <2> QED
      BY <2>2, <2>3, <2>4 DEF DeclaredName
  <1>3. status' = status
    BY DEF LowerNetDeclaration, LowerDataDeclaration, Emit
  <1>4. \E ty : Bind(DeclaredName(item), Named(DeclaredName(item), ty))
    BY DEF LowerNetDeclaration, LowerDataDeclaration
  <1> QED
    BY <1>2, <1>3, <1>4, BindStands DEF Taken

\* A combinational process is refused only for its expression.
LEMMA CombTaken ==
  ASSUME NEW item, IsBasic(item), NamesStand, LowerAlwaysComb(item)
  PROVE  Taken(item)
  <1> DEFINE e == item.stmts[1].expr
  <1>1. item.kind = "always_comb"
    BY DEF LowerAlwaysComb
  <1>2. e \in Exprs /\ e \in ReadExprs(item) /\ Binds(item) = {}
    BY <1>1 DEF IsBasic, ReadExprs, Binds
  <1>3. CASE lower_expression(e, scope) = Unresolved
    <2>1. status' = "err"
      BY <1>3 DEF LowerAlwaysComb, Fail
    <2> QED
      BY <1>2, <1>3, <2>1, Unreadable DEF Taken
  <1>4. CASE lower_expression(e, scope) # Unresolved
    <2>1. status' = status /\ scope' = scope
      BY <1>4 DEF LowerAlwaysComb, Emit
    <2> QED
      BY <1>2, <2>1 DEF Taken, NamesStand
  <1> QED
    BY <1>3, <1>4

\* The signals of uncut events: the first part names the clock, the last the last event.
LEMMA UncutSignals ==
  ASSUME NEW control, Uncut(control)
  PROVE  LET parts == EventParts(control) IN
         /\ Word(parts[1].word) = ClockSignal(control)
         /\ ~control.comma =>
              /\ Word(Last(parts).word) = Last(control.events).signal
              /\ Len(parts) = Len(control.events)
  <1> DEFINE n == Len(control.events)
             parts == EventParts(control)
  <1>1. n \in Nat /\ n # 0 /\ DOMAIN control.events = 1..n
    BY DEF Uncut
  <1>2. parts = PartsOf(control, n)
    BY PartsAre
  <1>3. \A k \in 1..n : Word(control.events[k].signal[1]) = control.events[k].signal
    BY <1>1, OnePiece
  <1>4. Last(control.events) = control.events[n]
    BY DEF Last
  <1>5. CASE control.comma
    <2>1. parts[1].word = control.events[n].signal[1]
      BY <1>2, <1>5 DEF PartsOf
    <2> QED
      BY <1>1, <1>3, <1>4, <1>5, <2>1 DEF ClockSignal
  <1>6. CASE ~control.comma
    <2>1. parts = [j \in 1..n |-> Piece(control.events[j])]
      BY <1>2, <1>6 DEF PartsOf
    <2> HIDE DEF parts, n
    <2>2. Len(parts) = n
      BY <1>1, <2>1
    <2>3. parts[1].word = control.events[1].signal[1] /\ Last(parts).word = control.events[n].signal[1]
      BY <1>1, <2>1, <2>2 DEF Last, Piece
    <2> QED
      BY <1>1, <1>3, <1>4, <1>6, <2>2, <2>3 DEF ClockSignal, n, parts
  <1> QED
    BY <1>5, <1>6

\* The events of a process are uncut, or it is refused for one of them.
LEMMA UncutProcess ==
  ASSUME NEW item, IsBasic(item), item.kind = "always_ff", ~CutSignal(item)
  PROVE  Uncut(item.control)
  <1> DEFINE c == item.control
  <1>1. /\ c.events \in Seq(Range(c.events)) /\ c.events # << >> /\ c.comma \in BOOLEAN
        /\ \A k \in DOMAIN c.events :
             LET signal == c.events[k].signal
             IN signal \in Seq(Range(signal)) /\ signal # << >>
    BY DEF IsBasic, IsControl
  <1>2. ASSUME NEW k \in DOMAIN c.events
        PROVE  LET signal == c.events[k].signal
               IN signal \in Seq(Range(signal)) /\ Len(signal) = 1
    <2>1. PICK signal : signal = c.events[k].signal
      OBVIOUS
    <2>2. signal \in Seq(Range(signal)) /\ signal # << >>
      BY <1>1, <2>1
    <2>3. ~(Len(signal) > 1)
      BY <2>1 DEF CutSignal
    <2>4. Len(signal) = 1
      <3>1. PICK S : S = Range(signal)
        OBVIOUS
      <3>2. signal \in Seq(S) /\ signal # << >>
        BY <2>2, <3>1
      <3>3. Len(signal) \in Nat /\ Len(signal) # 0
        BY <3>2, SequenceIs
      <3>4. PICK n \in Nat : n = Len(signal)
        BY <3>3
      <3>5. ~(n > 1) /\ n # 0
        BY <2>3, <3>3, <3>4
      <3>6. n = 1
        BY <3>5
      <3> QED
        BY <3>4, <3>6
    <2> QED
      BY <2>1, <2>2, <2>4
  <1> QED
    BY <1>1, <1>2 DEF Uncut

\* A clocked process without an if is refused only for its event control or expression.
LEMMA ClockedTaken ==
  ASSUME NEW item, IsBasic(item), NamesStand, LowerAlwaysFf(item)
  PROVE  Taken(item)
  <1> DEFINE e == item.stmts[1].expr
             parts == EventParts(item.control)
             clock == resolve_val(scope, Word(parts[1].word))
             v == lower_expression(e, scope)
  <1>1. item.kind = "always_ff" /\ ~item.conditional
    BY DEF LowerAlwaysFf
  <1>2. /\ e \in Exprs /\ e \in ReadExprs(item) /\ Binds(item) = {}
        /\ ClockSignal(item.control) \in ReadNames(item)
    BY <1>1 DEF IsBasic, ReadExprs, ReadNames, ReadSignals, Binds
  <1>3. CASE Unresolved \in {clock, v}
    <2>1. status' = "err"
      BY <1>3 DEF LowerAlwaysFf, Fail
    <2>2. SUFFICES ASSUME Acceptable(item, DOMAIN scope) PROVE FALSE
      BY <2>1 DEF Taken
    <2>3. Word(parts[1].word) = ClockSignal(item.control)
      BY <1>1, <2>2, UncutProcess, UncutSignals DEF Acceptable
    <2> HIDE DEF parts, e
    <2>4. clock # Unresolved
      BY <1>2, <2>2, <2>3, StandingBound, Resolves DEF Acceptable
    <2>5. v # Unresolved
      BY <1>2, <2>2, Unreadable
    <2> QED
      BY <1>3, <2>4, <2>5
  <1>4. CASE Unresolved \notin {clock, v}
    <2>1. status' = status /\ scope' = scope
      BY <1>4 DEF LowerAlwaysFf, Emit
    <2> QED
      BY <1>2, <2>1 DEF Taken, NamesStand
  <1> QED
    BY <1>3, <1>4

\* A clocked process with an if may be refused for the form of its reset as well.
LEMMA ResetTaken ==
  ASSUME NEW item, IsBasic(item), NamesStand, LowerAlwaysFfReset(item)
  PROVE  Taken(item)
  <1> DEFINE parts == EventParts(item.control)
             clock == resolve_val(scope, Word(parts[1].word))
             reset == resolve_val(scope, Word(Last(parts).word))
             value == lower_expression(item.then.expr, scope)
             next == lower_expression(item.else.expr, scope)
             failing == \/ Len(parts) = 1
                        \/ item.then.target # item.else.target
                        \/ Unresolved \in {clock, reset, value, next}
  <1>1. item.kind = "always_ff" /\ item.conditional
    BY DEF LowerAlwaysFfReset
  <1>2. /\ ReadExprs(item) = {item.then.expr, item.else.expr}
        /\ {ClockSignal(item.control), Last(item.control.events).signal} \subseteq ReadNames(item)
        /\ Binds(item) = {}
    BY <1>1 DEF ReadExprs, ReadNames, ReadSignals, Binds
  <1>3. CASE failing
    <2>1. status' = "err"
      BY <1>3 DEF LowerAlwaysFfReset, Fail
    <2>2. SUFFICES ASSUME Acceptable(item, DOMAIN scope) PROVE FALSE
      BY <2>1 DEF Taken
    <2>3. /\ item.then.target = item.else.target
          /\ Len(item.control.events) # 1 /\ ~item.control.comma
      BY <1>1, <2>2 DEF UnfitReset, Acceptable
    <2>4. {item.then.expr, item.else.expr} \subseteq Exprs
      BY <1>1, <2>3 DEF IsBasic
    <2>5. /\ Word(parts[1].word) = ClockSignal(item.control)
          /\ Word(Last(parts).word) = Last(item.control.events).signal
          /\ Len(parts) # 1
      BY <1>1, <2>2, <2>3, UncutProcess, UncutSignals DEF Acceptable
    <2> HIDE DEF parts
    <2>6. clock # Unresolved /\ reset # Unresolved
      BY <1>2, <2>2, <2>5, StandingBound, Resolves DEF Acceptable
    <2>7. value # Unresolved /\ next # Unresolved
      BY <1>2, <2>2, <2>4, Unreadable
    <2> QED
      BY <1>3, <2>3, <2>5, <2>6, <2>7
  <1>4. CASE ~failing
    <2>1. status' = status /\ scope' = scope
      BY <1>4 DEF LowerAlwaysFfReset, Emit
    <2> QED
      BY <1>2, <2>1 DEF Taken, NamesStand
  <1> QED
    BY <1>3, <1>4

\* An instance is refused only for the expression of one of its connections.
LEMMA InstanceTaken ==
  ASSUME NEW item, IsBasic(item), NamesStand, LowerModuleInstantiation(item)
  PROVE  Taken(item)
  <1> DEFINE failing == \E i \in DOMAIN item.insts : \E c \in Range(item.insts[i].conns) :
               c.expr # NoExpr /\ lower_expression(c.expr, scope) = Unresolved
  <1>1. item.kind = "instance"
    BY DEF LowerModuleInstantiation
  <1>2. Binds(item) = {}
    BY <1>1 DEF Binds
  <1>3. CASE failing
    <2>1. PICK i \in DOMAIN item.insts : \E c \in Range(item.insts[i].conns) :
               c.expr # NoExpr /\ lower_expression(c.expr, scope) = Unresolved
      BY <1>3
    <2>2. PICK conns : conns = item.insts[i].conns
      OBVIOUS
    <2>3. PICK k \in DOMAIN conns :
            conns[k].expr # NoExpr /\ lower_expression(conns[k].expr, scope) = Unresolved
      BY <2>1, <2>2 DEF Range
    <2>4. \E P : conns \in Seq([port : P, expr : Exprs \cup {NoExpr}])
      <3> DEFINE cs == item.insts[i].conns
                 P == {cs[j].port : j \in DOMAIN cs}
      <3>1. \A j \in DOMAIN item.insts :
              LET c == item.insts[j].conns
              IN c \in Seq([port : {c[m].port : m \in DOMAIN c}, expr : Exprs \cup {NoExpr}])
        BY <1>1 DEF IsBasic
      <3>2. cs \in Seq([port : P, expr : Exprs \cup {NoExpr}])
        BY <3>1
      <3> HIDE DEF P
      <3>3. conns \in Seq([port : P, expr : Exprs \cup {NoExpr}])
        BY <2>2, <3>2
      <3> QED
        BY <3>3
    <2>5. conns[k].expr \in Exprs
      <3>1. PICK P : conns \in Seq([port : P, expr : Exprs \cup {NoExpr}])
        BY <2>4
      <3>2. conns[k] \in [port : P, expr : Exprs \cup {NoExpr}]
        BY <2>3, <3>1, SequenceIs
      <3> QED
        BY <2>3, <3>2
    <2>6. conns[k].expr \in ReadExprs(item)
      <3>1. conns[k] \in {d \in Range(item.insts[i].conns) : d.expr # NoExpr}
        BY <2>2, <2>3 DEF Range
      <3>2. ReadExprs(item)
              = UNION {{c.expr : c \in {d \in Range(item.insts[j].conns) : d.expr # NoExpr}} :
                         j \in DOMAIN item.insts}
        BY <1>1 DEF ReadExprs
      <3>3. conns[k].expr \in {c.expr : c \in {d \in Range(item.insts[i].conns) : d.expr # NoExpr}}
        BY <3>1
      <3> QED
        BY <3>2, <3>3
    <2>7. status' = "err"
      BY <1>3 DEF LowerModuleInstantiation, Fail
    <2> QED
      BY <2>3, <2>5, <2>6, <2>7, Unreadable DEF Taken
  <1>4. CASE ~failing
    <2>1. status' = status /\ scope' = scope
      BY <1>4 DEF LowerModuleInstantiation
    <2> QED
      BY <1>2, <2>1 DEF Taken, NamesStand
  <1> QED
    BY <1>3, <1>4

\* Every item is taken for what is found in it, and joins the items that were.
LEMMA ItemTaken ==
  ASSUME NEW item \in Items, NamesStand, LowerItem(item)
  PROVE  Taken(Found(item)) /\ items' = Append(items, item) /\ UNCHANGED <<header, ports>>
  <1>1. items' = Append(items, item) /\ UNCHANGED <<header, ports>>
    BY DEF LowerItem, Read
  <1>2. PICK it : it = Found(item)
    OBVIOUS
  <1>3. it.kind = "other" \/ IsBasic(it)
    BY <1>2, FoundIs
  <1>4. UnsupportedItem(it) => Taken(it)
    BY DEF UnsupportedItem, Fail, Taken, Acceptable, BasicKinds
  <1>5. it.kind = "other" => UnsupportedItem(it)
    BY <1>2 DEF LowerItem, LowerContinuousAssign, LowerNetDeclaration, LowerDataDeclaration,
                LowerAlwaysComb, LowerAlwaysFf, LowerAlwaysFfReset, LowerModuleInstantiation
  <1>6. IsBasic(it) => Taken(it)
    BY <1>2, <1>4, AssignTaken, DeclarationTaken, CombTaken, ClockedTaken, ResetTaken, InstanceTaken
       DEF LowerItem
  <1> QED
    BY <1>1, <1>2, <1>3, <1>4, <1>5, <1>6

-----------------------------------------------------------------------------
(* The invariant.                                                           *)

\* The ports are those of the header, as parsed.
PortsParsed ==
  status \in {"body", "ok"} => ports = [k \in DOMAIN header |-> ParsedPort(header, k)]

\* The scope holds the inputs and what the items bound, and each of its names stands
\* for itself.
ScopeKept ==
  status \in {"body", "ok"} => /\ InputNames \cup BoundBy(items) \subseteq DOMAIN scope
                               /\ NamesStand

Reached ==
  /\ header \in PortLists
  /\ items \in Seq(Items)
  /\ status \in {"header", "body", "ok", "err"}
  /\ status = "header" => items = << >>

IInv ==
  Reached /\ PortsParsed /\ ScopeKept /\ OutputsClosedByName /\ BoundItemsAccepted

\* One item more binds what that item binds.
LEMMA BoundByAppend ==
  ASSUME NEW s \in Seq(Items), NEW item \in Items
  PROVE  /\ BoundBy(Append(s, item)) = BoundBy(s) \cup Binds(Found(item))
         /\ Front(Append(s, item)) = s /\ Last(Append(s, item)) = item
         /\ Append(s, item) \in Seq(Items) /\ Append(s, item) # << >>
  <1>1. PICK t : t = Append(s, item)
    OBVIOUS
  <1>2. /\ t \in Seq(Items) /\ Len(t) = Len(s) + 1 /\ Len(s) \in Nat
        /\ DOMAIN s = 1..Len(s) /\ DOMAIN t = 1..(Len(s) + 1)
        /\ t[Len(s) + 1] = item
        /\ \A k \in 1..Len(s) : t[k] = s[k]
    BY <1>1
  <1>3. DOMAIN t = DOMAIN s \cup {Len(s) + 1}
    BY <1>2
  <1>4. BoundBy(t) = BoundBy(s) \cup Binds(Found(item))
    BY <1>2, <1>3 DEF BoundBy
  <1>5. Last(t) = item
    BY <1>2 DEF Last
  <1>6. Front(t) = s
    BY <1>1 DEF Front
  <1>7. t # << >>
    BY <1>2
  <1> QED
    BY <1>1, <1>2, <1>4, <1>5, <1>6, <1>7

\* The output ports depend on the ports alone.
LEMMA SameOutputs ==
  ASSUME NEW a, NEW b, a = b
  PROVE  SelectSeq(a, IsOutput) = SelectSeq(b, IsOutput)
  BY Zenon

\* The invariant holds at the start.
LEMMA InitIInv ==
  Init => IInv
  BY DEF Init, IInv, Reached, PortsParsed, ScopeKept, OutputsClosedByName, BoundItemsAccepted

\* The header keeps it.
LEMMA HeaderIInv ==
  ASSUME IInv, LowerHeader
  PROVE  IInv'
  <1>1. /\ items' = items /\ header' = header /\ status' \in {"err", "body"}
        /\ items = << >> /\ header \in PortLists
    BY DEF IInv, Reached, LowerHeader
  <1>2. CASE status' = "err"
    BY <1>1, <1>2 DEF IInv, Reached, PortsParsed, ScopeKept, OutputsClosedByName, BoundItemsAccepted
  <1>3. CASE status' = "body"
    <2> DEFINE inputs == {k \in DOMAIN header : IsInput(ports'[k])}
               value(n) == LET k == CHOOSE j \in inputs : header[j].name = n IN Named(n, ports'[k].ty)
    <2>1. /\ ports' = [k \in DOMAIN header |-> ParsedPort(header, k)]
          /\ scope' = [n \in {header[k].name : k \in inputs} |-> value(n)]
      BY <1>3 DEF LowerHeader
    <2>2. \A n : value(n).kind = "name" /\ value(n).attr = n
      BY DEF Named, Expr
    <2>3. InputNames' = {header[k].name : k \in inputs}
      BY <1>1 DEF InputNames
    <2>4. BoundBy(items)' = {}
      BY <1>1 DEF BoundBy
    <2> HIDE DEF value, inputs
    <2>5. NamesStand'
      BY <2>1, <2>2 DEF NamesStand
    <2>6. ScopeKept'
      BY <2>1, <2>3, <2>4, <2>5 DEF ScopeKept
    <2>7. PortsParsed'
      BY <1>1, <2>1 DEF PortsParsed
    <2>8. OutputsClosedByName' /\ BoundItemsAccepted'
      BY <1>3 DEF OutputsClosedByName, BoundItemsAccepted
    <2> QED
      BY <1>1, <1>3, <2>6, <2>7, <2>8 DEF IInv, Reached
  <1> QED
    BY <1>1, <1>2, <1>3

\* An item keeps it.
LEMMA ItemIInv ==
  ASSUME IInv, NEW item \in Items, LowerItem(item)
  PROVE  IInv'
  <1>1. status = "body" /\ NamesStand /\ InputNames \cup BoundBy(items) \subseteq DOMAIN scope
    BY DEF LowerItem, IInv, ScopeKept
  <1>2. Taken(Found(item)) /\ items' = Append(items, item) /\ header' = header /\ ports' = ports
    BY <1>1, ItemTaken
  <1>3. /\ BoundBy(items)' = BoundBy(items) \cup Binds(Found(item))
        /\ Front(items)' = items /\ Last(items)' = item
        /\ items' \in Seq(Items) /\ items' # << >>
    BY <1>2, BoundByAppend DEF IInv, Reached
  <1>4. InputNames' = InputNames
    BY <1>2 DEF InputNames
  <1>5. CASE status' = "err" /\ ~Acceptable(Found(item), DOMAIN scope)
    <2>1. BoundItemsAccepted'
      <3>1. InputNames' \cup BoundBy(Front(items))' \subseteq DOMAIN scope
        BY <1>1, <1>3, <1>4
      <3> QED
        BY <1>3, <1>5, <3>1 DEF BoundItemsAccepted, CanBeRead, Acceptable
    <2> QED
      BY <1>2, <1>3, <1>5, <2>1 DEF IInv, Reached, PortsParsed, ScopeKept, OutputsClosedByName
  <1>6. CASE /\ status' = status
             /\ DOMAIN scope \cup Binds(Found(item)) \subseteq DOMAIN scope'
             /\ NamesStand'
    <2>1. ScopeKept'
      BY <1>1, <1>3, <1>4, <1>6 DEF ScopeKept
    <2>2. PortsParsed'
      BY <1>1, <1>2 DEF PortsParsed, IInv
    <2>3. OutputsClosedByName' /\ BoundItemsAccepted'
      BY <1>1, <1>6 DEF OutputsClosedByName, BoundItemsAccepted
    <2> QED
      BY <1>1, <1>2, <1>3, <1>6, <2>1, <2>2, <2>3 DEF IInv, Reached
  <1> QED
    BY <1>2, <1>5, <1>6 DEF Taken

\* The end of the module keeps it.
LEMMA OutputsIInv ==
  ASSUME IInv, FinalizeOutputs
  PROVE  IInv'
  <1> DEFINE outputs == SelectSeq(ports, IsOutput)
             values == [k \in DOMAIN outputs |-> OutputValue(outputs[k])]
             op == Op("output", NoTarget, "", values, NoType)
  <1>1. /\ status = "body" /\ status' = "ok" /\ body' = Append(body, op)
        /\ header' = header /\ ports' = ports /\ items' = items /\ scope' = scope
    BY DEF FinalizeOutputs
  <1>2. NamesStand /\ InputNames \cup BoundBy(items) \subseteq DOMAIN scope
    BY <1>1 DEF IInv, ScopeKept
  <1>3. InputNames' = InputNames /\ BoundBy(items)' = BoundBy(items) /\ NamesStand'
    BY <1>1, <1>2 DEF InputNames, BoundBy, NamesStand
  <1>4. Last(body').in = values
    <2>1. op.in = values
      BY DEF Op
    <2> HIDE DEF op
    <2>2. Last(Append(body, op)) = op
      BY DEF Last
    <2> QED
      BY <1>1, <2>1, <2>2
  <1>5. SelectSeq(ports', IsOutput) = outputs
    BY <1>1, SameOutputs
  <1>6. OutputsClosedByName'
    <2> HIDE DEF outputs
    <2>1. DOMAIN values = DOMAIN outputs
      OBVIOUS
    <2>2. ASSUME NEW k \in DOMAIN outputs, outputs[k].name \in InputNames \cup BoundBy(items)
          PROVE  values[k].kind = "name" /\ values[k].attr = outputs[k].name
      <3>1. values[k] = OutputValue(outputs[k])
        OBVIOUS
      <3> QED
        BY <1>2, <2>2, <3>1 DEF OutputValue, NamesStand
    <2> HIDE DEF values
    <2> QED
      BY <1>3, <1>4, <1>5, <2>1, <2>2 DEF OutputsClosedByName
  <1>7. ScopeKept' /\ PortsParsed' /\ BoundItemsAccepted'
    BY <1>1, <1>2, <1>3 DEF ScopeKept, PortsParsed, BoundItemsAccepted, IInv
  <1> QED
    BY <1>1, <1>6, <1>7 DEF IInv, Reached

\* A step in which nothing changes keeps it.
LEMMA StutterIInv ==
  ASSUME IInv, UNCHANGED vars
  PROVE  IInv'
  <1>1. /\ header' = header /\ ports' = ports /\ items' = items
        /\ scope' = scope /\ body' = body /\ status' = status
    BY DEF vars
  <1>2. InputNames' = InputNames /\ BoundBy(items)' = BoundBy(items) /\ (NamesStand' <=> NamesStand)
    BY <1>1 DEF InputNames, BoundBy, NamesStand
  <1>3. SelectSeq(ports', IsOutput) = SelectSeq(ports, IsOutput)
    BY <1>1, SameOutputs
  <1>4. Reached' /\ PortsParsed'
    BY <1>1 DEF IInv, Reached, PortsParsed
  <1>5. ScopeKept'
    BY <1>1, <1>2 DEF IInv, ScopeKept
  <1>6. OutputsClosedByName'
    BY <1>1, <1>2, <1>3 DEF IInv, OutputsClosedByName
  <1>7. BoundItemsAccepted'
    BY <1>1, <1>2 DEF IInv, BoundItemsAccepted, CanBeRead
  <1> QED
    BY <1>4, <1>5, <1>6, <1>7 DEF IInv

\* Every reachable state satisfies the invariant.
THEOREM ParserInvariant ==
  Spec => []IInv
  <1>1. Init => IInv
    BY InitIInv
  <1>2. IInv /\ [Next]_vars => IInv'
    <2> SUFFICES ASSUME IInv, [Next]_vars PROVE IInv'
      OBVIOUS
    <2> QED
      BY HeaderIInv, ItemIInv, OutputsIInv, StutterIInv DEF Next, Returned
  <1> QED
    BY <1>1, <1>2, PTL DEF Spec

\* An item that reads only what is bound before it, and no literal but numbers, is
\* refused only if it is of a kind that is not supported, or a process whose event
\* control is cut at a name or whose condition is no asynchronous reset.
THEOREM BoundItemsAreAccepted ==
  Spec => []BoundItemsAccepted
  BY ParserInvariant, PTL DEF IInv

\* hw.output closes an output that is an input too, or whose name an item bound, with a
\* value of that name, whatever else the module holds.
THEOREM OutputsAreClosed ==
  Spec => []OutputsClosedByName
  BY ParserInvariant, PTL DEF IInv

-----------------------------------------------------------------------------
(* The ports.                                                               *)

\* A port without a direction of its own has that of the port before it.
LEMMA DirectionIs ==
  ASSUME NEW list \in PortLists, NEW k \in DOMAIN list
  PROVE  /\ list[k].dir # None => Direction(list, k) = list[k].dir
         /\ list[k].dir = None /\ k > 1 => Direction(list, k) = Direction(list, k - 1)
         /\ list[k].dir = None /\ k = 1 => Direction(list, k) = "input"
  <1> DEFINE given == {j \in 1..k : list[j].dir # None}
  <1>1. k \in Nat /\ k >= 1
    <2>1. list \in Seq(Range(list))
      BY SourceAssumption
    <2> QED
      BY <2>1, SequenceIs
  <1>2. CASE list[k].dir # None
    <2>1. k \in given /\ \A i \in given : i <= k
      BY <1>1, <1>2
    <2>2. \A j \in given : (\A i \in given : i <= j) => j = k
      BY <1>1, <2>1
    <2>3. (CHOOSE j \in given : \A i \in given : i <= j) = k
      <3> HIDE DEF given
      <3> QED
        BY <2>1, <2>2
    <2>4. given # {}
      BY <2>1
    <2> QED
      BY <1>2, <2>3, <2>4 DEF Direction
  <1>3. CASE list[k].dir = None /\ k > 1
    <2> DEFINE Of(g) == IF g = {} THEN "input" ELSE list[CHOOSE j \in g : \A i \in g : i <= j].dir
               before == {j \in 1..(k - 1) : list[j].dir # None}
    <2>1. given = before
      BY <1>1, <1>3
    <2>2. Direction(list, k) = Of(given) /\ Direction(list, k - 1) = Of(before)
      BY DEF Direction
    <2> HIDE DEF given, before, Of
    <2> QED
      BY <1>3, <2>1, <2>2
  <1>4. CASE list[k].dir = None /\ k = 1
    <2>1. given = {}
      BY <1>4
    <2> QED
      BY <1>4, <2>1 DEF Direction
  <1> QED
    BY <1>1, <1>2, <1>3, <1>4

\* A bound that is a plain number of the machine's word is read as that number.
LEMMA BoundIs ==
  ASSUME NEW b, IsBound(b), IsDecimal(b.text), b.value < 2^WordBits
  PROVE  parse_number_literal(b.text).value = b.value
  <1>1. ~Holds(b.text, {Apostrophe})
    BY DEF IsDecimal, Holds, Apostrophe
  <1>2. FromRadix(Without("_", b.text), 10, 0) = b.value
    BY DEF IsBound
  <1> QED
    BY <1>1, <1>2 DEF parse_number_literal, Parsed

\* The width of a plain range is the one it says.
LEMMA PlainRangeWidth ==
  ASSUME NEW ranges, AreRanges(ranges), Len(ranges) = 1, PlainRange(ranges[1])
  PROVE  extract_range_width(ranges) = Extent(ranges[1])
  <1>1. PICK r : r = ranges[1]
    OBVIOUS
  <1>2. ranges # << >> /\ Head(ranges) = r /\ IsBound(r.msb) /\ IsBound(r.lsb)
    <2>1. ranges \in Seq(Range(ranges))
      BY DEF AreRanges
    <2>2. ranges # << >> /\ 1 \in DOMAIN ranges
      BY <2>1, SequenceIs
    <2> QED
      BY <1>1, <2>2 DEF AreRanges
  <1>3. /\ parse_number_literal(r.msb.text).value = r.msb.value
        /\ parse_number_literal(r.lsb.text).value = r.lsb.value
    BY <1>1, <1>2, BoundIs DEF PlainRange
  <1>4. extract_range_width(ranges) = Extent(r) % 2^SizeBits
    BY <1>2, <1>3 DEF extract_range_width, Extent
  <1>5. Extent(r) \in Nat /\ Extent(r) < 2^SizeBits
    <2>1. r.msb.value \in Int /\ r.lsb.value \in Int
      BY <1>2 DEF IsBound
    <2> QED
      BY <1>1, <2>1 DEF Extent, PlainRange
  <1>6. PICK m \in Nat \ {0} : m = 2^SizeBits
    BY BitsAssumption
  <1>7. \A n \in Nat : n < m => n % m = n
    BY <1>6
  <1> QED
    BY <1>1, <1>4, <1>5, <1>6, <1>7

\* Every port has the direction of the source, and the width of its range where that is
\* one of plain numbers.
THEOREM PortsKept ==
  Spec => []PortsKeptUnlessInherited
  <1>1. IInv => PortsKeptUnlessInherited
    <2> SUFFICES ASSUME IInv, status \in {"body", "ok"}
                 PROVE  PortsKeptUnlessInherited
      BY DEF PortsKeptUnlessInherited
    <2>1. /\ header \in PortLists
          /\ ports = [k \in DOMAIN header |-> ParsedPort(header, k)]
      BY DEF IInv, Reached, PortsParsed
    <2>2. \A k \in DOMAIN header : k \in Nat /\ k >= 1 /\ (k > 1 => k - 1 \in DOMAIN header)
      <3>1. header \in Seq(Range(header))
        BY <2>1, SourceAssumption
      <3>2. Len(header) \in Nat /\ DOMAIN header = 1..Len(header)
        BY <3>1, SequenceIs
      <3> QED
        BY <3>2
    <2>3. \A k \in DOMAIN header :
            /\ ports[k].dir = Direction(header, k)
            /\ ports[k].width = extract_range_width(header[k].ranges)
            /\ AreRanges(header[k].ranges)
      BY <2>1, SourceAssumption DEF ParsedPort, IsPort
    <2>4. ASSUME NEW k \in DOMAIN header PROVE ports[k].dir = DirectionSaid(k)
      BY <2>1, <2>2, <2>3, DirectionIs DEF DirectionSaid
    <2>5. ASSUME NEW k \in DOMAIN header, Len(header[k].ranges) = 1, PlainRange(header[k].ranges[1])
          PROVE  ports[k].width = Extent(header[k].ranges[1])
      BY <2>3, <2>5, PlainRangeWidth
    <2>6. ASSUME NEW k \in DOMAIN header, header[k].ranges = << >>
          PROVE  ports[k].width = 1
      BY <2>3, <2>6 DEF extract_range_width
    <2> QED
      BY <2>1, <2>4, <2>5, <2>6 DEF PortsKeptUnlessInherited
  <1> QED
    BY <1>1, ParserInvariant, PTL

-----------------------------------------------------------------------------
(* The literals.                                                            *)

\* The pieces of a text put together.
LEMMA Pieced ==
  ASSUME NEW S, NEW a \in Seq(S), NEW c \in S, NEW r \in Seq(S), NEW t, t = a \o <<c>> \o r
  PROVE  /\ t \in Seq(S) /\ Len(t) = Len(a) + 1 + Len(r) /\ DOMAIN t = 1..(Len(a) + 1 + Len(r))
         /\ t[Len(a) + 1] = c
         /\ \A k \in 1..Len(a) : t[k] = a[k]
         /\ SubSeq(t, 1, Len(a)) = a
         /\ SubSeq(t, Len(a) + 2, Len(t)) = r
  <1>1. PICK u : u = a \o <<c>>
    OBVIOUS
  <1>2. u \in Seq(S) /\ Len(u) = Len(a) + 1 /\ u[Len(a) + 1] = c /\ \A k \in 1..Len(a) : u[k] = a[k]
    BY <1>1
  <1>3. t = u \o r
    BY <1>1
  <1>4. /\ t \in Seq(S) /\ Len(t) = Len(u) + Len(r)
        /\ \A k \in 1..Len(u) : t[k] = u[k]
        /\ \A k \in 1..Len(r) : t[Len(u) + k] = r[k]
    BY <1>2, <1>3
  <1>5. Len(a) \in Nat /\ Len(r) \in Nat /\ DOMAIN t = 1..Len(t)
    BY <1>4
  <1>6. \A k \in 1..Len(a) : t[k] = a[k]
    BY <1>2, <1>4, <1>5
  <1>7. SubSeq(t, 1, Len(a)) = a
    <2>1. PICK p : p = SubSeq(t, 1, Len(a))
      OBVIOUS
    <2>2. p \in Seq(S) /\ Len(p) = Len(a) /\ \A k \in 1..Len(a) : p[k] = t[k]
      BY <1>2, <1>4, <1>5, <2>1
    <2>3. \A k \in 1..Len(a) : p[k] = a[k]
      BY <1>6, <2>2
    <2> QED
      BY <2>1, <2>2, <2>3
  <1>8. SubSeq(t, Len(a) + 2, Len(t)) = r
    <2>1. PICK p : p = SubSeq(t, Len(a) + 2, Len(t))
      OBVIOUS
    <2>2. p \in Seq(S) /\ Len(p) = Len(r) /\ \A k \in 1..Len(r) : p[k] = t[Len(a) + 1 + k]
      BY <1>2, <1>4, <1>5, <2>1
    <2>3. \A k \in 1..Len(r) : p[k] = r[k]
      BY <1>2, <1>4, <1>5, <2>2
    <2> QED
      BY <2>1, <2>2, <2>3
  <1>9. t[Len(a) + 1] = c
    BY <1>2, <1>4, <1>5
  <1> QED
    BY <1>2, <1>4, <1>5, <1>6, <1>7, <1>8, <1>9

\* The letters that are digits are no apostrophe, space or letter of a base above them.
LEMMA DigitLetters ==
  /\ \A k \in 1..16 : /\ DigitChars[k] \notin {Apostrophe, Space, "h", "H", "o", "O"}
                      /\ UpperChars[k] \notin {Apostrophe, Space, "h", "H", "o", "O"}
  /\ \A k \in 1..10 : /\ DigitChars[k] \notin {"b", "B"}
                      /\ UpperChars[k] \notin {"b", "B"}
  <1>1. \A k \in 1..16 : k \in {1, 2, 3, 4, 5, 6, 7, 8, 9, 10, 11, 12, 13, 14, 15, 16}
    OBVIOUS
  <1>2. \A k \in 1..10 : k \in {1, 2, 3, 4, 5, 6, 7, 8, 9, 10}
    OBVIOUS
  <1> QED
    BY <1>1, <1>2 DEF DigitChars, UpperChars, Apostrophe, Space

\* What the parts of a literal hold.
LEMMA LiteralLetters ==
  ASSUME NEW l, IsLiteral(l)
  PROVE  /\ ~Holds(l.size, {Apostrophe})
         /\ ~Holds(l.digits, {Apostrophe, "h", "H", "o", "O"})
         /\ BaseOf(l) # 16 => ~Holds(l.digits, {"b", "B"})
  <1> DEFINE A == {DigitChars[k] : k \in 1..10} \cup {Space, "_"}
             D == {DigitChars[k] : k \in 1..16} \cup {UpperChars[k] : k \in 1..16} \cup {"_"}
  <1>1. l.size \in Seq(A) /\ l.digits \in Seq(D) /\ Legal(l)
    BY DEF IsLiteral
  <1>2. Apostrophe \notin A
    <2>1. \A k \in 1..10 : k \in 1..16
      OBVIOUS
    <2>2. Apostrophe \notin {Space, "_"}
      BY DEF Apostrophe, Space
    <2> QED
      BY <2>1, <2>2, DigitLetters
  <1>3. D \cap {Apostrophe, "h", "H", "o", "O"} = {}
    <2>1. "_" \notin {Apostrophe, "h", "H", "o", "O"}
      BY DEF Apostrophe
    <2> QED
      BY <2>1, DigitLetters
  <1>4. ~Holds(l.size, {Apostrophe})
    <2> HIDE DEF A
    <2>1. \A k \in DOMAIN l.size : l.size[k] \in A
      BY <1>1, SequenceIs
    <2> QED
      BY <1>2, <2>1 DEF Holds
  <1>5. ~Holds(l.digits, {Apostrophe, "h", "H", "o", "O"})
    <2> HIDE DEF D
    <2> QED
      BY <1>1, <1>3, SequenceIs DEF Holds
  <1>6. ASSUME BaseOf(l) # 16 PROVE ~Holds(l.digits, {"b", "B"})
    <2>1. BaseOf(l) \in {2, 8, 10}
      BY <1>6 DEF BaseOf
    <2>2. \A c : IsDigit(c, BaseOf(l)) => c \notin {"b", "B"}
      <3>1. \A k \in 1..BaseOf(l) : k \in 1..10
        BY <2>1
      <3> QED
        BY <3>1, DigitLetters DEF IsDigit
    <2>3. \A k \in DOMAIN l.digits : l.digits[k] = "_" \/ IsDigit(l.digits[k], BaseOf(l))
      BY <1>1 DEF Legal
    <2> QED
      BY <2>2, <2>3 DEF Holds
  <1> QED
    BY <1>4, <1>5, <1>6

\* The base is what is trimmed, when no digit follows that looks like it.
LEMMA TrimsBase ==
  ASSUME NEW S, NEW b \in Seq(S), NEW d \in Seq(S), d # << >>,
         \A k \in DOMAIN b : b[k] \in BaseLetters, d[1] \notin BaseLetters
  PROVE  TrimBase(b \o d) = d
  <1>1. PICK t : t = b \o d
    OBVIOUS
  <1>2. /\ t \in Seq(S) /\ Len(t) = Len(b) + Len(d)
        /\ Len(b) \in Nat /\ Len(d) \in Nat /\ Len(d) # 0
        /\ \A k \in 1..Len(b) : t[k] = b[k]
        /\ \A k \in 1..Len(d) : t[Len(b) + k] = d[k]
    BY <1>1
  <1> DEFINE keep == {k \in 1..Len(t) + 1 : k = Len(t) + 1 \/ t[k] \notin BaseLetters}
             n == Len(b) + 1
  <1>3. n \in keep
    BY <1>2
  <1>4. \A k \in keep : n <= k
    <2>1. \A k \in 1..Len(b) : t[k] \in BaseLetters /\ k # Len(t) + 1
      BY <1>2
    <2> QED
      BY <1>2, <2>1
  <1>5. \A k \in keep : (\A j \in keep : k <= j) => k = n
    BY <1>2, <1>3, <1>4
  <1>6. (CHOOSE k \in keep : \A j \in keep : k <= j) = n
    <2> HIDE DEF keep, n
    <2> QED
      BY <1>3, <1>4, <1>5
  <1>7. TrimBase(t) = SubSeq(t, n, Len(t))
    BY <1>6 DEF TrimBase
  <1>8. SubSeq(t, n, Len(t)) = d
    <2>1. PICK p : p = SubSeq(t, n, Len(t))
      OBVIOUS
    <2>2. p \in Seq(S) /\ Len(p) = Len(d) /\ \A k \in 1..Len(d) : p[k] = t[Len(b) + k]
      BY <1>2, <2>1
    <2> QED
      BY <1>2, <2>1, <2>2
  <1> QED
    BY <1>1, <1>7, <1>8

\* What a text put together holds, its pieces hold.
LEMMA HoldsBoth ==
  ASSUME NEW S, NEW b \in Seq(S), NEW d \in Seq(S), NEW letters
  PROVE  Holds(b \o d, letters) <=> Holds(b, letters) \/ Holds(d, letters)
  <1>1. PICK t : t = b \o d
    OBVIOUS
  <1>2. /\ DOMAIN t = 1..(Len(b) + Len(d)) /\ DOMAIN b = 1..Len(b) /\ DOMAIN d = 1..Len(d)
        /\ Len(b) \in Nat /\ Len(d) \in Nat
        /\ \A k \in 1..Len(b) : t[k] = b[k]
        /\ \A k \in 1..Len(d) : t[Len(b) + k] = d[k]
    BY <1>1
  <1>3. ASSUME NEW k \in DOMAIN t, t[k] \in letters
        PROVE  Holds(b, letters) \/ Holds(d, letters)
    <2>1. CASE k \in 1..Len(b)
      BY <1>2, <1>3, <2>1 DEF Holds
    <2>2. CASE k \notin 1..Len(b)
      <3>1. k - Len(b) \in 1..Len(d) /\ k = Len(b) + (k - Len(b))
        BY <1>2, <2>2
      <3>2. d[k - Len(b)] = t[k]
        BY <1>2, <3>1
      <3> QED
        BY <1>2, <1>3, <3>1, <3>2 DEF Holds
    <2> QED
      BY <2>1, <2>2
  <1>4. ASSUME NEW k \in DOMAIN b, b[k] \in letters PROVE Holds(t, letters)
    BY <1>2, <1>4 DEF Holds
  <1>5. ASSUME NEW k \in DOMAIN d, d[k] \in letters PROVE Holds(t, letters)
    <2>1. Len(b) + k \in DOMAIN t /\ t[Len(b) + k] = d[k]
      BY <1>2
    <2> QED
      BY <1>5, <2>1 DEF Holds
  <1> QED
    BY <1>1, <1>3, <1>4, <1>5 DEF Holds

\* The radix is found in the base.
LEMMA RadixIs ==
  ASSUME NEW l, IsLiteral(l), NEW S, l.base \in Seq(S), l.digits \in Seq(S)
  PROVE  Radix(l.base \o l.digits) = BaseOf(l)
  <1>1. PICK t : t = l.base \o l.digits
    OBVIOUS
  <1>2. /\ Holds(t, {"h", "H"}) <=> Holds(l.base, {"h", "H"})
        /\ Holds(t, {"o", "O"}) <=> Holds(l.base, {"o", "O"})
        /\ Holds(t, {"b", "B"}) <=> Holds(l.base, {"b", "B"}) \/ Holds(l.digits, {"b", "B"})
        /\ Holds(t, {"h", "H", "b", "B"}) <=> Holds(t, {"h", "H"}) \/ Holds(t, {"b", "B"})
    <2>1. ~Holds(l.digits, {"h", "H"}) /\ ~Holds(l.digits, {"o", "O"})
      BY LiteralLetters DEF Holds
    <2>2. Holds(t, {"h", "H", "b", "B"}) <=> Holds(t, {"h", "H"}) \/ Holds(t, {"b", "B"})
      BY DEF Holds
    <2> QED
      BY <1>1, <2>1, <2>2, HoldsBoth
  <1>3. ASSUME l.base # << >>
        PROVE  /\ Holds(l.base, {"h", "H"}) => ~Holds(l.base, {"b", "B"}) /\ ~Holds(l.base, {"o", "O"})
               /\ Holds(l.base, {"b", "B"}) => ~Holds(l.base, {"o", "O"})
    <2>1. PICK k \in DOMAIN l.base :
            \A j \in DOMAIN l.base : l.base[j] \in BaseLetters \ {"s", "S"} => j = k
      BY <1>3 DEF IsLiteral, OneRadix
    <2>2. \A j \in DOMAIN l.base : l.base[j] \in {"h", "H", "b", "B", "o", "O"} => j = k
      BY <2>1 DEF BaseLetters
    <2> QED
      BY <2>2 DEF Holds
  <1>4. l.base = << >> => \A letters : ~Holds(l.base, letters)
    BY DEF Holds
  <1> DEFINE h == Holds(l.base, {"h", "H"})
             b == Holds(l.base, {"b", "B"})
             o == Holds(l.base, {"o", "O"})
  <1>5. (h => ~b /\ ~o) /\ (b => ~o)
    BY <1>3, <1>4
  <1>6. /\ h => BaseOf(l) = 16
        /\ ~h /\ b => BaseOf(l) = 2
        /\ ~h /\ ~b /\ o => BaseOf(l) = 8
        /\ ~h /\ ~b /\ ~o => BaseOf(l) = 10
    BY <1>5 DEF BaseOf
  <1> DEFINE th == Holds(t, {"h", "H"})
             tb == Holds(t, {"b", "B"})
             to == Holds(t, {"o", "O"})
             tx == Holds(t, {"h", "H", "b", "B"})
  <1>7. (th <=> h) /\ (to <=> o) /\ (tx <=> th \/ tb)
    BY <1>2
  <1>8. ~h => (tb <=> b)
    BY <1>2, <1>6, LiteralLetters
  <1>9. /\ th => Radix(t) = 16
        /\ ~th /\ tb => Radix(t) = 2
        /\ ~th /\ ~tb /\ to => Radix(t) = 8
        /\ ~th /\ ~tb /\ ~to => Radix(t) = 10
    BY <1>7 DEF Radix
  <1> HIDE DEF h, b, o, th, tb, to, tx
  <1> QED
    BY <1>1, <1>6, <1>7, <1>8, <1>9

\* The value and the size that a literal gives.
Given(l) == [value |-> ValueSaid(l), width |-> SizeSaid(l)]

\* A literal without spaces whose first digit is no base letter, and whose size holds no
\* "_", is read as it is written.
LEMMA TightLiteral ==
  ASSUME NEW l, IsLiteral(l), Tight(l), Fits(l)
  PROVE  parse_number_literal(Text(l)) = Given(l)
  <1> DEFINE A == {DigitChars[k] : k \in 1..10} \cup {Space, "_"}
             B == BaseLetters \cup {Space}
             D == {DigitChars[k] : k \in 1..16} \cup {UpperChars[k] : k \in 1..16} \cup {"_"}
             S == A \cup B \cup D \cup {Apostrophe}
  <1>1. /\ l.size \in Seq(S) /\ l.base \in Seq(S) /\ l.digits \in Seq(S)
        /\ l.base \in Seq(B) /\ l.digits # << >>
        /\ Apostrophe \in S
    <2>1. l.size \in Seq(A) /\ l.base \in Seq(B) /\ l.digits \in Seq(D)
      BY DEF IsLiteral
    <2>2. A \subseteq S /\ B \subseteq S /\ D \subseteq S
      OBVIOUS
    <2>3. \A X, Y : X \subseteq Y => Seq(X) \subseteq Seq(Y)
      OBVIOUS
    <2> HIDE DEF A, B, D
    <2>4. l.size \in Seq(S) /\ l.base \in Seq(S) /\ l.digits \in Seq(S)
      BY <2>1, <2>2, <2>3
    <2> QED
      BY <2>1, <2>4 DEF IsLiteral
  <1> HIDE DEF A, D, S
  <1>2. ~Holds(l.size, {Apostrophe}) /\ ~Holds(l.digits, {Apostrophe})
    BY LiteralLetters DEF Holds
  <1>3. CASE l.base = << >>
    <2>1. Text(l) = l.digits
      BY <1>3 DEF Text
    <2>2. parse_number_literal(Text(l))
            = [value |-> Parsed(Without("_", l.digits), 10, WordBits, 0), width |-> 32]
      BY <1>2, <2>1 DEF parse_number_literal
    <2>3. BaseOf(l) = 10
      <3>1. \A letters : ~Holds(l.base, letters)
        BY <1>3 DEF Holds
      <3> QED
        BY <3>1 DEF BaseOf
    <2>4. l.size = << >>
      BY <1>3 DEF IsLiteral
    <2>5. ~Holds(l.size, {Space, "_"})
      BY <2>4 DEF Holds
    <2>6. SizeSaid(l) = 32
      BY <2>4, <2>5 DEF SizeSaid, FromRadix
    <2>7. Parsed(Without("_", l.digits), 10, WordBits, 0) = ValueSaid(l)
      BY <2>3 DEF Parsed, ValueSaid, Fits
    <2> QED
      BY <2>2, <2>6, <2>7 DEF Given
  <1>4. CASE l.base # << >>
    <2> DEFINE rest == l.base \o l.digits
               n == Len(l.size) + 1
    <2>1. PICK t : t = Text(l)
      OBVIOUS
    <2>2. t = l.size \o <<Apostrophe>> \o rest
      <3>1. t = ((l.size \o <<Apostrophe>>) \o l.base) \o l.digits
        BY <1>4, <2>1 DEF Text
      <3>2. \A a, b, d \in Seq(S) : (a \o b) \o d = a \o (b \o d)
        OBVIOUS
      <3>3. l.size \o <<Apostrophe>> \in Seq(S)
        BY <1>1
      <3> QED
        BY <1>1, <3>1, <3>2, <3>3
    <2>3. rest \in Seq(S)
      BY <1>1
    <2>4. /\ Len(l.size) \in Nat /\ DOMAIN l.size = 1..Len(l.size)
          /\ Len(rest) \in Nat
      BY <1>1, <2>3, SequenceIs
    <2> HIDE DEF rest
    <2>5. /\ Len(t) = Len(l.size) + 1 + Len(rest) /\ DOMAIN t = 1..(Len(l.size) + 1 + Len(rest))
          /\ t[n] = Apostrophe
          /\ \A k \in 1..Len(l.size) : t[k] = l.size[k]
          /\ SubSeq(t, 1, n - 1) = l.size
          /\ SubSeq(t, n + 1, Len(t)) = rest
          /\ t \in Seq(S)
      <3>1. n - 1 = Len(l.size) /\ n + 1 = Len(l.size) + 2
        BY <2>4
      <3>2. /\ t \in Seq(S) /\ Len(t) = Len(l.size) + 1 + Len(rest)
            /\ DOMAIN t = 1..(Len(l.size) + 1 + Len(rest))
            /\ t[Len(l.size) + 1] = Apostrophe
            /\ \A k \in 1..Len(l.size) : t[k] = l.size[k]
            /\ SubSeq(t, 1, Len(l.size)) = l.size
            /\ SubSeq(t, Len(l.size) + 2, Len(t)) = rest
        <4>1. PICK a \in Seq(S) : a = l.size
          BY <1>1
        <4>2. PICK r \in Seq(S) : r = rest
          BY <2>3
        <4>3. PICK c \in S : c = Apostrophe
          BY <1>1
        <4>4. t = a \o <<c>> \o r
          BY <2>2, <4>1, <4>2, <4>3
        <4>5. /\ t \in Seq(S) /\ Len(t) = Len(a) + 1 + Len(r)
              /\ DOMAIN t = 1..(Len(a) + 1 + Len(r))
              /\ t[Len(a) + 1] = c
              /\ \A k \in 1..Len(a) : t[k] = a[k]
              /\ SubSeq(t, 1, Len(a)) = a
              /\ SubSeq(t, Len(a) + 2, Len(t)) = r
          BY <4>4, Pieced
        <4> QED
          BY <4>1, <4>2, <4>3, <4>5
      <3> QED
        BY <3>1, <3>2
    <2>6. n \in DOMAIN t
      BY <2>4, <2>5
    <2> DEFINE IsCut(k) == t[k] = Apostrophe /\ ~Holds(SubSeq(t, 1, k - 1), {Apostrophe})
    <2>7. IsCut(n)
      BY <1>2, <2>5
    <2>8. ASSUME NEW k \in DOMAIN t, IsCut(k) PROVE k = n
      <3>1. k \in Nat /\ k >= 1 /\ k <= Len(t)
        BY <2>4, <2>5
      <3>2. CASE k < n
        <4>1. k \in 1..Len(l.size) /\ l.size[k] = Apostrophe
          BY <2>4, <2>5, <2>8, <3>1, <3>2
        <4> QED
          BY <1>2, <2>4, <4>1 DEF Holds
      <3>3. CASE k > n
        <4>1. PICK p : p = SubSeq(t, 1, k - 1)
          OBVIOUS
        <4>2. n \in DOMAIN p /\ p[n] = t[n]
          BY <2>4, <2>5, <3>1, <3>3, <4>1
        <4> QED
          BY <2>5, <2>8, <4>1, <4>2 DEF Holds
      <3> QED
        BY <2>4, <3>1, <3>2, <3>3
    <2>9. (CHOOSE k \in DOMAIN t : IsCut(k)) = n
      <3> HIDE DEF IsCut, n
      <3> QED
        BY <2>6, <2>7, <2>8
    <2>10. Holds(t, {Apostrophe})
      BY <2>5, <2>6 DEF Holds
    <2>11. parse_number_literal(t)
             = [value |-> Parsed(Without("_", TrimBase(rest)), Radix(rest), WordBits, 0),
                width |-> Parsed(l.size, 10, SizeBits, 32)]
      <3>1. parse_number_literal(t)
              = LET cut == CHOOSE k \in DOMAIN t : IsCut(k)
                    size == SubSeq(t, 1, cut - 1)
                    r == SubSeq(t, cut + 1, Len(t))
                IN [value |-> Parsed(Without("_", TrimBase(r)), Radix(r), WordBits, 0),
                    width |-> Parsed(size, 10, SizeBits, 32)]
        BY <2>10 DEF parse_number_literal
      <3> HIDE DEF IsCut, n
      <3> QED
        BY <2>5, <2>9, <3>1
    <2>12. Radix(rest) = BaseOf(l)
      BY <1>1, RadixIs DEF rest
    <2>13. ~Holds(t, {Space}) /\ l.digits[1] \notin BaseLetters
      BY <1>4, <2>1 DEF Tight
    <2>14. TrimBase(rest) = l.digits
      <3>1. ~Holds(rest, {Space})
        <4>1. ASSUME NEW k \in DOMAIN rest PROVE rest[k] # Space
          <5>1. PICK p : p = SubSeq(t, n + 1, Len(t))
            OBVIOUS
          <5>2. k \in 1..Len(rest)
            BY <2>3, SequenceIs
          <5>3. n + k \in DOMAIN t /\ p[k] = t[n + k]
            BY <2>4, <2>5, <5>1, <5>2
          <5>4. t[n + k] # Space
            BY <2>13, <5>3 DEF Holds
          <5> QED
            BY <2>5, <5>1, <5>3, <5>4
        <4> QED
          BY <4>1 DEF Holds
      <3>2. ~Holds(l.base, {Space})
        BY <1>1, <3>1, HoldsBoth DEF rest
      <3>3. \A k \in DOMAIN l.base : l.base[k] \in BaseLetters
        BY <1>1, <3>2, SequenceIs DEF Holds
      <3> QED
        BY <1>1, <2>13, <3>3, TrimsBase DEF rest
    <2>15. ~Holds(l.size, {Space, "_"})
      <3>1. ASSUME NEW k \in DOMAIN l.size PROVE l.size[k] # Space
        <4>1. k \in 1..Len(l.size) /\ k \in DOMAIN t
          BY <2>4, <2>5
        <4> QED
          BY <2>5, <2>13, <4>1 DEF Holds
      <3>2. ~Holds(l.size, {"_"})
        BY DEF Tight
      <3> QED
        BY <3>1, <3>2 DEF Holds
    <2>16. Parsed(l.size, 10, SizeBits, 32) = SizeSaid(l)
      BY <2>15 DEF Parsed, SizeSaid, Fits
    <2>17. Parsed(Without("_", l.digits), BaseOf(l), WordBits, 0) = ValueSaid(l)
      BY DEF Parsed, ValueSaid, Fits
    <2> QED
      BY <2>1, <2>11, <2>12, <2>14, <2>16, <2>17 DEF Given
  <1> QED
    BY <1>3, <1>4

\* An expression with none inside is all there is to find in it.
LEMMA UnwrapLeaf ==
  ASSUME NEW kinds, NEW e \in Exprs, DOMAIN e.in = {}, e.kind \notin kinds
  PROVE  ~HasKind(e, kinds)
  <1>1. PICK f : \A x \in Exprs : f[x] = First(x, kinds, f) /\ unwrap_node(x, kinds) = f[x]
    BY UnwrapIs
  <1>2. First(e, kinds, f) = NoExpr
    BY DEF First
  <1> QED
    BY <1>1, <1>2 DEF HasKind

\* A number is lowered as a literal, and has the attribute of one.
LEMMA NumberLowers ==
  ASSUME NEW e \in Exprs, e.kind = "number", NEW names
  PROVE  lower_expression(e, names) = lower_number_literal(e) /\ IsLiteral(e.attr)
  <1>1. IsExpr(e) /\ Len(e.in) = 0 /\ DOMAIN e.in = {}
    <2>1. IsExpr(e) /\ DOMAIN e.in = 1..Len(e.in)
      BY InsideIs
    <2>2. Len(e.in) = 0
      BY <2>1 DEF IsExpr, Arity
    <2> QED
      BY <2>1, <2>2
  <1>2. e.in = << >>
    BY <1>1 DEF IsExpr
  <1>3. PICK f : \A x \in Exprs : f[x] = LowerNode(x, names, f) /\ lower_expression(x, names) = f[x]
    BY LoweringIs
  <1>4. \A k \in Operators : ~HasKind(e, {k})
    BY <1>1, UnwrapLeaf DEF Operators
  <1>5. unwrap_node(e, Primaries) = e
    BY UnwrapSelf DEF Primaries
  <1>6. LowerNode(e, names, f) = lower_primary(e, names, f)
    BY <1>4, <1>5 DEF LowerNode, Operators
  <1>7. lower_primary(e, names, f) = lower_number_literal(e)
    BY <1>2 DEF lower_primary
  <1> QED
    BY <1>1, <1>3, <1>6, <1>7 DEF IsExpr

\* What a tight literal is lowered to.
LEMMA TightLowers ==
  ASSUME NEW e \in Exprs, e.kind = "number", Tight(e.attr), Fits(e.attr), NEW names
  PROVE  LET said == Said(e.attr)
             v == lower_expression(e, names)
         IN v = ConstantExprOp(said.value, said.width, IntType(said.width)) /\ v # Unresolved
  <1>1. parse_number_literal(Text(e.attr)) = Given(e.attr)
    BY NumberLowers, TightLiteral
  <1>2. lower_expression(e, names) = lower_number_literal(e)
    BY NumberLowers
  <1> QED
    BY <1>1, <1>2 DEF lower_number_literal, Given, Said, ConstantExprOp, Unresolved, Expr

-----------------------------------------------------------------------------
(* The body.                                                                *)

\* A body keeps the operations it has.
Longer(before, after) ==
  /\ after \in Seq(Range(after))
  /\ \A j \in DOMAIN before : j \in DOMAIN after /\ after[j] = before[j]

\* A sequence is one of its own entries.
LEMMA OwnEntries ==
  ASSUME NEW S, NEW s \in Seq(S)
  PROVE  s \in Seq(Range(s))
  <1>1. Len(s) \in Nat /\ DOMAIN s = 1..Len(s)
    BY SequenceIs
  <1>2. s \in [1..Len(s) -> Range(s)]
    BY <1>1 DEF Range
  <1> HIDE DEF Range
  <1> QED
    BY <1>1, <1>2

\* A body with other operations after it.
LEMMA LongerBy ==
  ASSUME NEW b, b \in Seq(Range(b)), NEW S, NEW more \in Seq(S)
  PROVE  Longer(b, b \o more)
  <1>1. PICK T : T = Range(b) \cup S
    OBVIOUS
  <1>2. b \in Seq(T) /\ more \in Seq(T)
    <2>1. \A X, Y : X \subseteq Y => Seq(X) \subseteq Seq(Y)
      OBVIOUS
    <2>2. Range(b) \subseteq T /\ S \subseteq T
      BY <1>1
    <2> QED
      BY <2>1, <2>2
  <1>3. PICK t : t = b \o more
    OBVIOUS
  <1>4. t \in Seq(T) /\ Len(b) \in Nat /\ Len(more) \in Nat /\ Len(t) = Len(b) + Len(more)
        /\ DOMAIN b = 1..Len(b) /\ DOMAIN t = 1..Len(t)
        /\ \A j \in 1..Len(b) : t[j] = b[j]
    BY <1>2, <1>3
  <1>5. t \in Seq(Range(t))
    BY <1>4, OwnEntries
  <1>6. \A j \in DOMAIN b : j \in DOMAIN t /\ t[j] = b[j]
    BY <1>4
  <1> QED
    BY <1>3, <1>5, <1>6 DEF Longer

\* A body with one operation more.
LEMMA LongerByOne ==
  ASSUME NEW b, b \in Seq(Range(b)), NEW op
  PROVE  /\ Longer(b, Append(b, op))
         /\ \E j \in DOMAIN Append(b, op) : Append(b, op)[j] = op
  <1>1. PICK T : T = Range(b) \cup {op}
    OBVIOUS
  <1>2. b \in Seq(T) /\ op \in T
    <2>1. \A X, Y : X \subseteq Y => Seq(X) \subseteq Seq(Y)
      OBVIOUS
    <2>2. Range(b) \subseteq T /\ op \in T
      BY <1>1
    <2> QED
      BY <2>1, <2>2
  <1>3. PICK t : t = Append(b, op)
    OBVIOUS
  <1>4. t \in Seq(T) /\ Len(b) \in Nat /\ Len(t) = Len(b) + 1
        /\ DOMAIN b = 1..Len(b) /\ DOMAIN t = 1..Len(t)
        /\ t[Len(b) + 1] = op
        /\ \A j \in 1..Len(b) : t[j] = b[j]
    BY <1>2, <1>3
  <1>5. t \in Seq(Range(t))
    BY <1>4, OwnEntries
  <1>6. \A j \in DOMAIN b : j \in DOMAIN t /\ t[j] = b[j]
    BY <1>4
  <1>7. Len(b) + 1 \in DOMAIN t
    BY <1>4
  <1> QED
    BY <1>3, <1>4, <1>5, <1>6, <1>7 DEF Longer

\* The operation that a tight literal assigned to a target becomes.
Constant(item) ==
  LET a == item.assigns[1]
      said == Said(a.expr.attr)
  IN AssignOp(a.target, ConstantExprOp(said.value, said.width, IntType(said.width)))

TightAssign(item) ==
  /\ item.kind = "assign" /\ item.assigns[1].expr.kind = "number"
  /\ Tight(item.assigns[1].expr.attr) /\ Fits(item.assigns[1].expr.attr)

\* The operations of tight literals are in the body.
LiteralsIn ==
  /\ body \in Seq(Range(body))
  /\ \A k \in DOMAIN items : TightAssign(items[k]) => \E j \in DOMAIN body : body[j] = Constant(items[k])

\* An item makes the body longer or leaves it, and a tight literal becomes its constant.
LEMMA BasicEmits ==
  ASSUME NEW item, item.kind = "other" \/ IsBasic(item), body \in Seq(Range(body)),
         \/ LowerContinuousAssign(item) \/ LowerNetDeclaration(item) \/ LowerDataDeclaration(item)
         \/ LowerAlwaysComb(item) \/ LowerAlwaysFf(item) \/ LowerAlwaysFfReset(item)
         \/ LowerModuleInstantiation(item) \/ UnsupportedItem(item)
  PROVE  /\ Longer(body, body')
         /\ TightAssign(item) => \E j \in DOMAIN body' : body'[j] = Constant(item)
  <1>1. body' = body => Longer(body, body')
    BY DEF Longer
  <1>2. ASSUME NEW op, body' = Append(body, op)
        PROVE  Longer(body, body') /\ \E j \in DOMAIN body' : body'[j] = op
    BY <1>2, LongerByOne
  <1>3. CASE LowerContinuousAssign(item)
    <2> DEFINE a == item.assigns[1]
               v == lower_expression(a.expr, scope)
    <2>1. item.kind = "assign" /\ a.expr \in Exprs
      BY <1>3 DEF LowerContinuousAssign, IsBasic
    <2>2. body' = body \/ body' = Append(body, AssignOp(a.target, v))
      BY <1>3 DEF LowerContinuousAssign, Fail, Emit
    <2>3. v # Unresolved => body' = Append(body, AssignOp(a.target, v))
      BY <1>3 DEF LowerContinuousAssign, Emit
    <2>4. TightAssign(item) => v # Unresolved /\ AssignOp(a.target, v) = Constant(item)
      BY <2>1, TightLowers DEF TightAssign, Constant
    <2> HIDE DEF v
    <2> QED
      BY <1>1, <1>2, <2>2, <2>3, <2>4
  <1>4. CASE ~LowerContinuousAssign(item) /\ ~LowerModuleInstantiation(item)
    <2>1. item.kind # "assign"
      BY <1>4 DEF LowerNetDeclaration, LowerDataDeclaration, LowerAlwaysComb, LowerAlwaysFf,
                  LowerAlwaysFfReset, UnsupportedItem
    <2>2. body' = body \/ \E op : body' = Append(body, op)
      <3>1. LowerNetDeclaration(item) => \E op : body' = Append(body, op)
        BY DEF LowerNetDeclaration, Emit
      <3>2. LowerDataDeclaration(item) => \E op : body' = Append(body, op)
        BY DEF LowerDataDeclaration, Emit
      <3>3. LowerAlwaysComb(item) => body' = body \/ \E op : body' = Append(body, op)
        BY DEF LowerAlwaysComb, Emit, Fail
      <3>4. LowerAlwaysFf(item) => body' = body \/ \E op : body' = Append(body, op)
        BY DEF LowerAlwaysFf, Emit, Fail
      <3>5. LowerAlwaysFfReset(item) => body' = body \/ \E op : body' = Append(body, op)
        BY DEF LowerAlwaysFfReset, Emit, Fail
      <3>6. UnsupportedItem(item) => body' = body
        BY DEF UnsupportedItem, Fail
      <3> QED
        BY <1>4, <3>1, <3>2, <3>3, <3>4, <3>5, <3>6
    <2> QED
      BY <1>1, <1>2, <2>1, <2>2 DEF TightAssign
  <1>5. CASE LowerModuleInstantiation(item)
    <2>1. item.kind = "instance" /\ item.insts \in Seq(Range(item.insts))
      BY <1>5 DEF LowerModuleInstantiation, IsBasic
    <2>2. body' = body \/ \E S : \E more \in Seq(S) : body' = body \o more
      <3> DEFINE inputs(inst) ==
                   [k \in DOMAIN Connected(inst) |-> lower_expression(Connected(inst)[k].expr, scope)]
                 op(i) == InstanceOp(item.insts[i].name, item.module, inputs(item.insts[i]))
                 more == [i \in DOMAIN item.insts |-> op(i)]
                 S == {op(i) : i \in DOMAIN item.insts}
      <3>1. body' = body \/ body' = body \o more
        BY <1>5 DEF LowerModuleInstantiation, Fail
      <3> HIDE DEF op
      <3>2. Len(item.insts) \in Nat /\ DOMAIN item.insts = 1..Len(item.insts)
        BY <2>1, SequenceIs
      <3>3. more \in [1..Len(item.insts) -> S]
        BY <3>2
      <3> HIDE DEF more, S
      <3>4. more \in Seq(S)
        BY <3>2, <3>3
      <3> QED
        BY <3>1, <3>4
    <2> QED
      BY <1>1, <2>1, <2>2, LongerBy DEF TightAssign
  <1> QED
    BY <1>3, <1>4, <1>5

\* So does what is found in an item.
LEMMA ItemEmits ==
  ASSUME NEW item \in Items, body \in Seq(Range(body)), LowerItem(item)
  PROVE  /\ Longer(body, body')
         /\ TightAssign(item) => \E j \in DOMAIN body' : body'[j] = Constant(item)
  <1>1. PICK it : it = Found(item)
    OBVIOUS
  <1>2. /\ it.kind = "other" \/ IsBasic(it)
        /\ TightAssign(item) => it = item
    BY <1>1, FoundIs DEF TightAssign
  <1>3. \/ LowerContinuousAssign(it) \/ LowerNetDeclaration(it) \/ LowerDataDeclaration(it)
        \/ LowerAlwaysComb(it) \/ LowerAlwaysFf(it) \/ LowerAlwaysFfReset(it)
        \/ LowerModuleInstantiation(it) \/ UnsupportedItem(it)
    BY <1>1 DEF LowerItem
  <1> QED
    BY <1>2, <1>3, BasicEmits

\* The literals stay in the body, which the end of the module only closes.
LEMMA LiteralsStep ==
  ASSUME IInv, LiteralsIn, [Next]_vars
  PROVE  LiteralsIn'
  <1>1. ASSUME items' = items, Longer(body, body')
        PROVE  LiteralsIn'
    BY <1>1 DEF LiteralsIn, Longer
  <1>2. CASE LowerHeader \/ UNCHANGED vars
    <2>1. items' = items /\ body' = body
      BY <1>2 DEF LowerHeader, vars
    <2>2. Longer(body, body')
      BY <2>1 DEF LiteralsIn, Longer
    <2> QED
      BY <1>1, <2>1, <2>2
  <1>3. CASE FinalizeOutputs
    <2>1. items' = items /\ \E op : body' = Append(body, op)
      BY <1>3 DEF FinalizeOutputs
    <2>2. Longer(body, body')
      BY <2>1, LongerByOne DEF LiteralsIn
    <2> QED
      BY <1>1, <2>1, <2>2
  <1>4. ASSUME NEW item \in Items, LowerItem(item)
        PROVE  LiteralsIn'
    <2>1. items \in Seq(Items) /\ NamesStand
      BY <1>4 DEF IInv, Reached, ScopeKept, LowerItem
    <2>2. items' = Append(items, item)
      BY <1>4, <2>1, ItemTaken
    <2>3. Longer(body, body') /\ (TightAssign(item) => \E j \in DOMAIN body' : body'[j] = Constant(item))
      BY <1>4, ItemEmits DEF LiteralsIn
    <2>4. DOMAIN items' = DOMAIN items \cup {Len(items) + 1}
          /\ items'[Len(items) + 1] = item
          /\ \A k \in DOMAIN items : items'[k] = items[k]
      <3>1. Len(items) \in Nat /\ DOMAIN items = 1..Len(items)
        BY <2>1
      <3> QED
        BY <2>1, <2>2, <3>1
    <2>5. ASSUME NEW k \in DOMAIN items, TightAssign(items[k])
          PROVE  \E j \in DOMAIN body' : body'[j] = Constant(items[k])
      BY <2>3, <2>5 DEF LiteralsIn, Longer
    <2>6. body' \in Seq(Range(body'))
      BY <2>3 DEF Longer
    <2> QED
      BY <2>3, <2>4, <2>5, <2>6 DEF LiteralsIn
  <1> QED
    BY <1>2, <1>3, <1>4 DEF Next, Returned

\* Every tight literal that is assigned, and whose value and size the machine's words can
\* hold, stands in the body with its width and as much of its value as that has room for.
THEOREM TightLiteralsStand ==
  Spec => []TightLiteralsExact
  <1>1. Init => LiteralsIn
    BY DEF Init, LiteralsIn, Range
  <1>2. LiteralsIn => TightLiteralsExact
    BY DEF LiteralsIn, TightLiteralsExact, TightAssign, Constant, LiteralStands
  <1>3. IInv /\ LiteralsIn /\ [Next]_vars => LiteralsIn'
    BY LiteralsStep
  <1> QED
    BY <1>1, <1>2, <1>3, ParserInvariant, PTL DEF Spec
=============================================================================
