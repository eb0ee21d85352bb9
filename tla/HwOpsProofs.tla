---------------------------- MODULE HwOpsProofs ----------------------------
(***************************************************************************)
(* Proofs about HwOps, for every word, every context of types and all      *)
(* operations over them.  The bits a value is driven by are the bits its   *)
(* type announces; that rests on what compute_type_bitwidth computes,      *)
(* which is a recursion over types, and on sums of widths.                 *)
(***************************************************************************)
EXTENDS HwOps, FiniteSetTheorems, WellFoundedInduction, TLAPS

-----------------------------------------------------------------------------
(* Loops over a sequence of numbers.                                        *)

\* A set of positive numbers with a bound has a least element.
LEMMA LeastElement ==
  ASSUME NEW n \in Nat, NEW T \in SUBSET (1..n), T # {}
  PROVE  \E x \in T : \A y \in T : x <= y
  <1> DEFINE S == 1..n
             below == {1..x : x \in T}
  <1>1. IsWellFoundedOn(StrictSubsetOrdering(S), SUBSET S)
    <2>1. IsFiniteSet(S)
      BY FS_Interval
    <2>2. FiniteSubsetsOf(S) = SUBSET S
      BY <2>1, FS_FiniteSubsetsOfFinite
    <2> QED
      BY <2>2, FS_StrictSubsetOrderingWellFounded
  <1>2. below \subseteq SUBSET S
    <2> SUFFICES ASSUME NEW x \in T PROVE 1..x \subseteq S
      OBVIOUS
    <2> QED
      OBVIOUS
  <1>3. below # {}
    OBVIOUS
  <1>4. PICK low \in below : \A y \in below : ~(<<y, low>> \in StrictSubsetOrdering(S))
    <2> HIDE DEF below
    <2> QED
      BY <1>1, <1>2, <1>3, WFMin
  <1>5. PICK x \in T : low = 1..x
    OBVIOUS
  <1>6. ASSUME NEW y \in T, y < x PROVE FALSE
    <2>1. 1..y \in below /\ 1..y \subseteq low /\ 1..y # low
      BY <1>5, <1>6
    <2> QED
      BY <1>2, <1>4, <2>1 DEF StrictSubsetOrdering
  <1> QED
    BY <1>6

\* Steps from 0 to n reach every number between.
LEMMA Climb ==
  ASSUME NEW n \in Nat, NEW T, 0 \in T, \A k \in 1..n : k - 1 \in T => k \in T
  PROVE  \A k \in 0..n : k \in T
  <1> DEFINE Bad == {m \in 1..n : m \notin T}
  <1>1. Bad = {}
    <2> SUFFICES ASSUME Bad # {} PROVE FALSE
      OBVIOUS
    <2>1. PICK m \in Bad : \A y \in Bad : m <= y
      <3>1. Bad \in SUBSET (1..n)
        OBVIOUS
      <3> HIDE DEF Bad
      <3> QED
        BY <3>1, LeastElement
    <2>2. m \in 1..n /\ m \in Nat
      OBVIOUS
    <2>3. m - 1 = 0 \/ m - 1 \in 1..n
      BY <2>2
    <2>4. ~(m <= m - 1)
      BY <2>2
    <2>5. m - 1 \in T
      BY <2>1, <2>3, <2>4
    <2> QED
      BY <2>2, <2>5
  <1>2. \A k \in 0..n : k = 0 \/ k \in 1..n
    OBVIOUS
  <1> QED
    BY <1>1, <1>2

\* g starts at 0 and takes, at every k up to n, the step from what it was before.
Runs(g, n, step) ==
  /\ g \in [0..n -> Int] /\ g[0] = 0
  /\ \A k \in 1..n : g[k] = step[k][g[k - 1]]

\* A loop of n steps has a result.
LEMMA RunExists ==
  ASSUME NEW n \in Nat, NEW step \in [1..n -> [Int -> Int]]
  PROVE  \E g : Runs(g, n, step)
  <1> DEFINE T == {m \in 0..n : \E g : Runs(g, m, step)}
  <1>1. Runs([k \in 0..0 |-> 0], 0, step)
    BY DEF Runs
  <1>2. ASSUME NEW m \in 1..n, m - 1 \in T PROVE m \in T
    <2>1. m \in 0..n
      OBVIOUS
    <2>2. m \in 1..n /\ m \in Nat
      OBVIOUS
    <2>4. PICK g : Runs(g, m - 1, step)
      BY <1>2
    <2>5. g \in [0..(m - 1) -> Int] /\ g[m - 1] \in Int
      BY <2>2, <2>4 DEF Runs
    <2>6. PICK v \in Int : v = step[m][g[m - 1]]
      BY <2>2, <2>5
    <2> DEFINE h == [k \in 0..m |-> IF k = m THEN v ELSE g[k]]
    <2>7. h \in [0..m -> Int] /\ h[0] = 0
      <3>1. \A k \in 0..m : k = m \/ k \in 0..(m - 1)
        BY <2>2
      <3>2. g[0] = 0 /\ 0 \in 0..m /\ m # 0
        BY <2>2, <2>4 DEF Runs
      <3> QED
        BY <2>5, <3>1, <3>2
    <2>8. ASSUME NEW k \in 1..m PROVE h[k] = step[k][h[k - 1]]
      <3>1. k \in 0..m /\ k - 1 \in 0..m /\ k - 1 # m
        BY <2>2
      <3>2. CASE k = m
        BY <3>1, <3>2, <2>6
      <3>3. CASE k # m
        <4>1. k \in 1..(m - 1)
          BY <3>3, <2>2
        <4>2. h[k] = g[k] /\ h[k - 1] = g[k - 1]
          BY <3>1, <3>3
        <4> HIDE DEF h
        <4> QED
          BY <4>1, <4>2, <2>4 DEF Runs
      <3> QED
        BY <3>2, <3>3
    <2>9. Runs(h, m, step)
      BY <2>7, <2>8 DEF Runs
    <2> HIDE DEF h
    <2> QED
      BY <2>1, <2>9
  <1>3. 0 \in T
    BY <1>1
  <1>4. \A k \in 0..n : k \in T
    <2> HIDE DEF T
    <2> QED
      BY <1>2, <1>3, Climb
  <1> QED
    BY <1>4

\* Two loops that start alike and take the same step from the same value end alike.
LEMMA SameRun ==
  ASSUME NEW n \in Nat, NEW f, NEW g, f[0] = g[0],
         \A k \in 1..n : f[k - 1] = g[k - 1] => f[k] = g[k]
  PROVE  \A k \in 0..n : f[k] = g[k]
  <1> DEFINE T == {k \in 0..n : f[k] = g[k]}
  <1>1. 0 \in T /\ \A k \in 1..n : k - 1 \in T => k \in T
    OBVIOUS
  <1> HIDE DEF T
  <1>2. \A k \in 0..n : k \in T
    BY <1>1, Climb
  <1> QED
    BY <1>2 DEF T

\* g holds the sums of the first numbers of s.
Sums(g, s) ==
  /\ g \in [0..Len(s) -> Int] /\ g[0] = 0
  /\ \A k \in 1..Len(s) : g[k] = g[k - 1] + s[k]

\* One turn of the loop that adds.
AddStep(s) == [k \in 1..Len(s) |-> [x \in Int |-> x + s[k]]]

\* The loop that adds is a loop of as many steps.
LEMMA SumsAreRuns ==
  ASSUME NEW s \in Seq(Int), NEW g
  PROVE  Sums(g, s) <=> Runs(g, Len(s), AddStep(s))
  <1>1. Len(s) \in Nat /\ \A k \in 1..Len(s) : s[k] \in Int
    OBVIOUS
  <1>2. ASSUME g \in [0..Len(s) -> Int], NEW k \in 1..Len(s)
        PROVE  AddStep(s)[k][g[k - 1]] = g[k - 1] + s[k]
    <2>1. k - 1 \in 0..Len(s)
      BY <1>1
    <2>2. g[k - 1] \in Int
      BY <2>1, <1>2
    <2> QED
      BY <2>2 DEF AddStep
  <1> QED
    BY <1>2 DEF Sums, Runs

\* Every sequence of numbers has its sums.
LEMMA SumsExist ==
  ASSUME NEW s \in Seq(Int)
  PROVE  \E g : Sums(g, s)
  <1>1. Len(s) \in Nat /\ \A k \in 1..Len(s) : s[k] \in Int
    OBVIOUS
  <1>2. AddStep(s) \in [1..Len(s) -> [Int -> Int]]
    BY <1>1 DEF AddStep
  <1> QED
    BY <1>1, <1>2, RunExists, SumsAreRuns

\* Total is the last of the sums.
LEMMA TotalIs ==
  ASSUME NEW s \in Seq(Int), NEW g, Sums(g, s)
  PROVE  Total(s) = g[Len(s)] /\ Total(s) \in Int
  <1>1. Len(s) \in Nat /\ \A k \in 1..Len(s) : s[k] \in Int
    OBVIOUS
  <1> DEFINE Loop(f) == f = [k \in 0..Len(s) |-> IF k = 0 THEN 0 ELSE f[k - 1] + s[k]]
             sum == CHOOSE f : Loop(f)
  <1>2. Loop(g)
    <2>1. \A k \in 0..Len(s) : k = 0 \/ k \in 1..Len(s)
      BY <1>1
    <2>2. g = [k \in 0..Len(s) |-> g[k]]
      BY DEF Sums
    <2>3. \A k \in 0..Len(s) : g[k] = IF k = 0 THEN 0 ELSE g[k - 1] + s[k]
      BY <2>1 DEF Sums
    <2> QED
      BY <2>2, <2>3
  <1>3. Loop(sum)
    <2> HIDE DEF Loop
    <2> QED
      BY <1>2
  <1>4. PICK f : f = sum
    OBVIOUS
  <1>5. f[0] = 0 /\ \A k \in 1..Len(s) : f[k] = f[k - 1] + s[k]
    <2>1. Loop(f)
      <3> HIDE DEF Loop
      <3> QED
        BY <1>3, <1>4
    <2>2. 0 \in 0..Len(s) /\ \A k \in 1..Len(s) : k \in 0..Len(s) /\ k # 0
      BY <1>1
    <2> QED
      BY <2>1, <2>2
  <1>6. f = g
    <2>1. f[0] = g[0] /\ \A k \in 1..Len(s) : f[k - 1] = g[k - 1] => f[k] = g[k]
      BY <1>5 DEF Sums
    <2>2. \A k \in 0..Len(s) : f[k] = g[k]
      BY <1>1, <2>1, SameRun
    <2>3. f = [k \in 0..Len(s) |-> f[k]]
      BY <1>3, <1>4
    <2>4. g = [k \in 0..Len(s) |-> g[k]]
      BY DEF Sums
    <2> QED
      BY <2>2, <2>3, <2>4
  <1>7. Total(s) = sum[Len(s)]
    BY DEF Total
  <1>8. g[Len(s)] \in Int
    BY <1>1 DEF Sums
  <1> HIDE DEF sum
  <1> QED
    BY <1>4, <1>6, <1>7, <1>8

\* g holds the largest of the first numbers of s, and of 0.
Peaks(g, s) ==
  /\ g \in [0..Len(s) -> Int] /\ g[0] = 0
  /\ \A k \in 1..Len(s) : g[k] = IF s[k] > g[k - 1] THEN s[k] ELSE g[k - 1]

\* One turn of the loop that keeps the largest.
KeepStep(s) == [k \in 1..Len(s) |-> [x \in Int |-> IF s[k] > x THEN s[k] ELSE x]]

\* The loop that keeps the largest is a loop of as many steps.
LEMMA PeaksAreRuns ==
  ASSUME NEW s \in Seq(Int), NEW g
  PROVE  Peaks(g, s) <=> Runs(g, Len(s), KeepStep(s))
  <1>1. Len(s) \in Nat /\ \A k \in 1..Len(s) : s[k] \in Int
    OBVIOUS
  <1>2. ASSUME g \in [0..Len(s) -> Int], NEW k \in 1..Len(s)
        PROVE  KeepStep(s)[k][g[k - 1]] = IF s[k] > g[k - 1] THEN s[k] ELSE g[k - 1]
    <2>1. k - 1 \in 0..Len(s)
      BY <1>1
    <2>2. g[k - 1] \in Int
      BY <2>1, <1>2
    <2> QED
      BY <2>2 DEF KeepStep
  <1> QED
    BY <1>2 DEF Peaks, Runs

\* Every sequence of numbers has its peaks.
LEMMA PeaksExist ==
  ASSUME NEW s \in Seq(Int)
  PROVE  \E g : Peaks(g, s)
  <1>1. Len(s) \in Nat /\ \A k \in 1..Len(s) : s[k] \in Int
    OBVIOUS
  <1>2. KeepStep(s) \in [1..Len(s) -> [Int -> Int]]
    BY <1>1 DEF KeepStep
  <1> QED
    BY <1>1, <1>2, RunExists, PeaksAreRuns

\* Largest is the last of the peaks.
LEMMA LargestIs ==
  ASSUME NEW s \in Seq(Int), NEW g, Peaks(g, s)
  PROVE  Largest(s) = g[Len(s)] /\ Largest(s) \in Int
  <1>1. Len(s) \in Nat /\ \A k \in 1..Len(s) : s[k] \in Int
    OBVIOUS
  <1> DEFINE Loop(f) == f = [k \in 0..Len(s) |-> IF k = 0 THEN 0
                                           ELSE IF s[k] > f[k - 1] THEN s[k] ELSE f[k - 1]]
             max_w == CHOOSE f : Loop(f)
  <1>2. Loop(g)
    <2>1. \A k \in 0..Len(s) : k = 0 \/ k \in 1..Len(s)
      BY <1>1
    <2>2. g = [k \in 0..Len(s) |-> g[k]]
      BY DEF Peaks
    <2>3. \A k \in 0..Len(s) : g[k] = IF k = 0 THEN 0 ELSE IF s[k] > g[k - 1] THEN s[k] ELSE g[k - 1]
      BY <2>1 DEF Peaks
    <2> QED
      BY <2>2, <2>3
  <1>3. Loop(max_w)
    <2> HIDE DEF Loop
    <2> QED
      BY <1>2
  <1>4. PICK f : f = max_w
    OBVIOUS
  <1>5. f[0] = 0 /\ \A k \in 1..Len(s) : f[k] = IF s[k] > f[k - 1] THEN s[k] ELSE f[k - 1]
    <2>1. Loop(f)
      <3> HIDE DEF Loop
      <3> QED
        BY <1>3, <1>4
    <2>2. 0 \in 0..Len(s) /\ \A k \in 1..Len(s) : k \in 0..Len(s) /\ k # 0
      BY <1>1
    <2> QED
      BY <2>1, <2>2
  <1>6. f = g
    <2>1. f[0] = g[0] /\ \A k \in 1..Len(s) : f[k - 1] = g[k - 1] => f[k] = g[k]
      BY <1>5 DEF Peaks
    <2>2. \A k \in 0..Len(s) : f[k] = g[k]
      BY <1>1, <2>1, SameRun
    <2>3. f = [k \in 0..Len(s) |-> f[k]]
      BY <1>3, <1>4
    <2>4. g = [k \in 0..Len(s) |-> g[k]]
      BY DEF Peaks
    <2> QED
      BY <2>2, <2>3, <2>4
  <1>7. Largest(s) = max_w[Len(s)]
    BY DEF Largest
  <1>8. g[Len(s)] \in Int
    BY <1>1 DEF Peaks
  <1> HIDE DEF max_w
  <1> QED
    BY <1>4, <1>6, <1>7, <1>8

\* The sums of natural numbers are natural numbers.
LEMMA SumsNat ==
  ASSUME NEW s \in Seq(Nat), NEW g, Sums(g, s)
  PROVE  \A k \in 0..Len(s) : g[k] \in Nat
  <1> DEFINE T == {k \in 0..Len(s) : g[k] \in Nat}
  <1>1. Len(s) \in Nat /\ \A k \in 1..Len(s) : s[k] \in Nat
    OBVIOUS
  <1>2. 0 \in T
    BY <1>1 DEF Sums
  <1>3. ASSUME NEW k \in 1..Len(s), k - 1 \in T PROVE k \in T
    BY <1>1, <1>3 DEF Sums
  <1> HIDE DEF T
  <1>4. \A k \in 0..Len(s) : k \in T
    BY <1>1, <1>2, <1>3, Climb
  <1> QED
    BY <1>4 DEF T

\* A total of natural numbers is one.
LEMMA TotalNat ==
  ASSUME NEW s \in Seq(Nat)
  PROVE  Total(s) \in Nat
  <1>1. s \in Seq(Int) /\ Len(s) \in 0..Len(s)
    OBVIOUS
  <1>2. PICK g : Sums(g, s)
    BY <1>1, SumsExist
  <1> QED
    BY <1>1, <1>2, TotalIs, SumsNat

\* The largest of some numbers is a natural number that none of them exceeds.
LEMMA LargestBounds ==
  ASSUME NEW s \in Seq(Int)
  PROVE  Largest(s) \in Nat /\ \A i \in 1..Len(s) : s[i] <= Largest(s)
  <1>1. PICK g : Peaks(g, s)
    BY PeaksExist
  <1> DEFINE T == {k \in 0..Len(s) : g[k] \in Nat /\ \A i \in 1..k : s[i] <= g[k]}
  <1>2. Len(s) \in Nat /\ \A k \in 1..Len(s) : s[k] \in Int
    OBVIOUS
  <1>3. 0 \in T
    BY <1>1, <1>2 DEF Peaks
  <1>4. ASSUME NEW k \in 1..Len(s), k - 1 \in T PROVE k \in T
    <2>1. k \in 0..Len(s) /\ s[k] \in Int /\ g[k - 1] \in Nat
      BY <1>2, <1>4
    <2>2. g[k] = IF s[k] > g[k - 1] THEN s[k] ELSE g[k - 1]
      BY <1>1 DEF Peaks
    <2>3. g[k] \in Nat /\ s[k] <= g[k] /\ g[k - 1] <= g[k]
      BY <2>1, <2>2
    <2>4. ASSUME NEW i \in 1..k PROVE s[i] <= g[k]
      <3>1. CASE i = k
        BY <3>1, <2>3
      <3>2. CASE i # k
        <4>1. i \in 1..(k - 1) /\ i \in 1..Len(s)
          BY <3>2
        <4>2. s[i] <= g[k - 1] /\ s[i] \in Int
          BY <4>1, <1>2, <1>4
        <4> QED
          BY <4>2, <2>1, <2>3
      <3> QED
        BY <3>1, <3>2
    <2> QED
      BY <2>1, <2>3, <2>4
  <1>5. Len(s) \in T
    <2> HIDE DEF T
    <2>1. \A k \in 0..Len(s) : k \in T
      BY <1>2, <1>3, <1>4, Climb
    <2> QED
      BY <1>2, <2>1
  <1>6. Largest(s) = g[Len(s)]
    BY <1>1, LargestIs
  <1> QED
    BY <1>5, <1>6

\* Numbers that are each w times another add up to w times their total.
LEMMA TotalOfScaled ==
  ASSUME NEW s \in Seq(Int), NEW t \in Seq(Int), NEW w \in Int, Len(t) = Len(s),
         \A k \in 1..Len(s) : t[k] = s[k] * w
  PROVE  Total(t) = Total(s) * w
  <1>1. Len(s) \in Nat /\ \A k \in 1..Len(s) : s[k] \in Int
    OBVIOUS
  <1>2. PICK g : Sums(g, s)
    BY SumsExist
  <1> DEFINE h == [k \in 0..Len(s) |-> g[k] * w]
  <1>3. \A k \in 0..Len(s) : g[k] \in Int
    BY <1>2 DEF Sums
  <1>4. h \in [0..Len(s) -> Int] /\ h[0] = 0
    BY <1>1, <1>2, <1>3 DEF Sums
  <1>5. ASSUME NEW k \in 1..Len(s) PROVE h[k] = h[k - 1] + t[k]
    <2>1. k \in 0..Len(s) /\ k - 1 \in 0..Len(s)
      BY <1>1
    <2>2. h[k] = g[k] * w /\ h[k - 1] = g[k - 1] * w /\ t[k] = s[k] * w
      BY <2>1
    <2>3. g[k] = g[k - 1] + s[k] /\ g[k - 1] \in Int /\ s[k] \in Int
      BY <2>1, <1>1, <1>2, <1>3 DEF Sums
    <2>4. \A a, b \in Int : (a + b) * w = a * w + b * w
      OBVIOUS
    <2> HIDE DEF h
    <2> QED
      BY <2>2, <2>3, <2>4
  <1>6. Sums(h, t)
    BY <1>4, <1>5 DEF Sums
  <1>7. Total(t) = h[Len(t)] /\ Total(s) = g[Len(s)]
    BY <1>2, <1>6, TotalIs
  <1> QED
    BY <1>1, <1>7

\* Equal numbers add up to one of them times how many there are.
LEMMA TotalOfEqual ==
  ASSUME NEW t \in Seq(Int), NEW w \in Int, \A k \in 1..Len(t) : t[k] = w
  PROVE  Total(t) = Len(t) * w
  <1>1. Len(t) \in Nat
    OBVIOUS
  <1> DEFINE h == [k \in 0..Len(t) |-> k * w]
  <1>2. h \in [0..Len(t) -> Int] /\ h[0] = 0
    BY <1>1
  <1>3. ASSUME NEW k \in 1..Len(t) PROVE h[k] = h[k - 1] + t[k]
    <2>1. h[k] = k * w /\ h[k - 1] = (k - 1) * w /\ t[k] = w
      BY <1>1
    <2>2. \A a \in Int : a * w = (a - 1) * w + w
      OBVIOUS
    <2> HIDE DEF h
    <2> QED
      BY <2>1, <2>2
  <1>4. Sums(h, t)
    BY <1>2, <1>3 DEF Sums
  <1> QED
    BY <1>1, <1>4, TotalIs

\* What comes after the first i numbers is the total without their sum.
LEMMA TotalOfRest ==
  ASSUME NEW s \in Seq(Int), NEW g, Sums(g, s), NEW i \in 1..Len(s)
  PROVE  Total([j \in 1..(Len(s) - i) |-> s[i + j]]) = g[Len(s)] - g[i]
  <1> DEFINE n == Len(s) - i
             t == [j \in 1..n |-> s[i + j]]
             h == [k \in 0..n |-> g[i + k] - g[i]]
  <1>1. Len(s) \in Nat /\ n \in Nat /\ \A k \in 1..Len(s) : s[k] \in Int
    OBVIOUS
  <1>2. \A k \in 0..n : i + k \in 0..Len(s)
    OBVIOUS
  <1>3. \A j \in 1..n : i + j \in 1..Len(s)
    OBVIOUS
  <1>4. t \in Seq(Int) /\ Len(t) = n
    BY <1>1, <1>3
  <1>5. \A k \in 0..Len(s) : g[k] \in Int
    BY DEF Sums
  <1>6. h \in [0..n -> Int] /\ h[0] = 0
    BY <1>1, <1>2, <1>5
  <1>7. ASSUME NEW k \in 1..n PROVE h[k] = h[k - 1] + t[k]
    <2>1. h[k] = g[i + k] - g[i] /\ h[k - 1] = g[i + (k - 1)] - g[i] /\ t[k] = s[i + k]
      BY <1>1
    <2>2. i + k \in 1..Len(s) /\ i + (k - 1) = (i + k) - 1 /\ i + (k - 1) \in 0..Len(s)
      BY <1>1
    <2>3. g[i + k] = g[i + (k - 1)] + s[i + k]
      BY <2>2 DEF Sums
    <2>4. g[i + (k - 1)] \in Int /\ s[i + k] \in Int /\ g[i] \in Int
      BY <2>2, <1>1, <1>5
    <2> HIDE DEF h, t, n
    <2> QED
      BY <2>1, <2>3, <2>4
  <1>8. Sums(h, t)
    BY <1>4, <1>6, <1>7 DEF Sums
  <1>9. Total(t) = h[n]
    <2> HIDE DEF h, t
    <2> QED
      BY <1>4, <1>8, TotalIs
  <1>10. h[n] = g[Len(s)] - g[i]
    BY <1>1
  <1> QED
    BY <1>9, <1>10

-----------------------------------------------------------------------------
(* Recursion over types.                                                    *)

\* The values g has at the components of a type.
Below(g, ty) == [c \in Components(ty) |-> g[c]]

\* g obeys the step at the types of a set closed under components.
Solves(step, S, g) ==
  /\ S \subseteq Types /\ g \in [S -> Int]
  /\ \A ty \in S : Components(ty) \subseteq S /\ g[ty] = step[ty][Below(g, ty)]

\* Two solutions agree where both are defined.
LEMMA SolutionsAgree ==
  ASSUME NEW step, NEW S, NEW g, NEW R, NEW h, Solves(step, S, g), Solves(step, R, h)
  PROVE  \A ty \in S \cap R : g[ty] = h[ty]
  <1> DEFINE Bad == {ty \in S \cap R : g[ty] # h[ty]}
  <1> SUFFICES ASSUME Bad # {} PROVE FALSE
    OBVIOUS
  <1>1. PICK m \in Bad : Components(m) \cap Bad = {}
    <2>1. Bad \in SUBSET Types
      BY DEF Solves
    <2> HIDE DEF Bad
    <2> QED
      BY <2>1, TypesAssumption
  <1>2. \A c \in Components(m) : g[c] = h[c]
    BY <1>1 DEF Solves
  <1>3. Below(g, m) = Below(h, m)
    BY <1>2 DEF Below
  <1>4. g[m] = step[m][Below(g, m)] /\ h[m] = step[m][Below(h, m)]
    BY DEF Solves
  <1> QED
    BY <1>3, <1>4

\* A step from the components of a type to the type has a solution at every type.
LEMMA TypeRecursion ==
  ASSUME NEW step, \A ty \in Types : step[ty] \in [[Components(ty) -> Int] -> Int]
  PROVE  \E g : Solves(step, Types, g)
  <1> DEFINE D == {ty \in Types : \E S, g : Solves(step, S, g) /\ ty \in S}
             Is(ty, v) == \E S, g : Solves(step, S, g) /\ ty \in S /\ v = g[ty]
             h == [ty \in D |-> CHOOSE v : Is(ty, v)]
  <1>1. ASSUME NEW S, NEW g, Solves(step, S, g), NEW ty \in S PROVE ty \in D /\ h[ty] = g[ty]
    <2>1. ty \in D /\ Is(ty, g[ty])
      BY <1>1 DEF Solves
    <2>2. PICK v : v = CHOOSE x : Is(ty, x)
      OBVIOUS
    <2>3. Is(ty, v)
      <3> HIDE DEF Is
      <3> QED
        BY <2>1, <2>2
    <2>4. PICK R, f : Solves(step, R, f) /\ ty \in R /\ v = f[ty]
      BY <2>3
    <2>5. v = g[ty]
      BY <1>1, <2>4, SolutionsAgree
    <2> QED
      BY <2>1, <2>2, <2>5
  <1>2. Solves(step, D, h)
    <2>1. ASSUME NEW ty \in D
          PROVE  h[ty] \in Int /\ Components(ty) \subseteq D /\ h[ty] = step[ty][Below(h, ty)]
      <3>1. PICK S, g : Solves(step, S, g) /\ ty \in S
        OBVIOUS
      <3> HIDE DEF D, h
      <3>2. Components(ty) \subseteq S /\ g[ty] = step[ty][Below(g, ty)] /\ g[ty] \in Int
        BY <3>1 DEF Solves
      <3>3. h[ty] = g[ty] /\ \A c \in Components(ty) : c \in D /\ h[c] = g[c]
        BY <1>1, <3>1, <3>2
      <3>4. Below(h, ty) = Below(g, ty)
        BY <3>3 DEF Below
      <3> QED
        BY <3>2, <3>3, <3>4
    <2>2. h \in [D -> Int]
      <3>1. h = [ty \in D |-> h[ty]]
        OBVIOUS
      <3> HIDE DEF h
      <3> QED
        BY <2>1, <3>1
    <2>3. D \subseteq Types
      OBVIOUS
    <2> HIDE DEF D, h
    <2> QED
      BY <2>1, <2>2, <2>3 DEF Solves
  <1>3. D = Types
    <2> SUFFICES ASSUME Types \ D # {} PROVE FALSE
      OBVIOUS
    <2>1. PICK m \in Types \ D : Components(m) \cap (Types \ D) = {}
      <3>1. Types \ D \in SUBSET Types
        OBVIOUS
      <3> HIDE DEF D
      <3> QED
        BY <3>1, TypesAssumption
    <2> HIDE DEF D, h
    <2>2. Components(m) \subseteq D /\ m \notin D /\ m \in Types
      BY <2>1, TypesAssumption
    <2>3. h \in [D -> Int] /\ D \subseteq Types
      BY <1>2 DEF Solves
    <2>4. Below(h, m) \in [Components(m) -> Int]
      BY <2>2, <2>3 DEF Below
    <2>5. PICK v \in Int : v = step[m][Below(h, m)]
      BY <2>2, <2>4
    <2> DEFINE E == D \cup {m}
               k == [ty \in E |-> IF ty = m THEN v ELSE h[ty]]
    <2>6. E \subseteq Types /\ k \in [E -> Int]
      BY <2>2, <2>3
    <2>7. ASSUME NEW ty \in E
          PROVE  Components(ty) \subseteq E /\ k[ty] = step[ty][Below(k, ty)]
      <3>1. Components(ty) \subseteq D
        BY <2>2, <1>2 DEF Solves
      <3>2. \A c \in Components(ty) : k[c] = h[c]
        BY <3>1, <2>2
      <3>3. Below(k, ty) = Below(h, ty)
        BY <3>2 DEF Below
      <3>4. CASE ty = m
        BY <3>1, <3>3, <3>4, <2>5
      <3>5. CASE ty # m
        <4>1. ty \in D /\ k[ty] = h[ty]
          BY <3>5
        <4>2. h[ty] = step[ty][Below(h, ty)]
          BY <4>1, <1>2 DEF Solves
        <4> QED
          BY <3>1, <3>3, <4>1, <4>2
      <3> QED
        BY <3>4, <3>5
    <2>8. Solves(step, E, k)
      <3> HIDE DEF E, k
      <3> QED
        BY <2>6, <2>7 DEF Solves
    <2>9. m \in E
      OBVIOUS
    <2>10. m \in D
      <3> HIDE DEF E, k
      <3> QED
        BY <1>1, <2>8, <2>9
    <2> QED
      BY <2>2, <2>10
  <1> HIDE DEF h, D
  <1> QED
    BY <1>2, <1>3

\* What holds of a type when it holds of its components holds of every type.
LEMMA TypeInduction ==
  ASSUME NEW Good, \A ty \in Types : Components(ty) \subseteq Good => ty \in Good
  PROVE  \A ty \in Types : ty \in Good
  <1> DEFINE Bad == Types \ Good
  <1> SUFFICES ASSUME Bad # {} PROVE FALSE
    OBVIOUS
  <1>1. PICK m \in Bad : Components(m) \cap Bad = {}
    <2>1. Bad \in SUBSET Types
      OBVIOUS
    <2> HIDE DEF Bad
    <2> QED
      BY <2>1, TypesAssumption
  <1>2. Components(m) \subseteq Types
    BY TypesAssumption
  <1> QED
    BY <1>1, <1>2

\* What f has at the types of the fields.
Each(ty, f) == [i \in DOMAIN ty.fields |-> f[ty.fields[i].ty]]

\* The fields of a struct or a union: their types are components of it.
LEMMA Fields ==
  ASSUME NEW ty \in Types, ty.kind \in {"struct", "union"},
         NEW N, NEW f, \A c \in Components(ty) : f[c] \in N
  PROVE  /\ DOMAIN ty.fields = 1..Len(ty.fields) /\ Len(ty.fields) \in Nat
         /\ \A i \in DOMAIN ty.fields : ty.fields[i].ty \in Components(ty)
         /\ Each(ty, f) \in Seq(N) /\ Len(Each(ty, f)) = Len(ty.fields)
  <1>1. ty.fields \in Seq({ty.fields[i] : i \in DOMAIN ty.fields})
    BY TypesAssumption DEF IsType
  <1>2. DOMAIN ty.fields = 1..Len(ty.fields) /\ Len(ty.fields) \in Nat
    BY <1>1
  <1>3. \A i \in DOMAIN ty.fields : ty.fields[i].ty \in Components(ty)
    BY DEF Components
  <1>4. Each(ty, f) \in [1..Len(ty.fields) -> N]
    BY <1>2, <1>3 DEF Each
  <1> HIDE DEF Each
  <1> QED
    BY <1>2, <1>3, <1>4

\* The turns for each kind of type.
LEMMA Turns ==
  ASSUME NEW ty \in Types, NEW f
  PROVE  /\ ty.kind \in {"integer", "hw.int"} =>
              ty.width \in Nat /\ WidthOf(ty, f) = ty.width /\ WiresOf(ty, f) = ty.width
         /\ ty.kind = "array" =>
              /\ ty.size \in Nat /\ ty.element \in Components(ty)
              /\ WidthOf(ty, f) = IF f[ty.element] = None THEN None
                                  ELSE Checked(ty.size * f[ty.element])
              /\ WiresOf(ty, f) = ty.size * f[ty.element]
         /\ ty.kind = "struct" =>
              /\ WidthOf(ty, f) = IF \E i \in DOMAIN ty.fields : f[ty.fields[i].ty] = None THEN None
                                  ELSE Checked(Total(Each(ty, f)))
              /\ WiresOf(ty, f) = Total(Each(ty, f))
         /\ ty.kind = "union" =>
              /\ WidthOf(ty, f) = IF \E i \in DOMAIN ty.fields : f[ty.fields[i].ty] = None THEN None
                                  ELSE Largest(Each(ty, f))
              /\ WiresOf(ty, f) = Largest(Each(ty, f))
         /\ ty.kind \in {"alias", "enum", "inout"} =>
              /\ ty.inner \in Components(ty)
              /\ WidthOf(ty, f) = f[ty.inner] /\ WiresOf(ty, f) = f[ty.inner]
         /\ ty.kind = "opaque" => WidthOf(ty, f) = None /\ WiresOf(ty, f) = 1
         /\ ty.kind \in {"integer", "hw.int", "array", "struct", "union", "alias", "enum", "inout",
                         "opaque"}
  <1>1. IsType(ty)
    BY TypesAssumption
  <1>2. ty.kind \in {"integer", "hw.int"} =>
          ty.width \in Nat /\ WidthOf(ty, f) = ty.width /\ WiresOf(ty, f) = ty.width
    BY <1>1 DEF IsType, WidthOf, WiresOf
  <1>3. ty.kind = "array" =>
          /\ ty.size \in Nat /\ ty.element \in Components(ty)
          /\ WidthOf(ty, f) = IF f[ty.element] = None THEN None
                              ELSE Checked(ty.size * f[ty.element])
          /\ WiresOf(ty, f) = ty.size * f[ty.element]
    BY <1>1 DEF IsType, WidthOf, WiresOf, Components
  <1>4. ty.kind = "struct" =>
          /\ WidthOf(ty, f) = IF \E i \in DOMAIN ty.fields : f[ty.fields[i].ty] = None THEN None
                              ELSE Checked(Total(Each(ty, f)))
          /\ WiresOf(ty, f) = Total(Each(ty, f))
    BY DEF WidthOf, WiresOf, Each
  <1>5. ty.kind = "union" =>
          /\ WidthOf(ty, f) = IF \E i \in DOMAIN ty.fields : f[ty.fields[i].ty] = None THEN None
                              ELSE Largest(Each(ty, f))
          /\ WiresOf(ty, f) = Largest(Each(ty, f))
    BY DEF WidthOf, WiresOf, Each
  <1>6. ty.kind \in {"alias", "enum", "inout"} =>
          /\ ty.inner \in Components(ty)
          /\ WidthOf(ty, f) = f[ty.inner] /\ WiresOf(ty, f) = f[ty.inner]
    BY DEF WidthOf, WiresOf, Components
  <1>7. ty.kind = "opaque" => WidthOf(ty, f) = None /\ WiresOf(ty, f) = 1
    BY DEF WidthOf, WiresOf
  <1>8. ty.kind \in {"integer", "hw.int", "array", "struct", "union", "alias", "enum", "inout",
                     "opaque"}
    BY <1>1 DEF IsType
  <1> QED
    BY <1>2, <1>3, <1>4, <1>5, <1>6, <1>7, <1>8

\* Numbers at the components give a number at the type.
LEMMA TurnsAreNumbers ==
  ASSUME NEW ty \in Types, NEW f, \A c \in Components(ty) : f[c] \in Int
  PROVE  WidthOf(ty, f) \in Int /\ WiresOf(ty, f) \in Int
  <1>1. ASSUME NEW n \in Int PROVE Checked(n) \in Int
    BY DEF Checked, None
  <1>2. CASE ty.kind \in {"integer", "hw.int"}
    <2>1. ty.width \in Nat /\ WidthOf(ty, f) = ty.width /\ WiresOf(ty, f) = ty.width
      BY <1>2, Turns
    <2> QED
      BY <2>1
  <1>3. CASE ty.kind = "array"
    <2>1. /\ ty.size \in Nat /\ ty.element \in Components(ty)
          /\ WidthOf(ty, f) = IF f[ty.element] = None THEN None ELSE Checked(ty.size * f[ty.element])
          /\ WiresOf(ty, f) = ty.size * f[ty.element]
      BY <1>3, Turns
    <2>2. ty.size * f[ty.element] \in Int /\ None \in Int
      BY <2>1 DEF None
    <2> QED
      BY <1>1, <2>1, <2>2
  <1>4. CASE ty.kind \in {"struct", "union"}
    <2>1. Each(ty, f) \in Seq(Int)
      BY <1>4, Fields
    <2>2. Total(Each(ty, f)) \in Int /\ Largest(Each(ty, f)) \in Int /\ None \in Int
      <3>1. \A s \in Seq(Int) : Total(s) \in Int
        BY SumsExist, TotalIs
      <3>2. \A s \in Seq(Int) : Largest(s) \in Int
        BY LargestBounds
      <3> QED
        BY <2>1, <3>1, <3>2 DEF None
    <2>3. CASE ty.kind = "struct"
      <3>1. /\ WidthOf(ty, f) = None \/ WidthOf(ty, f) = Checked(Total(Each(ty, f)))
            /\ WiresOf(ty, f) = Total(Each(ty, f))
        BY <2>3, Turns
      <3> QED
        BY <1>1, <2>2, <3>1
    <2>4. CASE ty.kind = "union"
      <3>1. /\ WidthOf(ty, f) = None \/ WidthOf(ty, f) = Largest(Each(ty, f))
            /\ WiresOf(ty, f) = Largest(Each(ty, f))
        BY <2>4, Turns
      <3> QED
        BY <2>2, <3>1
    <2> QED
      BY <1>4, <2>3, <2>4
  <1>5. CASE ty.kind \in {"alias", "enum", "inout"}
    BY <1>5, Turns
  <1>6. CASE ty.kind = "opaque"
    BY <1>6, Turns DEF None
  <1> QED
    BY <1>2, <1>3, <1>4, <1>5, <1>6, Turns

\* A turn looks at the components alone.
LEMMA TurnsAreLocal ==
  ASSUME NEW ty \in Types, NEW f
  PROVE  WidthOf(ty, Below(f, ty)) = WidthOf(ty, f) /\ WiresOf(ty, Below(f, ty)) = WiresOf(ty, f)
  <1>1. PICK g : g = Below(f, ty)
    OBVIOUS
  <1>2. \A c \in Components(ty) : g[c] = f[c]
    BY <1>1 DEF Below
  <1>3. CASE ty.kind \in {"struct", "union"}
    <2>1. \A i \in DOMAIN ty.fields : g[ty.fields[i].ty] = f[ty.fields[i].ty]
      BY <1>2, <1>3 DEF Components
    <2>2. Each(ty, g) = Each(ty, f)
      BY <2>1 DEF Each
    <2> QED
      BY <1>1, <1>3, <2>1, <2>2, Turns
  <1>4. CASE ty.kind = "array"
    <2>1. g[ty.element] = f[ty.element]
      BY <1>2, <1>4, Turns
    <2> QED
      BY <1>1, <1>4, <2>1, Turns
  <1>5. CASE ty.kind \in {"alias", "enum", "inout"}
    <2>1. g[ty.inner] = f[ty.inner]
      BY <1>2, <1>5, Turns
    <2> QED
      BY <1>1, <1>5, <2>1, Turns
  <1>6. CASE ty.kind \in {"integer", "hw.int"}
    BY <1>1, <1>6, Turns
  <1>7. CASE ty.kind = "opaque"
    BY <1>1, <1>7, Turns
  <1> QED
    BY <1>3, <1>4, <1>5, <1>6, <1>7, Turns

\* compute_type_bitwidth takes at every type the turn from its components.
LEMMA WidthIs ==
  \A ty \in Types : compute_type_bitwidth[ty] = WidthOf(ty, compute_type_bitwidth)
  <1> DEFINE Loop(f) == f = [ty \in Types |-> WidthOf(ty, f)]
             step == [ty \in Types |-> [f \in [Components(ty) -> Int] |-> WidthOf(ty, f)]]
  <1>1. \A ty \in Types : step[ty] \in [[Components(ty) -> Int] -> Int]
    BY TurnsAreNumbers
  <1>2. PICK g : Solves(step, Types, g)
    <2> HIDE DEF step
    <2> QED
      BY <1>1, TypeRecursion
  <1>3. Loop(g)
    <2>1. ASSUME NEW ty \in Types PROVE g[ty] = WidthOf(ty, g)
      <3>1. Components(ty) \subseteq Types /\ g[ty] = step[ty][Below(g, ty)] /\ g \in [Types -> Int]
        <4> HIDE DEF step
        <4> QED
          BY <1>2 DEF Solves
      <3>2. Below(g, ty) \in [Components(ty) -> Int]
        BY <3>1 DEF Below
      <3>3. step[ty][Below(g, ty)] = WidthOf(ty, Below(g, ty))
        BY <3>2
      <3> QED
        BY <3>1, <3>3, TurnsAreLocal
    <2>2. g = [ty \in Types |-> g[ty]]
      BY <1>2 DEF Solves
    <2> QED
      BY <2>1, <2>2
  <1>4. compute_type_bitwidth = CHOOSE f : Loop(f)
    BY DEF compute_type_bitwidth
  <1>5. Loop(compute_type_bitwidth)
    <2> HIDE DEF Loop
    <2> QED
      BY <1>3, <1>4
  <1>6. PICK f : f = compute_type_bitwidth
    OBVIOUS
  <1> QED
    BY <1>5, <1>6

\* So does Wires.
LEMMA WiresIs ==
  \A ty \in Types : Wires[ty] = WiresOf(ty, Wires)
  <1> DEFINE Loop(f) == f = [ty \in Types |-> WiresOf(ty, f)]
             step == [ty \in Types |-> [f \in [Components(ty) -> Int] |-> WiresOf(ty, f)]]
  <1>1. \A ty \in Types : step[ty] \in [[Components(ty) -> Int] -> Int]
    BY TurnsAreNumbers
  <1>2. PICK g : Solves(step, Types, g)
    <2> HIDE DEF step
    <2> QED
      BY <1>1, TypeRecursion
  <1>3. Loop(g)
    <2>1. ASSUME NEW ty \in Types PROVE g[ty] = WiresOf(ty, g)
      <3>1. Components(ty) \subseteq Types /\ g[ty] = step[ty][Below(g, ty)] /\ g \in [Types -> Int]
        <4> HIDE DEF step
        <4> QED
          BY <1>2 DEF Solves
      <3>2. Below(g, ty) \in [Components(ty) -> Int]
        BY <3>1 DEF Below
      <3>3. step[ty][Below(g, ty)] = WiresOf(ty, Below(g, ty))
        BY <3>2
      <3> QED
        BY <3>1, <3>3, TurnsAreLocal
    <2>2. g = [ty \in Types |-> g[ty]]
      BY <1>2 DEF Solves
    <2> QED
      BY <2>1, <2>2
  <1>4. Wires = CHOOSE f : Loop(f)
    BY DEF Wires
  <1>5. Loop(Wires)
    <2> HIDE DEF Loop
    <2> QED
      BY <1>3, <1>4
  <1>6. PICK f : f = Wires
    OBVIOUS
  <1> QED
    BY <1>5, <1>6

\* A type has a width that is a natural number, or none.
LEMMA WidthKinds == \A ty \in Types : compute_type_bitwidth[ty] \in Nat \cup {None}
  <1> DEFINE W == compute_type_bitwidth
             Good == {ty \in Types : W[ty] \in Nat \cup {None}}
  <1>1. ASSUME NEW n \in Nat PROVE Checked(n) \in Nat \cup {None}
    BY DEF Checked
  <1>2. ASSUME NEW ty \in Types, Components(ty) \subseteq Good PROVE ty \in Good
    <2>1. W[ty] = WidthOf(ty, W)
      BY WidthIs
    <2>2. \A c \in Components(ty) : W[c] \in Nat \cup {None}
      BY <1>2
    <2> HIDE DEF W
    <2>3. CASE ty.kind = "array"
      <3>1. /\ ty.size \in Nat /\ W[ty.element] \in Nat \cup {None}
            /\ WidthOf(ty, W) = IF W[ty.element] = None THEN None ELSE Checked(ty.size * W[ty.element])
        BY <2>2, <2>3, Turns
      <3>2. W[ty.element] # None => ty.size * W[ty.element] \in Nat
        BY <3>1
      <3> QED
        BY <1>1, <2>1, <3>1, <3>2
    <2>4. CASE ty.kind \in {"struct", "union"} /\ \E i \in DOMAIN ty.fields : W[ty.fields[i].ty] = None
      BY <2>1, <2>4, Turns
    <2>5. CASE ty.kind \in {"struct", "union"} /\ ~\E i \in DOMAIN ty.fields : W[ty.fields[i].ty] = None
      <3>1. Each(ty, W) \in Seq(Nat)
        <4>1. ASSUME NEW c \in Components(ty) PROVE W[c] \in Nat
          BY <2>2, <2>5 DEF Components
        <4> QED
          BY <2>5, <4>1, Fields
      <3>2. Total(Each(ty, W)) \in Nat /\ Largest(Each(ty, W)) \in Nat
        <4>1. Each(ty, W) \in Seq(Int)
          BY <3>1
        <4> QED
          BY <3>1, <4>1, TotalNat, LargestBounds
      <3>3. WidthOf(ty, W) \in {Checked(Total(Each(ty, W))), Largest(Each(ty, W))}
        BY <2>5, Turns
      <3> QED
        BY <1>1, <2>1, <3>2, <3>3
    <2>6. CASE ty.kind \in {"alias", "enum", "inout"}
      BY <2>1, <2>2, <2>6, Turns
    <2>7. CASE ty.kind \in {"integer", "hw.int", "opaque"}
      BY <2>1, <2>7, Turns
    <2> QED
      BY <2>3, <2>4, <2>5, <2>6, <2>7, Turns
  <1> HIDE DEF Good
  <1>3. \A ty \in Types : ty \in Good
    BY <1>2, TypeInduction
  <1> QED
    BY <1>3 DEF Good

\* The width of the type is known.
Known(ty) == compute_type_bitwidth[ty] # None

\* A type whose width is known is made of types whose width is known; the word
\* held every product and sum on the way.
LEMMA KnownTurns ==
  ASSUME NEW ty \in Types, Known(ty)
  PROVE  /\ compute_type_bitwidth[ty] \in Nat
         /\ ty.kind \in {"integer", "hw.int"} => compute_type_bitwidth[ty] = ty.width
         /\ ty.kind = "array" =>
              /\ ty.size \in Nat /\ ty.element \in Components(ty)
              /\ Known(ty.element)
              /\ compute_type_bitwidth[ty] = ty.size * compute_type_bitwidth[ty.element]
         /\ ty.kind \in {"struct", "union"} => \A i \in DOMAIN ty.fields : Known(ty.fields[i].ty)
         /\ ty.kind = "struct" =>
              compute_type_bitwidth[ty] = Total(Each(ty, compute_type_bitwidth))
         /\ ty.kind = "union" =>
              compute_type_bitwidth[ty] = Largest(Each(ty, compute_type_bitwidth))
         /\ ty.kind \in {"alias", "enum", "inout"} =>
              ty.inner \in Components(ty) /\ compute_type_bitwidth[ty] = compute_type_bitwidth[ty.inner]
         /\ ty.kind # "opaque"
  <1>1. PICK W : W = compute_type_bitwidth
    OBVIOUS
  <1>2. W[ty] = WidthOf(ty, W) /\ W[ty] # None /\ W[ty] \in Nat
    BY <1>1, WidthIs, WidthKinds DEF Known
  <1>3. \A n : Checked(n) # None => Checked(n) = n
    BY DEF Checked
  <1>4. ty.kind = "array" =>
          ty.size \in Nat /\ ty.element \in Components(ty) /\ W[ty.element] # None
          /\ W[ty] = ty.size * W[ty.element]
    BY <1>2, <1>3, Turns
  <1>5. ty.kind = "struct" =>
          (\A i \in DOMAIN ty.fields : W[ty.fields[i].ty] # None) /\ W[ty] = Total(Each(ty, W))
    BY <1>2, <1>3, Turns
  <1>6. ty.kind = "union" =>
          (\A i \in DOMAIN ty.fields : W[ty.fields[i].ty] # None) /\ W[ty] = Largest(Each(ty, W))
    BY <1>2, <1>3, Turns
  <1>7. /\ ty.kind \in {"alias", "enum", "inout"} => ty.inner \in Components(ty) /\ W[ty] = W[ty.inner]
        /\ ty.kind \in {"integer", "hw.int"} => W[ty] = ty.width
        /\ ty.kind # "opaque"
    BY <1>2, Turns
  <1> QED
    BY <1>1, <1>2, <1>4, <1>5, <1>6, <1>7 DEF Known

\* The width of a type, when it is known, is the number of its wires.
LEMMA WidthIsWires == \A ty \in Types : Known(ty) => Wires[ty] = compute_type_bitwidth[ty]
  <1> DEFINE Good == {ty \in Types : Known(ty) => Wires[ty] = compute_type_bitwidth[ty]}
  <1>1. ASSUME NEW ty \in Types, Components(ty) \subseteq Good PROVE ty \in Good
    <2> SUFFICES ASSUME Known(ty) PROVE Wires[ty] = compute_type_bitwidth[ty]
      OBVIOUS
    <2>1. PICK W, V : W = compute_type_bitwidth /\ V = Wires
      OBVIOUS
    <2>2. V[ty] = WiresOf(ty, V)
      BY <2>1, WiresIs
    <2>3. \A c \in Components(ty) : Known(c) => V[c] = W[c]
      BY <1>1, <2>1
    <2>4. CASE ty.kind = "array"
      <3>1. ty.element \in Components(ty) /\ Known(ty.element) /\ W[ty] = ty.size * W[ty.element]
        BY <2>1, <2>4, KnownTurns
      <3>2. V[ty] = ty.size * V[ty.element]
        BY <2>2, <2>4, Turns
      <3> QED
        BY <2>1, <2>3, <3>1, <3>2
    <2>5. CASE ty.kind \in {"struct", "union"}
      <3>1. \A i \in DOMAIN ty.fields : V[ty.fields[i].ty] = W[ty.fields[i].ty]
        BY <2>3, <2>5, KnownTurns DEF Components
      <3>2. Each(ty, V) = Each(ty, W)
        BY <3>1 DEF Each
      <3> QED
        BY <2>1, <2>2, <2>5, <3>2, Turns, KnownTurns
    <2>6. CASE ty.kind \in {"alias", "enum", "inout"}
      <3>1. ty.inner \in Components(ty) /\ W[ty] = W[ty.inner]
        BY <2>1, <2>6, KnownTurns
      <3>2. V[ty] = V[ty.inner]
        BY <2>2, <2>6, Turns
      <3>3. Known(ty.inner)
        BY <2>1, <3>1 DEF Known
      <3> QED
        BY <2>1, <2>3, <3>1, <3>2, <3>3
    <2>7. CASE ty.kind \in {"integer", "hw.int"}
      BY <2>1, <2>2, <2>7, Turns, KnownTurns
    <2> QED
      BY <2>4, <2>5, <2>6, <2>7, Turns, KnownTurns
  <1> HIDE DEF Good
  <1>2. \A ty \in Types : ty \in Good
    BY <1>1, TypeInduction
  <1> QED
    BY <1>2 DEF Good

-----------------------------------------------------------------------------
(* The pieces of a value.                                                   *)

\* A name that stands for a field stands for one of the fields.
LEMMA NamedField ==
  ASSUME NEW ty \in Types, ty.kind \in {"struct", "union"}, NEW name, NEW field,
         HasField(ty, name, field)
  PROVE  /\ get_field_index(ty.fields, name) \in DOMAIN ty.fields
         /\ ty.fields[get_field_index(ty.fields, name)].ty = field
  <1> DEFINE I == {i \in 1..Len(ty.fields) : ty.fields[i].name = name}
  <1>1. Len(ty.fields) \in Nat /\ DOMAIN ty.fields = 1..Len(ty.fields)
    <2>1. ty.fields \in Seq({ty.fields[i] : i \in DOMAIN ty.fields})
      BY TypesAssumption DEF IsType
    <2> QED
      BY <2>1
  <1>2. PICK i : i = get_field_index(ty.fields, name)
    OBVIOUS
  <1>3. i # 0 /\ ty.fields[i].ty = field
    BY <1>2 DEF HasField
  <1>4. get_field_index(ty.fields, name) = IF I # {} THEN Min(I) ELSE 0
    BY DEF get_field_index, SelectInSeq
  <1>5. I # {} /\ i = Min(I)
    <2> HIDE DEF I
    <2> QED
      BY <1>2, <1>3, <1>4
  <1>6. \E x \in I : \A y \in I : x <= y
    <2>1. I \in SUBSET (1..Len(ty.fields))
      OBVIOUS
    <2> HIDE DEF I
    <2> QED
      BY <1>1, <1>5, <2>1, LeastElement
  <1>7. i \in I
    <2> HIDE DEF I
    <2> QED
      BY <1>5, <1>6 DEF Min
  <1> QED
    BY <1>1, <1>2, <1>3, <1>7

\* The part that holds a field holds all of it.
LEMMA FieldFits ==
  ASSUME NEW ty \in Types, Known(ty), ty.kind = "struct", NEW i \in DOMAIN ty.fields
  PROVE  /\ Field(ty, compute_type_bitwidth[ty], i) = compute_type_bitwidth[ty.fields[i].ty]
         /\ compute_type_bitwidth[ty.fields[i].ty] \in Nat
  <1>1. PICK W : W = compute_type_bitwidth
    OBVIOUS
  <1> DEFINE n == Len(ty.fields)
             s == Each(ty, W)
             t == [j \in 1..(n - i) |-> Wires[ty.fields[i + j].ty]]
  <1>2. \A j \in DOMAIN ty.fields : ty.fields[j].ty \in Types /\ Known(ty.fields[j].ty)
    <2>1. Components(ty) \subseteq Types
      BY TypesAssumption
    <2>2. \A j \in DOMAIN ty.fields : ty.fields[j].ty \in Components(ty)
      BY DEF Components
    <2>3. \A j \in DOMAIN ty.fields : Known(ty.fields[j].ty)
      BY KnownTurns
    <2> QED
      BY <2>1, <2>2, <2>3
  <1>3. \A j \in DOMAIN ty.fields : W[ty.fields[j].ty] \in Nat /\ Wires[ty.fields[j].ty] = W[ty.fields[j].ty]
    BY <1>1, <1>2, WidthKinds, WidthIsWires DEF Known
  <1>4. \A c \in Components(ty) : W[c] \in Nat
    BY <1>3 DEF Components
  <1>5. DOMAIN ty.fields = 1..n /\ n \in Nat /\ s \in Seq(Nat) /\ Len(s) = n
    BY <1>4, Fields
  <1>6. s \in Seq(Int) /\ i \in 1..Len(s) /\ i \in Nat
    BY <1>5
  <1>7. \A j \in 1..n : s[j] = W[ty.fields[j].ty]
    BY <1>5 DEF Each
  <1>8. t = [j \in 1..(n - i) |-> s[i + j]]
    <2>1. \A j \in 1..(n - i) : i + j \in 1..n
      BY <1>5, <1>6
    <2> HIDE DEF s
    <2> QED
      BY <1>3, <1>5, <1>7, <2>1
  <1> HIDE DEF s, t, n
  <1>9. PICK g : Sums(g, s)
    BY <1>6, SumsExist
  <1>10. Total(t) = g[n] - g[i]
    BY <1>5, <1>6, <1>8, <1>9, TotalOfRest
  <1>11. W[ty] = g[n]
    <2>1. W[ty] = Total(s)
      BY <1>1, KnownTurns DEF s
    <2> QED
      BY <1>5, <1>6, <1>9, <2>1, TotalIs
  <1>12. g[i] = g[i - 1] + s[i] /\ g[i - 1] \in Nat /\ g[i] \in Nat /\ g[n] \in Nat
    <2>1. i - 1 \in 0..n /\ i \in 0..n /\ n \in 0..n
      BY <1>5, <1>6
    <2>2. g[i - 1] \in Nat /\ g[i] \in Nat /\ g[n] \in Nat
      BY <1>5, <1>9, <2>1, SumsNat
    <2> QED
      BY <1>6, <1>9, <2>2 DEF Sums
  <1>13. s[i] \in Nat /\ s[i] = W[ty.fields[i].ty] /\ Wires[ty.fields[i].ty] = s[i]
    BY <1>3, <1>5, <1>6, <1>7
  <1>14. FieldLow(ty, i) = g[n] - g[i]
    BY <1>10 DEF FieldLow, t, n
  <1>15. (g[n] - g[i]) + s[i] <= g[n]
    BY <1>12, <1>13
  <1>16. Field(ty, W[ty], i) = Part(g[n], g[n] - g[i], s[i])
    BY <1>11, <1>13, <1>14 DEF Field
  <1>17. Part(g[n], g[n] - g[i], s[i]) = s[i]
    BY <1>15 DEF Part
  <1> QED
    BY <1>1, <1>13, <1>16, <1>17

\* The part that holds n elements of an array that has as many holds all of them.
LEMMA ElementsFit ==
  ASSUME NEW ty \in Types, Known(ty), IsArray(ty), NEW n \in Nat, n <= ty.size
  PROVE  /\ Elements(ty, compute_type_bitwidth[ty], n) = n * compute_type_bitwidth[ty.element]
         /\ compute_type_bitwidth[ty.element] \in Nat
  <1>1. PICK w : w = compute_type_bitwidth[ty.element]
    OBVIOUS
  <1>2. /\ ty.size \in Nat /\ ty.element \in Components(ty) /\ Known(ty.element)
        /\ compute_type_bitwidth[ty] = ty.size * w
    BY <1>1, KnownTurns DEF IsArray
  <1>3. ty.element \in Types
    BY <1>2, TypesAssumption
  <1>4. w \in Nat /\ Wires[ty.element] = w
    BY <1>1, <1>2, <1>3, WidthKinds, WidthIsWires DEF Known
  <1>5. (ty.size - n) * w + n * w = ty.size * w
    <2>1. \A a, b \in Int : (a - b) * w + b * w = a * w
      BY <1>4
    <2>2. ty.size \in Int /\ n \in Int
      BY <1>2
    <2>3. PICK size : size = ty.size
      OBVIOUS
    <2>4. (size - n) * w + n * w = size * w
      BY <2>1, <2>2, <2>3
    <2> QED
      BY <2>3, <2>4
  <1>6. Elements(ty, ty.size * w, n) = Part(ty.size * w, (ty.size - n) * w, n * w)
    BY <1>4 DEF Elements
  <1>7. PICK all, low, some : all = ty.size * w /\ low = (ty.size - n) * w /\ some = n * w
    OBVIOUS
  <1>8. all \in Int /\ low + some <= all
    BY <1>2, <1>4, <1>5, <1>7
  <1>9. Part(all, low, some) = some
    BY <1>8 DEF Part
  <1> QED
    BY <1>1, <1>2, <1>4, <1>6, <1>7, <1>9

\* A field of a union has at most the width of the union.
LEMMA UnionHolds ==
  ASSUME NEW ty \in Types, Known(ty), ty.kind = "union", NEW i \in DOMAIN ty.fields
  PROVE  compute_type_bitwidth[ty.fields[i].ty] <= compute_type_bitwidth[ty]
  <1>1. PICK W : W = compute_type_bitwidth
    OBVIOUS
  <1>2. \A c \in Components(ty) : W[c] \in Int
    BY <1>1, WidthKinds, TypesAssumption DEF None
  <1>3. DOMAIN ty.fields = 1..Len(ty.fields) /\ Each(ty, W) \in Seq(Int) /\ Len(Each(ty, W)) = Len(ty.fields)
    BY <1>2, Fields
  <1>4. Each(ty, W)[i] = W[ty.fields[i].ty]
    BY DEF Each
  <1>5. Each(ty, W)[i] <= Largest(Each(ty, W))
    BY <1>3, LargestBounds
  <1> QED
    BY <1>1, <1>4, <1>5, KnownTurns

\* An unchecked addition that gives a number adds up to it, when the build checks
\* additions or the sum is a machine word.
LEMMA AddedIsTotal ==
  ASSUME NEW numbers, Added(numbers) # None, overflow_checks \/ Total(numbers) < Word
  PROVE  Added(numbers) = Total(numbers)
  BY DEF Added

-----------------------------------------------------------------------------
(* One operation.                                                           *)

\* What SumFits says of an operation on operands of these types.
Fits(op, in) ==
  CASE op.kind = "concat" -> Total([k \in DOMAIN op.args |-> compute_type_bitwidth[in[k]]]) < Word
    [] op.kind = "array_concat" -> Total([k \in DOMAIN op.args |-> in[k].size]) < Word
    [] OTHER -> TRUE

\* The operation is made and accepted on operands of types whose width is known and
\* that are driven by as many bits, and the widths of its results are known.
Accepted(op, in, bits) ==
  /\ op \in Operations
  /\ in \in Seq(Types) /\ Len(in) = Len(op.args)
  /\ bits = [i \in DOMAIN op.args |-> compute_type_bitwidth[in[i]]]
  /\ \A i \in DOMAIN in : Known(in[i]) /\ HasElements(in[i])
  /\ \A i \in DOMAIN op.results : Known(op.results[i]) /\ HasElements(op.results[i])
  /\ new(op, in) /\ verify(op, in)
  /\ op.low < Word
  /\ overflow_checks \/ Fits(op, in)

\* Every result is driven by the bits its type announces.
Driven(op, in, bits) ==
  \A i \in DOMAIN op.results : Reaching(op, in, bits)[i] = compute_type_bitwidth[op.results[i]]

\* The types and the bits of the operands of an accepted operation.
LEMMA Operands ==
  ASSUME NEW op, NEW in, NEW bits, Accepted(op, in, bits)
  PROVE  /\ DOMAIN op.args = 1..Len(in) /\ DOMAIN in = 1..Len(in) /\ Len(in) \in Nat
         /\ Len(op.args) = Len(in)
         /\ \A i \in 1..Len(in) : /\ in[i] \in Types /\ Known(in[i]) /\ HasElements(in[i])
                                  /\ bits[i] = compute_type_bitwidth[in[i]] /\ bits[i] \in Nat
                                  /\ Wires[in[i]] = bits[i]
         /\ bits \in Seq(Nat) /\ bits \in Seq(Int) /\ Len(bits) = Len(in)
         /\ bits = [i \in DOMAIN in |-> compute_type_bitwidth[in[i]]]
  <1>1. op.args \in Seq(Nat) /\ in \in Seq(Types) /\ Len(in) = Len(op.args)
    BY OperationsAssumption DEF Accepted
  <1>2. DOMAIN op.args = 1..Len(in) /\ DOMAIN in = 1..Len(in) /\ Len(in) \in Nat
    BY <1>1
  <1>3. \A i \in 1..Len(in) : in[i] \in Types /\ Known(in[i]) /\ HasElements(in[i])
    BY <1>1, <1>2 DEF Accepted
  <1>4. \A i \in 1..Len(in) : compute_type_bitwidth[in[i]] \in Nat
                              /\ Wires[in[i]] = compute_type_bitwidth[in[i]]
    BY <1>3, WidthKinds, WidthIsWires DEF Known
  <1>5. bits = [i \in 1..Len(in) |-> compute_type_bitwidth[in[i]]]
    BY <1>2 DEF Accepted
  <1>6. bits \in [1..Len(in) -> Nat]
    BY <1>4, <1>5
  <1>7. bits \in Seq(Nat) /\ Len(bits) = Len(in) /\ bits \in Seq(Int)
    BY <1>2, <1>6
  <1> QED
    BY <1>1, <1>2, <1>3, <1>4, <1>5, <1>7

\* The one result of an accepted operation that has one.
LEMMA OneResult ==
  ASSUME NEW op, NEW in, NEW bits, Accepted(op, in, bits), op.kind # "struct_explode"
  PROVE  LET ty == op.results[1] IN
         /\ op.results = <<ty>> /\ ty \in Types /\ Known(ty) /\ HasElements(ty)
         /\ compute_type_bitwidth[ty] \in Nat /\ Wires[ty] = compute_type_bitwidth[ty]
         /\ Reaching(op, in, bits)[1] = compute_type_bitwidth[ty] => Driven(op, in, bits)
  <1>1. op.results \in Seq(Types) /\ Len(op.results) = 1
    BY OperationsAssumption DEF Accepted, verify, verify_interfaces
  <1>2. DOMAIN op.results = {1} /\ op.results[1] \in Types /\ op.results = <<op.results[1]>>
    BY <1>1
  <1>3. Known(op.results[1]) /\ HasElements(op.results[1])
    BY <1>2 DEF Accepted
  <1>4. compute_type_bitwidth[op.results[1]] \in Nat
        /\ Wires[op.results[1]] = compute_type_bitwidth[op.results[1]]
    BY <1>2, <1>3, WidthKinds, WidthIsWires DEF Known
  <1>5. Reaching(op, in, bits)[1] = compute_type_bitwidth[op.results[1]] => Driven(op, in, bits)
    BY <1>2 DEF Driven
  <1> QED
    BY <1>2, <1>3, <1>4, <1>5

\* A constant.
LEMMA ConstantDriven ==
  ASSUME NEW op, NEW in, NEW bits, Accepted(op, in, bits), op.kind = "constant"
  PROVE  Driven(op, in, bits)
  <1>1. op.results = <<IntegerType(op.width)>>
    BY DEF Accepted, new, new_constant
  <1>2. op.results[1].kind = "integer" /\ op.results[1].width = op.width
    BY <1>1 DEF IntegerType
  <1>3. compute_type_bitwidth[op.results[1]] = op.width
    BY <1>2, OneResult, KnownTurns
  <1>4. Reaching(op, in, bits)[1] = op.width
    BY DEF Reaching
  <1> QED
    BY <1>3, <1>4, OneResult

\* A wire and a cast.
LEMMA PassedOnDriven ==
  ASSUME NEW op, NEW in, NEW bits, Accepted(op, in, bits), op.kind \in {"wire", "bitcast"}
  PROVE  Driven(op, in, bits)
  <1>1. Len(in) = 1
    BY Operands DEF Accepted, verify, verify_interfaces, OneOperand
  <1>2. bits[1] = compute_type_bitwidth[in[1]] /\ Known(in[1])
    BY <1>1, Operands
  <1>3. Known(op.results[1])
    BY OneResult
  <1>4. compute_type_bitwidth[in[1]] = compute_type_bitwidth[op.results[1]]
    <2>1. CASE op.kind = "wire"
      BY <2>1 DEF Accepted, verify, verify_op, verify_wire
    <2>2. CASE op.kind = "bitcast"
      BY <1>2, <1>3, <2>2 DEF Accepted, verify, verify_op, verify_bitcast, Known
    <2> QED
      BY <2>1, <2>2
  <1>5. Reaching(op, in, bits)[1] = bits[1]
    BY DEF Reaching
  <1> QED
    BY <1>2, <1>4, <1>5, OneResult

\* A concatenation of bits.
LEMMA ConcatDriven ==
  ASSUME NEW op, NEW in, NEW bits, Accepted(op, in, bits), op.kind = "concat"
  PROVE  Driven(op, in, bits)
  <1>1. bits = [i \in DOMAIN in |-> compute_type_bitwidth[in[i]]]
    BY Operands
  <1>2. Added(bits) = compute_type_bitwidth[op.results[1]]
    BY <1>1 DEF Accepted, verify, verify_op, verify_concat
  <1>3. overflow_checks \/ Total(bits) < Word
    BY <1>1, Operands DEF Accepted, Fits
  <1>4. Added(bits) = Total(bits)
    BY <1>2, <1>3, OneResult, AddedIsTotal DEF Known
  <1>5. Reaching(op, in, bits)[1] = Total(bits)
    BY DEF Reaching
  <1> QED
    BY <1>2, <1>4, <1>5, OneResult

\* A slice.
LEMMA SliceDriven ==
  ASSUME NEW op, NEW in, NEW bits, Accepted(op, in, bits), op.kind = "slice"
  PROVE  Driven(op, in, bits)
  <1>1. Len(in) = 1
    BY Operands DEF Accepted, verify, verify_interfaces, OneOperand
  <1>2. PICK from, to : from = compute_type_bitwidth[in[1]] /\ to = compute_type_bitwidth[op.results[1]]
    OBVIOUS
  <1>3. bits[1] = from /\ Known(in[1]) /\ Known(op.results[1])
    BY <1>1, <1>2, Operands, OneResult
  <1>4. op.low + to <= from
    BY <1>2, <1>3 DEF Accepted, verify, verify_op, verify_slice, to_u64, Known
  <1>5. Wires[op.results[1]] = to
    BY <1>2, OneResult
  <1>6. Reaching(op, in, bits)[1] = Part(from, op.low, to)
    BY <1>3, <1>5 DEF Reaching
  <1>7. Part(from, op.low, to) = to
    BY <1>4 DEF Part
  <1> QED
    BY <1>2, <1>6, <1>7, OneResult

\* An array made of its elements.
LEMMA ArrayCreateDriven ==
  ASSUME NEW op, NEW in, NEW bits, Accepted(op, in, bits), op.kind = "array_create"
  PROVE  Driven(op, in, bits)
  <1>1. PICK ty : ty = op.results[1]
    OBVIOUS
  <1>2. PICK w : w = compute_type_bitwidth[ty.element]
    OBVIOUS
  <1>3. IsArray(ty) /\ Len(in) = ty.size /\ \A i \in DOMAIN in : in[i] = ty.element
    BY <1>1 DEF Accepted, verify, verify_op, verify_array_create
  <1>4. Known(ty.element) /\ ty.element \in Types /\ compute_type_bitwidth[ty] = ty.size * w
    <2>1. ty \in Types /\ Known(ty) /\ ty.kind = "array"
      BY <1>1, <1>3, OneResult DEF IsArray
    <2>2. Known(ty.element) /\ ty.element \in Components(ty) /\ compute_type_bitwidth[ty] = ty.size * w
      BY <1>2, <2>1, KnownTurns
    <2> QED
      BY <2>1, <2>2, TypesAssumption
  <1>5. w \in Int
    BY <1>2, <1>4, WidthKinds DEF Known
  <1>6. bits \in Seq(Int) /\ Len(bits) = ty.size /\ \A i \in 1..Len(bits) : bits[i] = w
    BY <1>2, <1>3, Operands
  <1>7. Total(bits) = ty.size * w
    BY <1>5, <1>6, TotalOfEqual
  <1>8. Reaching(op, in, bits)[1] = Total(bits)
    BY DEF Reaching
  <1> QED
    BY <1>1, <1>4, <1>7, <1>8, OneResult

\* An element of an array.
LEMMA ArrayGetDriven ==
  ASSUME NEW op, NEW in, NEW bits, Accepted(op, in, bits), op.kind = "array_get"
  PROVE  Driven(op, in, bits)
  <1>1. Len(in) = 2
    BY Operands DEF Accepted, verify, verify_interfaces, TwoOperands
  <1>2. PICK ty : ty = in[1]
    OBVIOUS
  <1>3. ty \in Types /\ Known(ty) /\ HasElements(ty) /\ bits[1] = compute_type_bitwidth[ty]
    BY <1>1, <1>2, Operands
  <1>4. IsArray(ty) /\ op.results[1] = ty.element
    BY <1>2 DEF Accepted, verify, verify_op, verify_array_get
  <1>5. ty.size \in Nat /\ 1 <= ty.size
    <2>1. ty.size \in Nat
      BY <1>3, <1>4, KnownTurns DEF IsArray
    <2> QED
      BY <1>3, <1>4, <2>1 DEF HasElements
  <1>6. PICK w : w = compute_type_bitwidth[ty.element]
    OBVIOUS
  <1>7. Elements(ty, bits[1], 1) = 1 * w /\ w \in Nat
    BY <1>3, <1>4, <1>5, <1>6, ElementsFit
  <1>8. Reaching(op, in, bits)[1] = Elements(ty, bits[1], 1)
    BY <1>2 DEF Reaching
  <1>9. Reaching(op, in, bits)[1] = w
    BY <1>7, <1>8
  <1> QED
    BY <1>4, <1>6, <1>9, OneResult

\* A slice of an array.
LEMMA ArraySliceDriven ==
  ASSUME NEW op, NEW in, NEW bits, Accepted(op, in, bits), op.kind = "array_slice"
  PROVE  Driven(op, in, bits)
  <1>1. Len(in) = 2
    BY Operands DEF Accepted, verify, verify_interfaces, TwoOperands
  <1>2. PICK ty, res : ty = in[1] /\ res = op.results[1]
    OBVIOUS
  <1>3. ty \in Types /\ Known(ty) /\ bits[1] = compute_type_bitwidth[ty] /\ res \in Types /\ Known(res)
    BY <1>1, <1>2, Operands, OneResult
  <1>4. IsArray(ty) /\ IsArray(res) /\ ty.element = res.element /\ res.size <= ty.size
    BY <1>2 DEF Accepted, verify, verify_op, verify_array_slice
  <1>5. res.size \in Nat /\ compute_type_bitwidth[res] = res.size * compute_type_bitwidth[res.element]
    BY <1>3, <1>4, KnownTurns DEF IsArray
  <1>6. Elements(ty, bits[1], res.size) = res.size * compute_type_bitwidth[ty.element]
    BY <1>3, <1>4, <1>5, ElementsFit
  <1>7. Reaching(op, in, bits)[1] = Elements(ty, bits[1], res.size)
    BY <1>2 DEF Reaching
  <1> QED
    BY <1>2, <1>4, <1>5, <1>6, <1>7, OneResult

\* Arrays put together.
LEMMA ArrayConcatDriven ==
  ASSUME NEW op, NEW in, NEW bits, Accepted(op, in, bits), op.kind = "array_concat"
  PROVE  Driven(op, in, bits)
  <1>1. PICK ty : ty = op.results[1]
    OBVIOUS
  <1>2. PICK w : w = compute_type_bitwidth[ty.element]
    OBVIOUS
  <1>3. PICK sizes : sizes = [i \in DOMAIN in |-> in[i].size]
    OBVIOUS
  <1>4. /\ IsArray(ty) /\ Added(sizes) = ty.size
        /\ \A i \in DOMAIN in : IsArray(in[i]) /\ in[i].element = ty.element
    BY <1>1, <1>3 DEF Accepted, verify, verify_op, verify_array_concat
  <1>5. ty \in Types /\ Known(ty) /\ ty.kind = "array"
    BY <1>1, <1>4, OneResult DEF IsArray
  <1>6. /\ ty.size \in Nat /\ Known(ty.element) /\ ty.element \in Types
        /\ compute_type_bitwidth[ty] = ty.size * w
    <2>1. /\ ty.size \in Nat /\ Known(ty.element) /\ ty.element \in Components(ty)
          /\ compute_type_bitwidth[ty] = ty.size * w
      BY <1>2, <1>5, KnownTurns
    <2> QED
      BY <1>5, <2>1, TypesAssumption
  <1>7. w \in Int
    BY <1>2, <1>6, WidthKinds DEF Known
  <1>8. ASSUME NEW i \in 1..Len(in) PROVE in[i].size \in Nat /\ bits[i] = in[i].size * w
    <2>1. i \in DOMAIN in /\ in[i] \in Types /\ Known(in[i]) /\ bits[i] = compute_type_bitwidth[in[i]]
      BY Operands
    <2>2. in[i].kind = "array" /\ in[i].element = ty.element
      BY <1>4, <2>1 DEF IsArray
    <2> QED
      BY <1>2, <2>1, <2>2, KnownTurns
  <1>9. sizes \in Seq(Int) /\ Len(sizes) = Len(in) /\ \A i \in 1..Len(in) : sizes[i] = in[i].size
    <2>1. DOMAIN in = 1..Len(in) /\ Len(in) \in Nat
      BY Operands
    <2>2. sizes \in [1..Len(in) -> Int]
      BY <1>3, <1>8, <2>1
    <2> QED
      BY <1>3, <2>1, <2>2
  <1>10. bits \in Seq(Int) /\ Len(bits) = Len(sizes) /\ \A i \in 1..Len(sizes) : bits[i] = sizes[i] * w
    BY <1>8, <1>9, Operands
  <1>11. Total(bits) = Total(sizes) * w
    BY <1>7, <1>9, <1>10, TotalOfScaled
  <1>12. overflow_checks \/ Total(sizes) < Word
    <2>1. DOMAIN op.args = DOMAIN in
      BY Operands
    <2> QED
      BY <1>3, <2>1 DEF Accepted, Fits
  <1>13. Added(sizes) = Total(sizes)
    <2>1. Added(sizes) # None
      BY <1>4, <1>6 DEF None
    <2> QED
      BY <1>12, <2>1, AddedIsTotal
  <1>14. Reaching(op, in, bits)[1] = Total(bits)
    BY DEF Reaching
  <1> QED
    BY <1>1, <1>4, <1>6, <1>11, <1>13, <1>14, OneResult

\* An array with one element replaced.
LEMMA ArrayInjectDriven ==
  ASSUME NEW op, NEW in, NEW bits, Accepted(op, in, bits), op.kind = "array_inject"
  PROVE  Driven(op, in, bits)
  <1>1. Len(in) = 3
    BY Operands DEF Accepted, verify, verify_interfaces, ThreeOperands
  <1>2. PICK ty : ty = in[1]
    OBVIOUS
  <1>3. /\ ty \in Types /\ Known(ty) /\ HasElements(ty) /\ bits[1] = compute_type_bitwidth[ty]
        /\ bits[1] \in Nat /\ bits[3] = compute_type_bitwidth[in[3]]
    BY <1>1, <1>2, Operands
  <1>4. IsArray(ty) /\ in[3] = ty.element /\ op.results[1] = ty
    BY <1>2 DEF Accepted, verify, verify_op, verify_array_inject
  <1>5. ty.size \in Nat /\ 1 <= ty.size
    <2>1. ty.size \in Nat
      BY <1>3, <1>4, KnownTurns DEF IsArray
    <2> QED
      BY <1>3, <1>4, <2>1 DEF HasElements
  <1>6. PICK w : w = compute_type_bitwidth[ty.element]
    OBVIOUS
  <1>7. Elements(ty, bits[1], 1) = 1 * w /\ w \in Nat
    BY <1>3, <1>4, <1>5, <1>6, ElementsFit
  <1>8. Reaching(op, in, bits)[1] = bits[1] - Elements(ty, bits[1], 1) + bits[3]
    BY <1>2 DEF Reaching
  <1>9. Reaching(op, in, bits)[1] = bits[1]
    BY <1>3, <1>4, <1>6, <1>7, <1>8
  <1> QED
    BY <1>3, <1>4, <1>9, OneResult

\* A struct made of its fields.
LEMMA StructCreateDriven ==
  ASSUME NEW op, NEW in, NEW bits, Accepted(op, in, bits), op.kind = "struct_create"
  PROVE  Driven(op, in, bits)
  <1>1. PICK ty : ty = op.results[1]
    OBVIOUS
  <1>2. ty.kind = "struct" /\ in = FieldTypes(ty)
    BY <1>1 DEF Accepted, verify, verify_op, verify_struct_create
  <1>3. bits = Each(ty, compute_type_bitwidth)
    <2>1. DOMAIN in = DOMAIN ty.fields /\ \A i \in DOMAIN ty.fields : in[i] = ty.fields[i].ty
      BY <1>2 DEF FieldTypes
    <2>2. bits = [i \in DOMAIN in |-> compute_type_bitwidth[in[i]]]
      BY Operands
    <2> QED
      BY <2>1, <2>2 DEF Each
  <1>4. compute_type_bitwidth[ty] = Total(bits)
    BY <1>1, <1>2, <1>3, OneResult, KnownTurns
  <1>5. Reaching(op, in, bits)[1] = Total(bits)
    BY DEF Reaching
  <1> QED
    BY <1>1, <1>4, <1>5, OneResult

\* A field of a struct.
LEMMA StructExtractDriven ==
  ASSUME NEW op, NEW in, NEW bits, Accepted(op, in, bits), op.kind = "struct_extract"
  PROVE  Driven(op, in, bits)
  <1>1. Len(in) = 1
    BY Operands DEF Accepted, verify, verify_interfaces, OneOperand
  <1>2. PICK ty, i : ty = in[1] /\ i = get_field_index(ty.fields, op.name)
    OBVIOUS
  <1>3. ty \in Types /\ Known(ty) /\ bits[1] = compute_type_bitwidth[ty]
    BY <1>1, <1>2, Operands
  <1>4. ty.kind = "struct" /\ HasField(ty, op.name, op.results[1])
    BY <1>2 DEF Accepted, verify, verify_op, verify_struct_extract
  <1>5. i \in DOMAIN ty.fields /\ ty.fields[i].ty = op.results[1]
    BY <1>2, <1>3, <1>4, NamedField
  <1>6. Field(ty, bits[1], i) = compute_type_bitwidth[op.results[1]]
    BY <1>3, <1>4, <1>5, FieldFits
  <1>7. Reaching(op, in, bits)[1] = Field(ty, bits[1], i)
    BY <1>2 DEF Reaching
  <1> QED
    BY <1>6, <1>7, OneResult

\* A struct with one field replaced.
LEMMA StructInjectDriven ==
  ASSUME NEW op, NEW in, NEW bits, Accepted(op, in, bits), op.kind = "struct_inject"
  PROVE  Driven(op, in, bits)
  <1>1. Len(in) = 2
    BY Operands DEF Accepted, verify, verify_interfaces, TwoOperands
  <1>2. PICK ty, i : ty = in[1] /\ i = get_field_index(ty.fields, op.name)
    OBVIOUS
  <1>3. /\ ty \in Types /\ Known(ty) /\ bits[1] = compute_type_bitwidth[ty] /\ bits[1] \in Nat
        /\ bits[2] = compute_type_bitwidth[in[2]] /\ bits[2] \in Nat
    BY <1>1, <1>2, Operands
  <1>4. ty.kind = "struct" /\ HasField(ty, op.name, in[2]) /\ op.results[1] = ty
    BY <1>2 DEF Accepted, verify, verify_op, verify_struct_inject
  <1>5. i \in DOMAIN ty.fields /\ ty.fields[i].ty = in[2]
    BY <1>2, <1>3, <1>4, NamedField
  <1>6. Field(ty, bits[1], i) = bits[2]
    BY <1>3, <1>4, <1>5, FieldFits
  <1>7. Reaching(op, in, bits)[1] = bits[1] - Field(ty, bits[1], i) + bits[2]
    BY <1>2 DEF Reaching
  <1>8. Reaching(op, in, bits)[1] = bits[1]
    BY <1>3, <1>6, <1>7
  <1> QED
    BY <1>3, <1>4, <1>8, OneResult

\* The fields of a struct, all of them.
LEMMA StructExplodeDriven ==
  ASSUME NEW op, NEW in, NEW bits, Accepted(op, in, bits), op.kind = "struct_explode"
  PROVE  Driven(op, in, bits)
  <1>1. Len(in) = 1
    BY Operands DEF Accepted, verify, verify_interfaces, OneOperand
  <1>2. PICK ty : ty = in[1]
    OBVIOUS
  <1>3. ty \in Types /\ Known(ty) /\ bits[1] = compute_type_bitwidth[ty]
    BY <1>1, <1>2, Operands
  <1>4. ty.kind = "struct" /\ op.results = FieldTypes(ty)
    BY <1>2 DEF Accepted, verify, verify_op, verify_struct_explode
  <1>5. Reaching(op, in, bits) = [i \in DOMAIN ty.fields |-> Field(ty, bits[1], i)]
    BY <1>2 DEF Reaching
  <1>6. ASSUME NEW i \in DOMAIN op.results
        PROVE  Reaching(op, in, bits)[i] = compute_type_bitwidth[op.results[i]]
    <2>1. i \in DOMAIN ty.fields /\ op.results[i] = ty.fields[i].ty
      BY <1>4 DEF FieldTypes
    <2>2. Field(ty, bits[1], i) = compute_type_bitwidth[op.results[i]]
      BY <1>3, <1>4, <2>1, FieldFits
    <2> QED
      BY <1>5, <2>1, <2>2
  <1> QED
    BY <1>6 DEF Driven

\* A union made of one field.
LEMMA UnionCreateDriven ==
  ASSUME NEW op, NEW in, NEW bits, Accepted(op, in, bits), op.kind = "union_create"
  PROVE  Driven(op, in, bits)
  <1>1. Len(in) = 1
    BY Operands DEF Accepted, verify, verify_interfaces, OneOperand
  <1>2. PICK all, part : all = Wires[op.results[1]] /\ part = Wires[in[1]]
    OBVIOUS
  <1>3. bits[1] = part /\ part \in Nat
    BY <1>1, <1>2, Operands
  <1>4. all = compute_type_bitwidth[op.results[1]] /\ all \in Nat
    BY <1>2, OneResult
  <1>5. Reaching(op, in, bits)[1] = part + (all - part)
    BY <1>2, <1>3 DEF Reaching
  <1>6. Reaching(op, in, bits)[1] = all
    BY <1>3, <1>4, <1>5
  <1> QED
    BY <1>4, <1>6, OneResult

\* A field of a union.
LEMMA UnionExtractDriven ==
  ASSUME NEW op, NEW in, NEW bits, Accepted(op, in, bits), op.kind = "union_extract"
  PROVE  Driven(op, in, bits)
  <1>1. Len(in) = 1
    BY Operands DEF Accepted, verify, verify_interfaces, OneOperand
  <1>2. PICK ty, i : ty = in[1] /\ i = get_field_index(ty.fields, op.name)
    OBVIOUS
  <1>3. ty \in Types /\ Known(ty) /\ bits[1] = compute_type_bitwidth[ty] /\ bits[1] \in Nat
    BY <1>1, <1>2, Operands
  <1>4. ty.kind = "union" /\ HasField(ty, op.name, op.results[1])
    BY <1>2 DEF Accepted, verify, verify_op, verify_union_extract
  <1>5. i \in DOMAIN ty.fields /\ ty.fields[i].ty = op.results[1]
    BY <1>2, <1>3, <1>4, NamedField
  <1>6. PICK w : w = compute_type_bitwidth[op.results[1]]
    OBVIOUS
  <1>7. w <= bits[1] /\ w \in Nat /\ Wires[op.results[1]] = w
    BY <1>3, <1>4, <1>5, <1>6, UnionHolds, OneResult
  <1>8. Reaching(op, in, bits)[1] = Part(bits[1], 0, w)
    BY <1>7 DEF Reaching
  <1>9. Part(bits[1], 0, w) = w
    BY <1>7 DEF Part
  <1> QED
    BY <1>6, <1>8, <1>9, OneResult

\* A parameter.
LEMMA ParamValueDriven ==
  ASSUME NEW op, NEW in, NEW bits, Accepted(op, in, bits), op.kind = "param_value"
  PROVE  Driven(op, in, bits)
  <1>1. Reaching(op, in, bits)[1] = Wires[op.results[1]]
    BY DEF Reaching
  <1> QED
    BY <1>1, OneResult

\* Every operation.
LEMMA AcceptedDriven ==
  ASSUME NEW op, NEW in, NEW bits, Accepted(op, in, bits)
  PROVE  Driven(op, in, bits)
  <1>1. op.kind \in Kinds
    BY OperationsAssumption DEF Accepted
  <1> QED
    BY <1>1, ConstantDriven, PassedOnDriven, ConcatDriven, SliceDriven, ArrayCreateDriven,
       ArrayGetDriven, ArraySliceDriven, ArrayConcatDriven, ArrayInjectDriven, StructCreateDriven,
       StructExtractDriven, StructInjectDriven, StructExplodeDriven, UnionCreateDriven,
       UnionExtractDriven, ParamValueDriven DEF Kinds

-----------------------------------------------------------------------------
(* The invariant.                                                           *)

\* The operands of the operations of the body are among its values.
Placed ==
  /\ values \in Seq({values[v] : v \in DOMAIN values})
  /\ \A v \in DOMAIN values : values[v].ty \in Types
  /\ body \in Seq(Operations)
  /\ \A k \in DOMAIN body : \A i \in DOMAIN body[k].args : body[k].args[i] \in DOMAIN values

\* The premise of WidthExact, in two parts.
WidthsKnown == \A v \in DOMAIN values : Known(values[v].ty) /\ HasElements(values[v].ty)
NoneWraps ==
  /\ \A k \in DOMAIN body : body[k].low < Word
  /\ overflow_checks \/ \A k \in DOMAIN body : SumFits(body[k])

\* Its conclusion.
AllDriven == \A v \in DOMAIN values : values[v].bits = compute_type_bitwidth[values[v].ty]

\* WidthExact is not inductive alone: it needs the operands of the operations already
\* made to be among the values, so that what SumFits says of them does not change.
IInv == Placed /\ WidthExact

\* The parts of WidthExact.
LEMMA WidthExactIs == WidthExact <=> (WidthsKnown /\ NoneWraps => AllDriven)
  BY DEF WidthExact, WidthsKnown, NoneWraps, AllDriven, Known

\* A body of one input.
LEMMA InitIInv == Init => IInv
  <1> SUFFICES ASSUME Init PROVE IInv
    OBVIOUS
  <1>1. PICK ty \in InputTypes : values = <<Signal(ty, Wires[ty])>>
    BY DEF Init
  <1>2. ty \in Types
    BY OperationsAssumption
  <1>3. DOMAIN values = {1} /\ values[1].ty = ty /\ values[1].bits = Wires[ty]
    BY <1>1 DEF Signal
  <1>4. values \in Seq({values[v] : v \in DOMAIN values})
    <2>1. \A S : values[1] \in S => values \in Seq(S)
      BY <1>1
    <2> QED
      BY <1>3, <2>1
  <1>5. body \in Seq(Operations) /\ DOMAIN body = {}
    BY DEF Init
  <1>6. Placed
    BY <1>2, <1>3, <1>4, <1>5 DEF Placed
  <1>7. WidthsKnown => AllDriven
    BY <1>2, <1>3, WidthIsWires DEF WidthsKnown, AllDriven
  <1> QED
    BY <1>6, <1>7, WidthExactIs DEF IInv

\* The types and the bits of the operands of an operation.
TypesOf(op) == [i \in DOMAIN op.args |-> values[op.args[i]].ty]
BitsOf(op) == [i \in DOMAIN op.args |-> values[op.args[i]].bits]

\* What an operation adds to the values.
Fresh(op) ==
  [i \in DOMAIN op.results |-> Signal(op.results[i], Reaching(op, TypesOf(op), BitsOf(op))[i])]

\* An insertion leaves the values where they are and puts the results after them.
LEMMA InsertAdds ==
  ASSUME Placed, NEW op \in Operations, Insert(op)
  PROVE  /\ values' = values \o Fresh(op)
         /\ Len(values) \in Nat /\ Len(op.results) \in Nat
         /\ DOMAIN values = 1..Len(values) /\ DOMAIN op.results = 1..Len(op.results)
         /\ DOMAIN values' = 1..(Len(values) + Len(op.results))
         /\ \A v \in 1..Len(values) : values'[v] = values[v]
         /\ \A i \in 1..Len(op.results) :
              /\ values'[Len(values) + i].ty = op.results[i]
              /\ values'[Len(values) + i].bits = Reaching(op, TypesOf(op), BitsOf(op))[i]
         /\ \A v \in DOMAIN values' : v \in 1..Len(values)
                                      \/ \E i \in 1..Len(op.results) : v = Len(values) + i
         /\ values' \in Seq({values'[v] : v \in DOMAIN values'})
         /\ body' = Append(body, op) /\ UNCHANGED overflow_checks
  <1>1. values' = values \o Fresh(op) /\ body' = Append(body, op) /\ UNCHANGED overflow_checks
    BY DEF Insert, Fresh, TypesOf, BitsOf
  <1>2. op.results \in Seq(Types)
    BY OperationsAssumption
  <1>3. PICK n, m, fresh : n = Len(values) /\ m = Len(op.results) /\ fresh = Fresh(op)
    OBVIOUS
  <1>4. n \in Nat /\ m \in Nat /\ DOMAIN values = 1..n /\ DOMAIN op.results = 1..m
    BY <1>2, <1>3 DEF Placed
  <1>5. PICK S : S = {values[v] : v \in DOMAIN values} \cup {fresh[i] : i \in 1..m}
    OBVIOUS
  <1>6. fresh \in Seq(S) /\ Len(fresh) = m
    <2>1. DOMAIN fresh = 1..m /\ fresh = [i \in 1..m |-> fresh[i]]
      BY <1>3, <1>4 DEF Fresh
    <2>2. fresh \in [1..m -> S]
      BY <1>5, <2>1
    <2> QED
      BY <1>4, <2>2
  <1>7. values \in Seq(S)
    <2>1. values = [v \in 1..n |-> values[v]]
      BY <1>4 DEF Placed
    <2>2. values \in [1..n -> S]
      BY <1>4, <1>5, <2>1
    <2> QED
      BY <1>4, <2>2
  <1>8. PICK after : after = values \o fresh
    OBVIOUS
  <1>9. /\ after \in Seq(S) /\ Len(after) = n + m /\ DOMAIN after = 1..(n + m)
        /\ \A v \in 1..n : after[v] = values[v]
        /\ \A i \in 1..m : after[n + i] = fresh[i]
    <2>1. PICK old : old = values
      OBVIOUS
    <2>2. /\ old \o fresh \in Seq(S) /\ Len(old \o fresh) = Len(old) + Len(fresh)
          /\ DOMAIN (old \o fresh) = 1..(Len(old) + Len(fresh))
          /\ \A v \in 1..Len(old) : (old \o fresh)[v] = old[v]
          /\ \A i \in 1..Len(fresh) : (old \o fresh)[Len(old) + i] = fresh[i]
      <3>1. old \in Seq(S) /\ fresh \in Seq(S)
        BY <1>6, <1>7, <2>1
      <3> QED
        BY <3>1
    <2> QED
      BY <1>3, <1>6, <1>8, <2>1, <2>2
  <1>10. after \in Seq({after[v] : v \in DOMAIN after})
    <2>1. after = [v \in 1..(n + m) |-> after[v]] /\ n + m \in Nat
      BY <1>4, <1>9
    <2>2. after \in [1..(n + m) -> {after[v] : v \in DOMAIN after}]
      BY <1>9, <2>1
    <2> QED
      BY <2>1, <2>2
  <1>11. \A i \in 1..m : /\ fresh[i].ty = op.results[i]
                         /\ fresh[i].bits = Reaching(op, TypesOf(op), BitsOf(op))[i]
    BY <1>3, <1>4 DEF Fresh, Signal
  <1>12. \A v \in 1..(n + m) : v \in 1..n \/ \E i \in 1..m : v = n + i
    <2> SUFFICES ASSUME NEW v \in 1..(n + m), v \notin 1..n PROVE \E i \in 1..m : v = n + i
      OBVIOUS
    <2>1. v - n \in 1..m /\ v = n + (v - n)
      BY <1>4
    <2> QED
      BY <2>1
  <1>13. values' = after
    BY <1>1, <1>3, <1>8
  <1>14. values' \in Seq({values'[v] : v \in DOMAIN values'})
    BY <1>10, <1>13, Zenon
  <1> QED
    BY <1>1, <1>3, <1>4, <1>9, <1>11, <1>12, <1>13, <1>14

\* SumFits, among values that are given.
FitsAmong(op, among) ==
  LET ty(k) == among[op.args[k]].ty IN
  CASE op.kind = "concat" ->
         Total([k \in DOMAIN op.args |-> compute_type_bitwidth[ty(k)]]) < Word
    [] op.kind = "array_concat" -> Total([k \in DOMAIN op.args |-> ty(k).size]) < Word
    [] OTHER -> TRUE

\* What SumFits says depends on the types of the operands alone.
LEMMA FitsAlike ==
  ASSUME NEW op, NEW some, NEW others, \A k \in DOMAIN op.args : some[op.args[k]] = others[op.args[k]]
  PROVE  FitsAmong(op, some) <=> FitsAmong(op, others)
  <1>1. [k \in DOMAIN op.args |-> compute_type_bitwidth[some[op.args[k]].ty]]
          = [k \in DOMAIN op.args |-> compute_type_bitwidth[others[op.args[k]].ty]]
    OBVIOUS
  <1>2. [k \in DOMAIN op.args |-> some[op.args[k]].ty.size]
          = [k \in DOMAIN op.args |-> others[op.args[k]].ty.size]
    OBVIOUS
  <1>3. CASE op.kind = "concat"
    BY <1>1, <1>3 DEF FitsAmong
  <1>4. CASE op.kind = "array_concat"
    BY <1>2, <1>4 DEF FitsAmong
  <1>5. CASE op.kind \notin {"concat", "array_concat"}
    BY <1>5 DEF FitsAmong
  <1> QED
    BY <1>3, <1>4, <1>5

\* It is what Fits says of the types.
LEMMA FitsTypes ==
  ASSUME NEW op, FitsAmong(op, values)
  PROVE  Fits(op, TypesOf(op))
  <1>1. [k \in DOMAIN op.args |-> compute_type_bitwidth[values[op.args[k]].ty]]
          = [k \in DOMAIN op.args |-> compute_type_bitwidth[TypesOf(op)[k]]]
    BY DEF TypesOf
  <1>2. [k \in DOMAIN op.args |-> values[op.args[k]].ty.size]
          = [k \in DOMAIN op.args |-> TypesOf(op)[k].size]
    BY DEF TypesOf
  <1>3. CASE op.kind = "concat"
    BY <1>1, <1>3 DEF FitsAmong, Fits
  <1>4. CASE op.kind = "array_concat"
    BY <1>2, <1>4 DEF FitsAmong, Fits
  <1>5. CASE op.kind \notin {"concat", "array_concat"}
    BY <1>5 DEF Fits
  <1> QED
    BY <1>3, <1>4, <1>5

\* The operands of an insertion are among the values.
LEMMA PlacedStep ==
  ASSUME Placed, NEW op \in Operations, Insert(op)
  PROVE  /\ Placed'
         /\ \A i \in DOMAIN op.args : op.args[i] \in DOMAIN values
         /\ DOMAIN values \subseteq DOMAIN values'
         /\ DOMAIN body' = DOMAIN body \cup {Len(body) + 1}
         /\ body'[Len(body) + 1] = op
         /\ \A k \in DOMAIN body : body'[k] = body[k]
  <1>1. \A i \in DOMAIN op.args : op.args[i] \in DOMAIN values
    BY DEF Insert
  <1>2. PICK n, m : n = Len(values) /\ m = Len(op.results)
    OBVIOUS
  <1>3. /\ n \in Nat /\ m \in Nat /\ DOMAIN values = 1..n /\ DOMAIN op.results = 1..m
        /\ DOMAIN values' = 1..(n + m)
        /\ \A v \in 1..n : values'[v] = values[v]
        /\ \A i \in 1..m : values'[n + i].ty = op.results[i]
        /\ \A v \in DOMAIN values' : v \in 1..n \/ \E i \in 1..m : v = n + i
    BY <1>2, InsertAdds
  <1>4. DOMAIN values \subseteq DOMAIN values'
    BY <1>3
  <1>5. \A v \in DOMAIN values' : values'[v].ty \in Types
    <2>1. \A i \in 1..m : op.results[i] \in Types
      BY <1>3, OperationsAssumption
    <2>2. \A v \in 1..n : values[v].ty \in Types
      BY <1>3 DEF Placed
    <2> QED
      BY <1>3, <2>1, <2>2
  <1>6. body \in Seq(Operations) /\ body' = Append(body, op)
    BY InsertAdds DEF Placed
  <1>7. /\ body' \in Seq(Operations) /\ DOMAIN body' = DOMAIN body \cup {Len(body) + 1}
        /\ body'[Len(body) + 1] = op /\ \A k \in DOMAIN body : body'[k] = body[k]
    BY <1>6
  <1>8. \A k \in DOMAIN body' : \A i \in DOMAIN body'[k].args : body'[k].args[i] \in DOMAIN values'
    <2>1. \A k \in DOMAIN body : \A i \in DOMAIN body[k].args : body[k].args[i] \in DOMAIN values
      BY DEF Placed
    <2> QED
      BY <1>1, <1>4, <1>7, <2>1
  <1>9. values' \in Seq({values'[v] : v \in DOMAIN values'})
    BY InsertAdds
  <1>10. Placed'
    BY <1>5, <1>7, <1>8, <1>9 DEF Placed
  <1> QED
    BY <1>1, <1>4, <1>7, <1>10

\* The premise of WidthExact held before an insertion when it holds after.
LEMMA PremiseBefore ==
  ASSUME Placed, NEW op \in Operations, Insert(op), WidthsKnown', NoneWraps'
  PROVE  /\ WidthsKnown /\ NoneWraps
         /\ op.low < Word
         /\ overflow_checks \/ FitsAmong(op, values)
         /\ \A i \in DOMAIN op.results : Known(op.results[i]) /\ HasElements(op.results[i])
  <1>1. PICK n, m : n = Len(values) /\ m = Len(op.results)
    OBVIOUS
  <1>2. /\ DOMAIN values = 1..n /\ DOMAIN op.results = 1..m
        /\ n \in Nat /\ m \in Nat /\ DOMAIN values' = 1..(n + m)
        /\ \A v \in 1..n : values'[v] = values[v]
        /\ \A i \in 1..m : values'[n + i].ty = op.results[i]
        /\ overflow_checks' = overflow_checks
    BY <1>1, InsertAdds
  <1>3. \A v \in DOMAIN values' : Known(values'[v].ty) /\ HasElements(values'[v].ty)
    BY DEF WidthsKnown, Known, HasElements, IsArray
  <1>4. WidthsKnown
    BY <1>2, <1>3, PlacedStep DEF WidthsKnown
  <1>5. \A i \in 1..m : Known(op.results[i]) /\ HasElements(op.results[i])
    <2>1. \A i \in 1..m : n + i \in DOMAIN values'
      BY <1>2
    <2> QED
      BY <1>2, <1>3, <2>1
  <1>6. overflow_checks' \/ \A k \in DOMAIN body' : FitsAmong(body'[k], values')
    BY DEF NoneWraps, SumFits, FitsAmong
  <1>7. ASSUME NEW o, \A i \in DOMAIN o.args : o.args[i] \in DOMAIN values
        PROVE  FitsAmong(o, values') => FitsAmong(o, values)
    <2>1. \A i \in DOMAIN o.args : values'[o.args[i]] = values[o.args[i]]
      BY <1>2, <1>7
    <2> QED
      BY <2>1, FitsAlike
  <1>8. overflow_checks \/ \A k \in DOMAIN body : FitsAmong(body[k], values)
    <2>1. ASSUME NEW k \in DOMAIN body, FitsAmong(body'[k], values') PROVE FitsAmong(body[k], values)
      <3>1. body'[k] = body[k] /\ \A i \in DOMAIN body[k].args : body[k].args[i] \in DOMAIN values
        BY PlacedStep DEF Placed
      <3> QED
        BY <1>7, <2>1, <3>1
    <2>2. DOMAIN body \subseteq DOMAIN body'
      BY PlacedStep
    <2> QED
      BY <1>2, <1>6, <2>1, <2>2
  <1>9. overflow_checks \/ FitsAmong(op, values)
    <2>1. Len(body) + 1 \in DOMAIN body' /\ body'[Len(body) + 1] = op
          /\ \A i \in DOMAIN op.args : op.args[i] \in DOMAIN values
      BY PlacedStep
    <2> QED
      BY <1>2, <1>6, <1>7, <2>1
  <1>10. op.low < Word /\ \A k \in DOMAIN body : body[k].low < Word
    <2>1. \A k \in DOMAIN body' : body'[k].low < Word
      BY DEF NoneWraps
    <2>2. /\ Len(body) + 1 \in DOMAIN body' /\ body'[Len(body) + 1] = op
          /\ \A k \in DOMAIN body : k \in DOMAIN body' /\ body'[k] = body[k]
      BY PlacedStep
    <2> QED
      BY <2>1, <2>2
  <1>11. NoneWraps
    BY <1>8, <1>10 DEF NoneWraps, SumFits, FitsAmong
  <1> QED
    BY <1>2, <1>4, <1>5, <1>9, <1>10, <1>11

\* An insertion into a body whose values are driven is accepted on what drives them.
LEMMA InsertAccepted ==
  ASSUME Placed, WidthsKnown, AllDriven, NEW op \in Operations, Insert(op),
         op.low < Word, overflow_checks \/ FitsAmong(op, values),
         \A i \in DOMAIN op.results : Known(op.results[i]) /\ HasElements(op.results[i])
  PROVE  Accepted(op, TypesOf(op), BitsOf(op))
  <1>1. op.args \in Seq(Nat) /\ \A i \in DOMAIN op.args : op.args[i] \in DOMAIN values
    BY OperationsAssumption, PlacedStep
  <1>2. PICK in : in = TypesOf(op)
    OBVIOUS
  <1>3. in \in Seq(Types) /\ Len(in) = Len(op.args) /\ DOMAIN in = DOMAIN op.args
    <2>1. \A i \in DOMAIN op.args : values[op.args[i]].ty \in Types
      BY <1>1 DEF Placed
    <2>2. DOMAIN op.args = 1..Len(op.args) /\ Len(op.args) \in Nat
      BY <1>1
    <2>3. in \in [1..Len(op.args) -> Types]
      BY <1>2, <2>1, <2>2 DEF TypesOf
    <2> QED
      BY <2>2, <2>3
  <1>4. \A i \in DOMAIN op.args : in[i] = values[op.args[i]].ty
    BY <1>2 DEF TypesOf
  <1>5. \A i \in DOMAIN in : Known(in[i]) /\ HasElements(in[i])
    BY <1>1, <1>3, <1>4 DEF WidthsKnown
  <1>6. BitsOf(op) = [i \in DOMAIN op.args |-> compute_type_bitwidth[in[i]]]
    <2>1. \A i \in DOMAIN op.args : values[op.args[i]].bits = compute_type_bitwidth[in[i]]
      BY <1>1, <1>4 DEF AllDriven
    <2> QED
      BY <2>1 DEF BitsOf
  <1>7. new(op, in) /\ verify(op, in)
    BY <1>2 DEF Insert, TypesOf
  <1>8. overflow_checks \/ Fits(op, in)
    BY <1>2, FitsTypes
  <1> QED
    BY <1>2, <1>3, <1>5, <1>6, <1>7, <1>8 DEF Accepted

\* An insertion keeps the invariant.
LEMMA InsertIInv ==
  ASSUME IInv, NEW op \in Operations, Insert(op)
  PROVE  IInv'
  <1>1. Placed /\ Placed'
    BY PlacedStep DEF IInv
  <1>2. ASSUME WidthsKnown', NoneWraps' PROVE AllDriven'
    <2>1. /\ WidthsKnown /\ NoneWraps
          /\ op.low < Word
          /\ overflow_checks \/ FitsAmong(op, values)
          /\ \A i \in DOMAIN op.results : Known(op.results[i]) /\ HasElements(op.results[i])
      BY <1>1, <1>2, PremiseBefore
    <2>2. AllDriven
      BY <2>1, WidthExactIs DEF IInv
    <2>3. Driven(op, TypesOf(op), BitsOf(op))
      BY <1>1, <2>1, <2>2, InsertAccepted, AcceptedDriven
    <2>4. PICK n, m : n = Len(values) /\ m = Len(op.results)
      OBVIOUS
    <2>5. /\ DOMAIN values = 1..n /\ DOMAIN op.results = 1..m
          /\ \A v \in 1..n : values'[v] = values[v]
          /\ \A i \in 1..m : /\ values'[n + i].ty = op.results[i]
                             /\ values'[n + i].bits = Reaching(op, TypesOf(op), BitsOf(op))[i]
          /\ \A v \in DOMAIN values' : v \in 1..n \/ \E i \in 1..m : v = n + i
      BY <1>1, <2>4, InsertAdds
    <2>6. \A v \in 1..n : values'[v].bits = compute_type_bitwidth[values'[v].ty]
      BY <2>2, <2>5 DEF AllDriven
    <2>7. \A i \in 1..m : values'[n + i].bits = compute_type_bitwidth[values'[n + i].ty]
      BY <2>3, <2>5 DEF Driven
    <2> QED
      BY <2>5, <2>6, <2>7 DEF AllDriven
  <1>3. WidthExact'
    <2>1. WidthExact' <=> (WidthsKnown' /\ NoneWraps' => AllDriven')
      BY DEF WidthExact, WidthsKnown, NoneWraps, AllDriven, Known
    <2> QED
      BY <1>2, <2>1
  <1> QED
    BY <1>1, <1>3 DEF IInv

\* The body of a module can only be built so that every value is driven by exactly the
\* bits its type announces, whatever the word, the types and the operations, when the
\* width of every type is known, no array is empty and no unchecked addition wraps: the
\* verifiers of src/hw/ops.rs and compute_type_bitwidth agree about the layout.
THEOREM WidthsExact == Spec => []WidthExact
  <1>1. Init => IInv
    BY InitIInv
  <1>2. IInv /\ [Next]_vars => IInv'
    <2> SUFFICES ASSUME IInv, [Next]_vars PROVE IInv'
      OBVIOUS
    <2>1. CASE UNCHANGED vars
      BY <2>1 DEF IInv, Placed, WidthExact, SumFits, HasElements, IsArray, vars
    <2>2. CASE Next
      BY <2>2, InsertIInv DEF Next
    <2> QED
      BY <2>1, <2>2
  <1>3. IInv => WidthExact
    BY DEF IInv
  <1> QED
    BY <1>1, <1>2, <1>3, PTL DEF Spec
=============================================================================
