-------------------------- MODULE CombCyclesProofs --------------------------
(***************************************************************************)
(* Proofs about CombCycles, for every block size, operand limit and choice *)
(* of opids.  SearchInv is the inductive invariant; the verdict of the     *)
(* search, in both directions, follows from it.                            *)
(***************************************************************************)
EXTENDS CombCycles, SequenceTheorems, FiniteSetTheorems, WellFoundedInduction, TLAPS

\* A set of positive numbers with a bound has a least element.
LEMMA LeastElement ==
  ASSUME NEW n \in Nat, NEW T \in SUBSET (1..n), T # {}
  PROVE  \E x \in T : \A y \in T : x <= y
  <1> DEFINE S == 1..n
             below == {1..x : x \in T}
  <1>1. IsWellFoundedOn(StrictSubsetOrdering(S), SUBSET S)
    <2>1. IsFiniteSet(S)
      BY FS_Interval
    <2>2. FiniteSubsetsOf(S) = SUBSET S
      BY <2>1, FS_FiniteSubsetsOfFinite
    <2> QED
      BY <2>2, FS_StrictSubsetOrderingWellFounded
  <1>2. below \subseteq SUBSET S
    <2> SUFFICES ASSUME NEW x \in T PROVE 1..x \subseteq S
      OBVIOUS
    <2> QED
      OBVIOUS
  <1>3. below # {}
    OBVIOUS
  <1>4. PICK low \in below : \A y \in below : ~(<<y, low>> \in StrictSubsetOrdering(S))
    <2> HIDE DEF below
    <2> QED
      BY <1>1, <1>2, <1>3, WFMin
  <1>5. PICK x \in T : low = 1..x
    OBVIOUS
  <1>6. ASSUME NEW y \in T, y < x PROVE FALSE
    <2>1. 1..y \in below /\ 1..y \subseteq low /\ 1..y # low
      BY <1>5, <1>6
    <2> QED
      BY <1>2, <1>4, <2>1 DEF StrictSubsetOrdering
  <1> QED
    BY <1>6

\* Every operand list is a sequence of defining operations.
LEMMA OperandListsAreSeqs == OperandLists \subseteq Seq(Ops \cup {Arg})
  BY SizeAssumption, SeqDef DEF OperandLists

\* The combinational operations are operations of the block.
LEMMA CombSetIsOps == comb_set \subseteq Ops
  BY DEF comb_set, CombSet

\* The innermost call of a non-empty stack is an operation, and the last
\* element of the stack.
LEMMA TopIsOp ==
  ASSUME TypeOK, stack # << >>
  PROVE  /\ Len(stack) \in Nat \ {0}
         /\ Top = stack[Len(stack)]
         /\ Top \in Ops
         /\ \A i \in 1..Len(stack) : stack[i] \in Ops
  <1>1. stack \in Seq(Ops)
    BY DEF TypeOK
  <1>2. Len(stack) \in Nat \ {0}
    BY <1>1, EmptySeq
  <1>3. \A i \in 1..Len(stack) : stack[i] \in Ops
    BY <1>1
  <1> QED
    BY <1>2, <1>3 DEF Top

-----------------------------------------------------------------------------
(* SearchInv holds initially.                                               *)

LEMMA InitInv == Init => SearchInv
  <1> SUFFICES ASSUME Init PROVE SearchInv
    OBVIOUS
  <1>1. TypeOK
    <2>1. operands \in [Ops -> Seq(Ops \cup {Arg})]
      BY OperandListsAreSeqs DEF Init
    <2>2. \A o \in Ops : Len(operands[o]) \in Nat
      BY <2>1
    <2>3. stack \in Seq(Ops)
      BY DEF Init
    <2> QED
      BY <2>1, <2>2, <2>3, SizeAssumption DEF Init, TypeOK
  <1>2. stack = << >> /\ Len(stack) = 0
    BY DEF Init
  <1>3. PathIsVisiting
    BY <1>2 DEF Init, PathIsVisiting
  <1>4. PathFollowsOperands
    BY <1>2 DEF PathFollowsOperands
  <1>5. PassedIsChecked
    BY <1>2, CombSetIsOps DEF Init, PassedIsChecked, Ops
  <1>6. VisitedIsAcyclic
    BY DEF Init, VisitedIsAcyclic, HasLoop
  <1>7. ErrorIsOnPath
    BY DEF Init, ErrorIsOnPath
  <1> QED
    BY <1>1, <1>3, <1>4, <1>5, <1>6, <1>7 DEF SearchInv

-----------------------------------------------------------------------------
(* Every step preserves SearchInv.                                          *)

\* Steps that leave the IR alone leave every operand reading alone.
LEMMA SkipRootInv == SearchInv /\ SkipRoot => SearchInv'
  <1> SUFFICES ASSUME SearchInv, SkipRoot PROVE SearchInv'
    OBVIOUS
  <1> USE DEF SearchInv, SkipRoot, ir
  <1>1. TypeOK'
    BY SizeAssumption DEF TypeOK
  <1>2. PathIsVisiting'
    BY DEF PathIsVisiting, comb_set
  <1>3. PathFollowsOperands'
    BY DEF PathFollowsOperands
  <1>4. PassedIsChecked'
    <2>1. \A o \in comb_set : o < root + 1 => state[o] # "none"
      BY CombSetIsOps DEF PassedIsChecked, TypeOK, Ops
    <2> QED
      BY <2>1 DEF PassedIsChecked, comb_set
  <1>5. VisitedIsAcyclic'
    BY DEF VisitedIsAcyclic
  <1>6. ErrorIsOnPath'
    BY DEF ErrorIsOnPath
  <1> QED
    BY <1>1, <1>2, <1>3, <1>4, <1>5, <1>6

LEMMA AcceptInv == SearchInv /\ Accept => SearchInv'
  <1> SUFFICES ASSUME SearchInv, Accept PROVE SearchInv'
    OBVIOUS
  <1> USE DEF SearchInv, Accept, ir
  <1>1. TypeOK'
    BY DEF TypeOK
  <1>2. PathIsVisiting'
    BY DEF PathIsVisiting, comb_set
  <1>3. PathFollowsOperands'
    BY DEF PathFollowsOperands
  <1>4. PassedIsChecked'
    <2>1. root = N + 1
      BY SizeAssumption DEF TypeOK
    <2> QED
      BY <2>1 DEF PassedIsChecked, comb_set
  <1>5. VisitedIsAcyclic'
    BY DEF VisitedIsAcyclic
  <1>6. ErrorIsOnPath'
    BY DEF ErrorIsOnPath
  <1> QED
    BY <1>1, <1>2, <1>3, <1>4, <1>5, <1>6

LEMMA FoundCycleInv == SearchInv /\ FoundCycle => SearchInv'
  <1> SUFFICES ASSUME SearchInv, FoundCycle PROVE SearchInv'
    OBVIOUS
  <1> USE DEF SearchInv, FoundCycle, Searching, ir
  <1>1. TypeOK'
    BY DEF TypeOK
  <1>2. PathIsVisiting'
    BY DEF PathIsVisiting, comb_set
  <1>3. PathFollowsOperands'
    BY DEF PathFollowsOperands
  <1>4. PassedIsChecked'
    BY DEF PassedIsChecked, comb_set
  <1>5. VisitedIsAcyclic'
    BY DEF VisitedIsAcyclic
  <1>6. ErrorIsOnPath'
    BY DEF ErrorIsOnPath, OnPath, OperandsLeft, DefOp, Top, comb_set
  <1> QED
    BY <1>1, <1>2, <1>3, <1>4, <1>5, <1>6

LEMMA VisitRootInv == SearchInv /\ VisitRoot => SearchInv'
  <1> SUFFICES ASSUME SearchInv, VisitRoot PROVE SearchInv'
    OBVIOUS
  <1> USE DEF SearchInv, VisitRoot, ir
  <1>1. root \in Ops /\ state' = [state EXCEPT ![root] = "visiting"]
    BY CombSetIsOps
  <1>2. stack' = <<root>> /\ Len(stack') = 1 /\ stack'[1] = root
    OBVIOUS
  <1>3. \A o \in Ops : state[o] # "visiting"
    <2>1. Len(stack) = 0
      OBVIOUS
    <2> QED
      BY <2>1 DEF PathIsVisiting
  <1>4. TypeOK'
    <2>1. stack' \in Seq(Ops)
      BY <1>1, <1>2
    <2> QED
      BY <2>1, <1>1, SizeAssumption DEF TypeOK, Ops
  <1>5. PathIsVisiting'
    <2>1. \A o \in Ops : state'[o] = "visiting" <=> o = root
      BY <1>1, <1>3 DEF TypeOK
    <2>2. \A o \in Ops : state'[o] # "none" => o \in comb_set
      BY <1>1 DEF TypeOK, PathIsVisiting
    <2> QED
      BY <1>2, <2>1, <2>2 DEF PathIsVisiting, comb_set
  <1>6. PathFollowsOperands'
    BY <1>2 DEF PathFollowsOperands
  <1>7. PassedIsChecked'
    <2>1. \A o \in Ops : state'[o] = "visited" <=> state[o] = "visited"
      BY <1>1 DEF TypeOK
    <2>2. \A o \in comb_set : o < root' => state'[o] # "none"
      BY <1>1, CombSetIsOps DEF PassedIsChecked, TypeOK, Ops
    <2>3. cursor[root] = 1
      BY <1>1 DEF PassedIsChecked
    <2>4. \A o \in Ops : state'[o] = "none" => cursor'[o] = 1
      BY <1>1 DEF PassedIsChecked, TypeOK
    <2>5. \A o \in Ops : state'[o] = "visited" =>
            \A d \in Inputs(operands, o) \cap comb_set : state'[d] = "visited"
      BY <2>1, CombSetIsOps DEF PassedIsChecked
    <2> QED
      BY <1>2, <2>2, <2>3, <2>4, <2>5 DEF PassedIsChecked, comb_set
  <1>8. VisitedIsAcyclic'
    <2>1. {o \in Ops : state'[o] = "visited"} = {o \in Ops : state[o] = "visited"}
      BY <1>1 DEF TypeOK
    <2> QED
      BY <2>1 DEF VisitedIsAcyclic
  <1>9. ErrorIsOnPath'
    BY DEF ErrorIsOnPath
  <1> QED
    BY <1>4, <1>5, <1>6, <1>7, <1>8, <1>9

LEMMA SkipOperandInv == SearchInv /\ SkipOperand => SearchInv'
  <1> SUFFICES ASSUME SearchInv, SkipOperand PROVE SearchInv'
    OBVIOUS
  <1> USE DEF SearchInv, SkipOperand, Searching, ir
  <1>1. /\ Len(stack) \in Nat \ {0} /\ Top = stack[Len(stack)] /\ Top \in Ops
        /\ \A i \in 1..Len(stack) : stack[i] \in Ops
    BY TopIsOp
  <1>2. cursor[Top] \in Nat \ {0} /\ cursor[Top] <= Len(operands[Top])
    BY <1>1 DEF TypeOK, OperandsLeft
  <1>3. Len(operands[Top]) \in Nat
    BY <1>1 DEF TypeOK
  <1>4. cursor' = [cursor EXCEPT ![Top] = cursor[Top] + 1]
    OBVIOUS
  <1>5. \A i \in 1..(Len(stack) - 1) : stack[i] # Top
    BY <1>1 DEF PathIsVisiting
  <1>6. TypeOK'
    <2>1. cursor' \in [Ops -> Nat \ {0}]
      <3>1. cursor[Top] + 1 \in Nat \ {0}
        BY <1>2
      <3>2. cursor \in [Ops -> Nat \ {0}]
        BY DEF TypeOK
      <3> HIDE DEF SearchInv, SkipOperand
      <3> QED
        BY <1>4, <3>1, <3>2
    <2>2. \A o \in Ops : cursor'[o] <= Len(operands[o]) + 1
      BY <1>1, <1>2, <1>3, <1>4 DEF TypeOK
    <2> QED
      BY <2>1, <2>2 DEF TypeOK
  <1>7. PathIsVisiting'
    BY DEF PathIsVisiting, comb_set
  <1>8. PathFollowsOperands'
    <2>1. \A i \in 1..(Len(stack) - 1) :
            stack[i] \in Ops /\ cursor'[stack[i]] = cursor[stack[i]]
      BY <1>1, <1>4, <1>5 DEF TypeOK
    <2> QED
      BY <2>1 DEF PathFollowsOperands
  <1>9. PassedIsChecked'
    <2>1. ASSUME NEW i \in 1..Len(stack), NEW k \in 1..(cursor'[stack[i]] - 1)
          PROVE  \/ operands[stack[i]][k] \notin comb_set
                 \/ state[operands[stack[i]][k]] = "visited"
                 \/ i < Len(stack) /\ k = cursor'[stack[i]] - 1
      <3>1. CASE i = Len(stack)
        <4>1. stack[i] = Top /\ cursor'[stack[i]] = cursor[Top] + 1
          BY <1>1, <1>4, <3>1 DEF TypeOK
        <4>2. k \in 1..cursor[Top]
          BY <4>1, <1>2
        <4>3. CASE k = cursor[Top]
          BY <4>1, <4>3 DEF DefOp, Checked
        <4>4. CASE k # cursor[Top]
          <5>1. k \in 1..(cursor[stack[i]] - 1)
            BY <4>1, <4>2, <4>4, <1>2
          <5> QED
            BY <5>1, <3>1, <1>1 DEF PassedIsChecked
        <4> QED
          BY <4>3, <4>4
      <3>2. CASE i # Len(stack)
        <4>1. stack[i] # Top
          BY <1>1, <1>5, <3>2
        <4>2. cursor'[stack[i]] = cursor[stack[i]]
          BY <1>1, <1>4, <4>1 DEF TypeOK
        <4> QED
          BY <4>2 DEF PassedIsChecked
      <3> QED
        BY <3>1, <3>2
    <2>2. state[Top] = "visiting"
      BY <1>1 DEF PathIsVisiting
    <2>3. \A o \in Ops : state'[o] = "none" => cursor'[o] = 1
      BY <1>4, <2>2 DEF PassedIsChecked, TypeOK
    <2> QED
      BY <2>1, <2>3 DEF PassedIsChecked, comb_set
  <1>10. VisitedIsAcyclic'
    BY DEF VisitedIsAcyclic
  <1>11. ErrorIsOnPath'
    BY DEF ErrorIsOnPath
  <1> QED
    BY <1>6, <1>7, <1>8, <1>9, <1>10, <1>11

LEMMA DescendInv == SearchInv /\ Descend => SearchInv'
  <1> SUFFICES ASSUME SearchInv, Descend PROVE SearchInv'
    OBVIOUS
  <1> USE DEF SearchInv, Descend, Searching, ir
  <1> DEFINE n == Len(stack)
  <1>1. /\ n \in Nat \ {0} /\ Top = stack[n] /\ Top \in Ops
        /\ \A i \in 1..n : stack[i] \in Ops
    BY TopIsOp
  <1>2. cursor[Top] \in Nat \ {0} /\ cursor[Top] <= Len(operands[Top])
    BY <1>1 DEF TypeOK, OperandsLeft
  <1>3. DefOp \in Ops /\ DefOp \in comb_set /\ state[DefOp] = "none"
    BY CombSetIsOps DEF Fresh
  <1>4. cursor' = [cursor EXCEPT ![Top] = cursor[Top] + 1]
    OBVIOUS
  <1>5. /\ stack' \in Seq(Ops) /\ Len(stack') = n + 1 /\ stack'[n + 1] = DefOp
        /\ \A i \in 1..n : stack'[i] = stack[i]
    <2>1. stack \in Seq(Ops)
      BY DEF TypeOK
    <2> QED
      BY <2>1, <1>3, AppendProperties
  <1>6. state[Top] = "visiting"
    BY <1>1 DEF PathIsVisiting
  <1>7. DefOp # Top
    BY <1>3, <1>6
  <1>8. /\ cursor'[Top] = cursor[Top] + 1
        /\ \A o \in Ops \ {Top} : cursor'[o] = cursor[o]
    BY <1>1, <1>4 DEF TypeOK
  <1>9. \A o \in Ops : state'[o] = IF o = DefOp THEN "visiting" ELSE state[o]
    BY DEF TypeOK
  <1>10. TypeOK'
    <2>1. cursor' \in [Ops -> Nat \ {0}]
      <3>1. cursor[Top] + 1 \in Nat \ {0}
        BY <1>2
      <3>2. cursor \in [Ops -> Nat \ {0}]
        BY DEF TypeOK
      <3> HIDE DEF SearchInv, Descend
      <3> QED
        BY <1>4, <3>1, <3>2
    <2>2. \A o \in Ops : cursor'[o] <= Len(operands[o]) + 1
      BY <1>1, <1>2, <1>8 DEF TypeOK
    <2> QED
      BY <2>1, <2>2, <1>5 DEF TypeOK
  <1>11. PathIsVisiting'
    <2>1. \A i \in 1..n : stack[i] # DefOp
      BY <1>1, <1>3 DEF PathIsVisiting
    <2>2. \A i, j \in 1..(n + 1) : stack'[i] = stack'[j] => i = j
      <3> TAKE i, j \in 1..(n + 1)
      <3>1. CASE i \in 1..n /\ j \in 1..n
        BY <3>1, <1>5 DEF PathIsVisiting
      <3>2. CASE i = n + 1 /\ j = n + 1
        BY <3>2
      <3>3. CASE (i = n + 1 /\ j \in 1..n) \/ (i \in 1..n /\ j = n + 1)
        BY <3>3, <2>1, <1>5
      <3> QED
        BY <3>1, <3>2, <3>3, <1>1
    <2>3. ASSUME NEW o \in Ops
          PROVE  state'[o] = "visiting" <=> \E i \in 1..(n + 1) : stack'[i] = o
      <3>1. CASE o = DefOp
        BY <3>1, <1>1, <1>5, <1>9
      <3>2. CASE o # DefOp
        <4>1. state'[o] = "visiting" <=> \E i \in 1..n : stack[i] = o
          BY <3>2, <1>9 DEF PathIsVisiting
        <4>2. (\E i \in 1..n : stack[i] = o) => \E i \in 1..(n + 1) : stack'[i] = o
          BY <1>1, <1>5
        <4>3. ASSUME NEW i \in 1..(n + 1), stack'[i] = o
              PROVE  i \in 1..n /\ stack[i] = o
          BY <4>3, <3>2, <1>1, <1>5
        <4> QED
          BY <4>1, <4>2, <4>3
      <3> QED
        BY <3>1, <3>2
    <2>4. \A o \in Ops : state'[o] # "none" => o \in comb_set
      BY <1>3, <1>9 DEF PathIsVisiting
    <2>5. comb_set' = comb_set
      BY DEF comb_set
    <2> QED
      BY <2>2, <2>3, <2>4, <2>5, <1>5 DEF PathIsVisiting
  <1>12. PathFollowsOperands'
    <2> SUFFICES ASSUME NEW i \in 1..n
                 PROVE  /\ cursor'[stack'[i]] > 1
                        /\ operands[stack'[i]][cursor'[stack'[i]] - 1] = stack'[i + 1]
      BY <1>1, <1>5 DEF PathFollowsOperands
    <2>1. CASE i = n
      <3>1. cursor'[stack'[i]] = cursor[Top] + 1 /\ stack'[i] = Top
        BY <2>1, <1>1, <1>5, <1>8
      <3>2. cursor[Top] \in Nat \ {0}
        BY <1>2
      <3>3. stack'[i + 1] = operands[Top][cursor[Top]]
        BY <2>1, <1>5 DEF DefOp
      <3> HIDE DEF SearchInv, Descend, n
      <3>4. cursor'[stack'[i]] - 1 = cursor[Top] /\ cursor'[stack'[i]] > 1
        BY <3>1, <3>2
      <3> QED
        BY <3>1, <3>3, <3>4
    <2>2. CASE i # n
      <3>1. i \in 1..(n - 1) /\ i + 1 \in 1..n
        BY <2>2, <1>1
      <3>2. stack[i] # Top /\ stack[i] \in Ops
        BY <2>2, <1>1 DEF PathIsVisiting
      <3>3. cursor'[stack'[i]] = cursor[stack[i]] /\ stack'[i] = stack[i]
        BY <3>2, <1>5, <1>8
      <3>4. /\ cursor[stack[i]] > 1
            /\ operands[stack[i]][cursor[stack[i]] - 1] = stack[i + 1]
        BY <3>1 DEF PathFollowsOperands
      <3>5. stack'[i + 1] = stack[i + 1]
        BY <3>1, <1>5
      <3> HIDE DEF SearchInv, Descend, n
      <3> QED
        BY <3>3, <3>4, <3>5
    <2> QED
      BY <2>1, <2>2
  <1>13. PassedIsChecked'
    <2>1. \A o \in Ops : state'[o] = "visited" <=> state[o] = "visited"
      BY <1>3, <1>9
    <2>2. \A o \in Ops : state[o] # "none" => state'[o] # "none"
      BY <1>9
    <2>3. ASSUME NEW i \in 1..(n + 1), NEW k \in 1..(cursor'[stack'[i]] - 1)
          PROVE  \/ operands[stack'[i]][k] \notin comb_set
                 \/ state'[operands[stack'[i]][k]] = "visited"
                 \/ i < n + 1 /\ k = cursor'[stack'[i]] - 1
      <3>1. CASE i = n + 1
        <4>1. cursor'[stack'[i]] = 1
          BY <3>1, <1>3, <1>5, <1>7, <1>8 DEF PassedIsChecked
        <4> QED
          BY <4>1
      <3>2. CASE i = n
        <4>1. stack'[i] = Top /\ cursor'[stack'[i]] = cursor[Top] + 1
          BY <3>2, <1>1, <1>5, <1>8
        <4>2. CASE k = cursor[Top]
          BY <4>1, <4>2, <3>2, <1>1, <1>2
        <4>3. CASE k # cursor[Top]
          <5>1. k \in 1..(cursor[stack[n]] - 1)
            BY <4>1, <4>3, <1>1, <1>2
          <5>2. operands[Top][k] \notin comb_set \/ state[operands[Top][k]] = "visited"
            BY <5>1, <1>1 DEF PassedIsChecked
          <5> QED
            BY <5>2, <4>1, <2>1, CombSetIsOps
        <4> QED
          BY <4>2, <4>3
      <3>3. CASE i \in 1..(n - 1)
        <4>1. i \in 1..n /\ i # n /\ i < n /\ i < n + 1
          BY <3>3, <1>1
        <4>2. stack[i] # Top /\ stack[i] \in Ops
          BY <4>1, <1>1 DEF PathIsVisiting
        <4>3. cursor'[stack'[i]] = cursor[stack[i]] /\ stack'[i] = stack[i]
          BY <4>1, <4>2, <1>5, <1>8
        <4>4. \/ operands[stack[i]][k] \notin comb_set
              \/ state[operands[stack[i]][k]] = "visited"
              \/ k = cursor[stack[i]] - 1
          BY <4>1, <4>3 DEF PassedIsChecked
        <4> QED
          BY <4>1, <4>3, <4>4, <2>1, CombSetIsOps
      <3> QED
        BY <3>1, <3>2, <3>3, <1>1
    <2>4. \A o \in Ops : state'[o] = "none" => cursor'[o] = 1
      BY <1>6, <1>8, <1>9 DEF PassedIsChecked
    <2>5. \A o \in Ops : state'[o] = "visited" =>
            \A d \in Inputs(operands, o) \cap comb_set : state'[d] = "visited"
      BY <2>1, CombSetIsOps DEF PassedIsChecked
    <2>6. \A o \in comb_set : o < root => state'[o] # "none"
      BY <2>2, CombSetIsOps DEF PassedIsChecked
    <2>7. comb_set' = comb_set
      BY DEF comb_set
    <2> QED
      BY <2>3, <2>4, <2>5, <2>6, <2>7, <1>5 DEF PassedIsChecked
  <1>14. VisitedIsAcyclic'
    <2>1. {o \in Ops : state'[o] = "visited"} = {o \in Ops : state[o] = "visited"}
      BY <1>3, <1>9
    <2> QED
      BY <2>1 DEF VisitedIsAcyclic
  <1>15. ErrorIsOnPath'
    BY DEF ErrorIsOnPath
  <1> QED
    BY <1>10, <1>11, <1>12, <1>13, <1>14, <1>15

\* Adding to an acyclic set S an operation whose inputs all lie in S, or
\* outside the larger set, closes no loop.
LEMMA ExtendAcyclic ==
  ASSUME NEW S, NEW t, t \notin S,
         ~HasLoop(operands, S),
         Inputs(operands, t) \cap (S \cup {t}) \subseteq S,
         \A o \in S : t \notin Inputs(operands, o)
  PROVE  ~HasLoop(operands, S \cup {t})
  <1> SUFFICES ASSUME NEW L \in SUBSET (S \cup {t}), L # {},
                      \A o \in L : Inputs(operands, o) \cap L # {}
               PROVE  FALSE
    BY DEF HasLoop
  <1>1. L \ {t} # {}
    <2> SUFFICES ASSUME L = {t} PROVE FALSE
      OBVIOUS
    <2>1. t \in Inputs(operands, t)
      OBVIOUS
    <2> QED
      BY <2>1
  <1>2. \A o \in L \ {t} : Inputs(operands, o) \cap (L \ {t}) # {}
    OBVIOUS
  <1>3. L \ {t} \in SUBSET S
    OBVIOUS
  <1> QED
    BY <1>1, <1>2, <1>3 DEF HasLoop

LEMMA ReturnInv == SearchInv /\ Return => SearchInv'
  <1> SUFFICES ASSUME SearchInv, Return PROVE SearchInv'
    OBVIOUS
  <1> USE DEF SearchInv, Return, Searching, ir
  <1> DEFINE n == Len(stack)
  <1>1. /\ n \in Nat \ {0} /\ Top = stack[n] /\ Top \in Ops
        /\ \A i \in 1..n : stack[i] \in Ops
    BY TopIsOp
  <1>2. /\ cursor[Top] \in Nat \ {0} /\ Len(operands[Top]) \in Nat
        /\ cursor[Top] = Len(operands[Top]) + 1
    BY <1>1 DEF TypeOK, OperandsLeft
  <1>3. /\ stack' \in Seq(Ops) /\ Len(stack') = n - 1
        /\ \A i \in 1..(n - 1) : stack'[i] = stack[i]
    <2>1. stack \in Seq(Ops) /\ n - 1 \in Int /\ 1 \in Int
      BY <1>1 DEF TypeOK
    <2>2. \A i \in 1..(n - 1) : stack[i] \in Ops
      BY <1>1
    <2>3. n - 1 \in Nat
      BY <1>1
    <2>4. stack' = SubSeq(stack, 1, n - 1)
      OBVIOUS
    <2>5. /\ SubSeq(stack, 1, n - 1) \in Seq(Ops)
          /\ Len(SubSeq(stack, 1, n - 1)) =
               IF 1 <= n - 1 THEN n - 1 - 1 + 1 ELSE 0
          /\ \A i \in 1..(n - 1 - 1 + 1) : SubSeq(stack, 1, n - 1)[i] = stack[1 + i - 1]
      <3> HIDE DEF SearchInv, Return, n
      <3> QED
        BY <2>1, <2>2, SubSeqProperties
    <2> HIDE DEF SearchInv, Return, n
    <2> QED
      BY <2>3, <2>4, <2>5
  <1>4. state[Top] = "visiting"
    BY <1>1 DEF PathIsVisiting
  <1>5. \A o \in Ops : state'[o] = IF o = Top THEN "visited" ELSE state[o]
    BY DEF TypeOK
  <1>6. \A d \in Inputs(operands, Top) \cap comb_set : state[d] = "visited"
    <2> SUFFICES ASSUME NEW k \in 1..Len(operands[Top]),
                        operands[Top][k] \in comb_set
                 PROVE  state[operands[Top][k]] = "visited"
      BY DEF Inputs
    <2>1. k \in 1..(cursor[stack[n]] - 1) /\ n \in 1..n
      BY <1>1, <1>2
    <2> QED
      BY <2>1, <1>1 DEF PassedIsChecked
  <1>7. TypeOK'
    BY <1>3 DEF TypeOK
  <1>8. PathIsVisiting'
    <2>1. \A i, j \in 1..(n - 1) : stack'[i] = stack'[j] => i = j
      BY <1>1, <1>3 DEF PathIsVisiting
    <2>2. ASSUME NEW o \in Ops
          PROVE  state'[o] = "visiting" <=> \E i \in 1..(n - 1) : stack'[i] = o
      <3>1. CASE o = Top
        <4>1. \A i \in 1..(n - 1) : stack[i] # Top
          BY <1>1 DEF PathIsVisiting
        <4> QED
          BY <3>1, <4>1, <1>3, <1>5
      <3>2. CASE o # Top
        <4>1. state'[o] = "visiting" <=> \E i \in 1..n : stack[i] = o
          BY <3>2, <1>5 DEF PathIsVisiting
        <4>2. (\E i \in 1..n : stack[i] = o) <=> \E i \in 1..(n - 1) : stack'[i] = o
          BY <3>2, <1>1, <1>3
        <4> QED
          BY <4>1, <4>2
      <3> QED
        BY <3>1, <3>2
    <2>3. \A o \in Ops : state'[o] # "none" => o \in comb_set
      BY <1>4, <1>5 DEF PathIsVisiting
    <2>4. comb_set' = comb_set
      BY DEF comb_set
    <2> QED
      BY <2>1, <2>2, <2>3, <2>4, <1>3 DEF PathIsVisiting
  <1>9. PathFollowsOperands'
    <2> SUFFICES ASSUME NEW i \in 1..(n - 2)
                 PROVE  /\ cursor[stack'[i]] > 1
                        /\ operands[stack'[i]][cursor[stack'[i]] - 1] = stack'[i + 1]
      BY <1>1, <1>3 DEF PathFollowsOperands
    <2>1. i \in 1..(n - 1) /\ i + 1 \in 1..(n - 1)
      BY <1>1
    <2>2. stack'[i] = stack[i] /\ stack'[i + 1] = stack[i + 1]
      BY <2>1, <1>3
    <2>3. /\ cursor[stack[i]] > 1
          /\ operands[stack[i]][cursor[stack[i]] - 1] = stack[i + 1]
      BY <2>1 DEF PathFollowsOperands
    <2> QED
      BY <2>2, <2>3
  <1>10. PassedIsChecked'
    <2>1. \A o \in Ops : state[o] = "visited" => state'[o] = "visited"
      BY <1>5
    <2>2. \A o \in Ops : state[o] # "none" => state'[o] # "none"
      BY <1>5
    <2>3. ASSUME NEW i \in 1..(n - 1), NEW k \in 1..(cursor[stack'[i]] - 1)
          PROVE  \/ operands[stack'[i]][k] \notin comb_set
                 \/ state'[operands[stack'[i]][k]] = "visited"
                 \/ i < n - 1 /\ k = cursor[stack'[i]] - 1
      <3>1. i \in 1..n /\ stack'[i] = stack[i]
        BY <1>1, <1>3
      <3>2. \/ operands[stack[i]][k] \notin comb_set
            \/ state[operands[stack[i]][k]] = "visited"
            \/ k = cursor[stack[i]] - 1
        BY <3>1 DEF PassedIsChecked
      <3>3. CASE i = n - 1 /\ k = cursor[stack[i]] - 1
        <4>1. n - 1 \in 1..(Len(stack) - 1) /\ n - 1 + 1 = n
          BY <3>3, <1>1
        <4>2. operands[stack[n - 1]][cursor[stack[n - 1]] - 1] = stack[n]
          BY <4>1 DEF PathFollowsOperands
        <4>3. operands[stack[i]][k] = Top
          BY <4>2, <3>3, <1>1
        <4> QED
          BY <3>1, <4>3, <1>1, <1>5
      <3>4. CASE i < n - 1 /\ k = cursor[stack[i]] - 1
        BY <3>1, <3>4
      <3>5. CASE k # cursor[stack[i]] - 1
        BY <3>1, <3>2, <3>5, <2>1, CombSetIsOps
      <3> QED
        BY <3>3, <3>4, <3>5, <1>1
    <2>4. \A o \in Ops : state'[o] = "none" => cursor[o] = 1
      BY <1>5 DEF PassedIsChecked
    <2>5. \A o \in Ops : state'[o] = "visited" =>
            \A d \in Inputs(operands, o) \cap comb_set : state'[d] = "visited"
      BY <1>5, <1>6, <2>1, CombSetIsOps DEF PassedIsChecked
    <2>6. \A o \in comb_set : o < root => state'[o] # "none"
      BY <2>2, CombSetIsOps DEF PassedIsChecked
    <2>7. comb_set' = comb_set
      BY DEF comb_set
    <2> QED
      BY <2>3, <2>4, <2>5, <2>6, <2>7, <1>3 DEF PassedIsChecked
  <1>11. VisitedIsAcyclic'
    <2> DEFINE S == {o \in Ops : state[o] = "visited"}
    <2>1. {o \in Ops : state'[o] = "visited"} = S \cup {Top}
      BY <1>1, <1>5
    <2>2. Top \notin S /\ Top \in comb_set
      BY <1>1, <1>4 DEF PathIsVisiting
    <2>3. S \subseteq comb_set
      BY DEF PathIsVisiting
    <2>4. Inputs(operands, Top) \cap (S \cup {Top}) \subseteq S
      BY <1>6, <2>2, <2>3, CombSetIsOps
    <2>5. \A o \in S : Top \notin Inputs(operands, o)
      BY <1>4, <2>2 DEF PassedIsChecked
    <2>6. ~HasLoop(operands, S \cup {Top})
      BY <2>2, <2>4, <2>5, ExtendAcyclic DEF VisitedIsAcyclic
    <2> QED
      BY <2>1, <2>6 DEF VisitedIsAcyclic
  <1>12. ErrorIsOnPath'
    BY DEF ErrorIsOnPath
  <1> QED
    BY <1>7, <1>8, <1>9, <1>10, <1>11, <1>12

LEMMA NextInv == SearchInv /\ [Next]_vars => SearchInv'
  <1> SUFFICES ASSUME SearchInv, [Next]_vars PROVE SearchInv'
    OBVIOUS
  <1>1. CASE SkipRoot
    BY <1>1, SkipRootInv
  <1>2. CASE VisitRoot
    BY <1>2, VisitRootInv
  <1>3. CASE Accept
    BY <1>3, AcceptInv
  <1>4. CASE SkipOperand
    BY <1>4, SkipOperandInv
  <1>5. CASE FoundCycle
    BY <1>5, FoundCycleInv
  <1>6. CASE Descend
    BY <1>6, DescendInv
  <1>7. CASE Return
    BY <1>7, ReturnInv
  <1>8. CASE UNCHANGED vars
    BY <1>8 DEF vars, ir, SearchInv, TypeOK, PathIsVisiting,
      PathFollowsOperands, PassedIsChecked, VisitedIsAcyclic, ErrorIsOnPath,
      comb_set, OperandsLeft, DefOp, Top
  <1> QED
    BY <1>1, <1>2, <1>3, <1>4, <1>5, <1>6, <1>7, <1>8 DEF Next, Returned

\* The invariant of the search holds in every reachable state: what state_map
\* and the recursion of dfs_check_cycles mean at each moment.
THEOREM SearchInvariant == Spec => []SearchInv
  BY InitInv, NextInv, PTL DEF Spec, SafetySpec

\* check_comb_cycles never leaves the ranges its types and loops allow.
THEOREM TypeCorrect == Spec => []TypeOK
  <1>1. SearchInv => TypeOK
    BY DEF SearchInv
  <1> QED
    BY <1>1, SearchInvariant, PTL

-----------------------------------------------------------------------------
(* Each operation is searched at most once.                                 *)

\* state_map only moves forward in one step.
LEMMA NextSearchesOnce ==
  ASSUME SearchInv, [Next]_vars
  PROVE  \A o \in Ops : /\ state[o] # "none" => state'[o] # "none"
                        /\ state[o] = "visited" => state'[o] = "visited"
  <1>1. state \in [Ops -> {"none", "visiting", "visited"}]
    BY DEF SearchInv, TypeOK
  <1>2. CASE VisitRoot
    BY <1>1, <1>2 DEF VisitRoot
  <1>3. CASE Descend
    BY <1>1, <1>3 DEF Descend, Fresh
  <1>4. CASE Return
    BY <1>1, <1>4 DEF Return
  <1>5. CASE UNCHANGED state
    BY <1>5
  <1> QED
    BY <1>2, <1>3, <1>4, <1>5 DEF Next, Returned, SkipRoot, Accept,
      SkipOperand, FoundCycle, vars

\* Shared inputs are not searched again on every path: state_map only moves
\* from absent to Visiting to Visited.
THEOREM SearchesOnce == Spec => SearchedOnce
  <1>1. SearchInv /\ [Next]_vars =>
          [\A o \in Ops : /\ state[o] # "none" => state'[o] # "none"
                          /\ state[o] = "visited" => state'[o] = "visited"]_vars
    BY NextSearchesOnce
  <1> QED
    BY <1>1, SearchInvariant, PTL DEF Spec, SafetySpec, SearchedOnce

-----------------------------------------------------------------------------
(* The verdict, in both directions.                                         *)

\* An error is sound: the operations from the one met again to the innermost
\* call form a closed loop.
LEMMA ErrorMeansLoop ==
  ASSUME SearchInv, Searching, OperandsLeft, DefOp \in comb_set, OnPath(DefOp)
  PROVE  HasLoop(operands, comb_set)
  <1> USE DEF SearchInv, Searching
  <1> DEFINE n == Len(stack)
  <1>1. /\ n \in Nat \ {0} /\ Top = stack[n] /\ Top \in Ops
        /\ \A i \in 1..n : stack[i] \in Ops
    BY TopIsOp
  <1>2. PICK j \in 1..n : stack[j] = DefOp
    BY CombSetIsOps DEF OnPath, PathIsVisiting
  <1> DEFINE L == {stack[i] : i \in j..n}
  <1>3. L \subseteq comb_set
    <2>1. \A i \in j..n : i \in 1..n
      BY <1>1, <1>2
    <2> QED
      BY <2>1, <1>1 DEF PathIsVisiting
  <1>4. stack[j] \in L /\ L # {}
    BY <1>1, <1>2
  <1>5. ASSUME NEW i \in j..n
        PROVE  Inputs(operands, stack[i]) \cap L # {}
    <2>1. CASE i = n
      <3>1. cursor[Top] \in 1..Len(operands[Top])
        BY <1>1 DEF TypeOK, OperandsLeft
      <3>2. DefOp \in Inputs(operands, Top)
        BY <3>1 DEF Inputs, DefOp
      <3> QED
        BY <2>1, <3>2, <1>1, <1>2, <1>4
    <2>2. CASE i # n
      <3>1. i \in 1..(n - 1) /\ i + 1 \in j..n /\ i \in 1..n
        BY <2>2, <1>1, <1>2
      <3>2. stack[i] \in Ops
        BY <3>1, <1>1
      <3>3. /\ cursor[stack[i]] > 1
            /\ operands[stack[i]][cursor[stack[i]] - 1] = stack[i + 1]
        BY <3>1 DEF PathFollowsOperands
      <3>4. /\ cursor[stack[i]] \in Nat \ {0} /\ Len(operands[stack[i]]) \in Nat
            /\ cursor[stack[i]] <= Len(operands[stack[i]]) + 1
        BY <3>2 DEF TypeOK
      <3>5. cursor[stack[i]] - 1 \in 1..Len(operands[stack[i]])
        BY <3>3, <3>4
      <3>6. stack[i + 1] \in Inputs(operands, stack[i])
        BY <3>3, <3>5 DEF Inputs
      <3> QED
        BY <3>1, <3>6
    <2> QED
      BY <2>1, <2>2
  <1> QED
    BY <1>3, <1>4, <1>5 DEF HasLoop

\* An acceptance is complete: when the roots are exhausted every combinational
\* operation is Visited, and no loop runs through those.
LEMMA AcceptMeansNoLoop ==
  ASSUME SearchInv, stack = << >>, root = N + 1
  PROVE  ~HasLoop(operands, comb_set)
  <1> USE DEF SearchInv
  <1>1. \A o \in comb_set : state[o] # "none"
    <2>1. \A o \in comb_set : o < N + 1
      BY CombSetIsOps, SizeAssumption DEF Ops
    <2> QED
      BY <2>1 DEF PassedIsChecked
  <1>2. \A o \in Ops : state[o] # "visiting"
    <2>1. Len(stack) = 0
      OBVIOUS
    <2> QED
      BY <2>1 DEF PathIsVisiting
  <1>3. {o \in Ops : state[o] = "visited"} = comb_set
    BY <1>1, <1>2, CombSetIsOps DEF TypeOK, PathIsVisiting
  <1> QED
    BY <1>3 DEF VisitedIsAcyclic

\* The abstract specification reads the dependence graph with the same
\* operators.
LEMMA SameGraph ==
  /\ Verdict!Ops = Ops /\ Verdict!OperandLists = OperandLists
  /\ Verdict!HasLoop(operands, Verdict!CombSet(name)) = HasLoop(operands, comb_set)
  BY DEF Ops, Verdict!Ops, Arg, Verdict!Arg, OperandLists,
    Verdict!OperandLists, HasLoop, Verdict!HasLoop, Inputs, Verdict!Inputs,
    comb_set, CombSet, Verdict!CombSet, is_combinational_op,
    Verdict!is_combinational_op, CombDialect, Verdict!CombDialect,
    ListedRouting, Verdict!ListedRouting

\* The search is safe with respect to its abstract specification: it only ever
\* answers once, "err" exactly when the combinational operations hold a closed
\* loop.
THEOREM ImplementsVerdict == Spec => Verdict!SafetySpec
  <1>1. Init => Verdict!Init
    BY SameGraph DEF Init, Verdict!Init
  <1>2. SearchInv /\ [Next]_vars => [Verdict!Decide]_(Verdict!vars)
    <2> SUFFICES ASSUME SearchInv, [Next]_vars
                 PROVE  Verdict!Decide \/ UNCHANGED Verdict!vars
      OBVIOUS
    <2>1. CASE FoundCycle
      <3>1. HasLoop(operands, comb_set)
        BY <2>1, ErrorMeansLoop DEF FoundCycle
      <3> QED
        BY <2>1, <3>1, SameGraph DEF FoundCycle, Searching, ir, Verdict!Decide
    <2>2. CASE Accept
      <3>1. root = N + 1
        BY <2>2, SizeAssumption DEF Accept, SearchInv, TypeOK
      <3>2. ~HasLoop(operands, comb_set)
        BY <2>2, <3>1, AcceptMeansNoLoop DEF Accept
      <3> QED
        BY <2>2, <3>2, SameGraph DEF Accept, ir, Verdict!Decide
    <2>3. CASE UNCHANGED <<name, operands, result>>
      BY <2>3 DEF Verdict!vars
    <2> QED
      BY <2>1, <2>2, <2>3 DEF Next, Returned, SkipRoot, VisitRoot, SkipOperand,
        Descend, Return, ir, vars
  <1> QED
    BY <1>1, <1>2, SearchInvariant, PTL
      DEF Spec, SafetySpec, Verdict!SafetySpec

-----------------------------------------------------------------------------
(* Loops as closed sets and loops as paths.                                 *)

\* Where operands lead from o is itself such a closed set, and the least one.
LEMMA UpstreamIsLeast ==
  ASSUME NEW g, NEW S, NEW o
  PROVE  /\ Upstream(g, S, o) \in SUBSET S
         /\ Feeds(g, S, o, Upstream(g, S, o))
         /\ \A C \in SUBSET S : Feeds(g, S, o, C) => Upstream(g, S, o) \subseteq C
  <1>1. \A C \in SUBSET S : Feeds(g, S, o, C) => Upstream(g, S, o) \subseteq C
    BY DEF Upstream
  <1>2. ASSUME NEW x \in Upstream(g, S, o) \cup {o}, NEW d \in Inputs(g, x) \cap S,
               NEW C \in SUBSET S, Feeds(g, S, o, C)
        PROVE  d \in C
    BY <1>1, <1>2 DEF Feeds
  <1> QED
    BY <1>1, <1>2 DEF Feeds, Upstream

\* What lies upstream of an operation upstream of o lies upstream of o.
LEMMA UpstreamOfMember ==
  ASSUME NEW g, NEW S, NEW o, NEW d \in Upstream(g, S, o)
  PROVE  Upstream(g, S, d) \subseteq Upstream(g, S, o)
  <1>1. Feeds(g, S, d, Upstream(g, S, o))
    BY UpstreamIsLeast DEF Feeds
  <1> QED
    BY <1>1, UpstreamIsLeast

\* A closed dependency loop within a finite set goes round: the member with the
\* least upstream is upstream of itself, or an operand of it is.
LEMMA LoopGoesRound ==
  ASSUME NEW g, NEW S, IsFiniteSet(S), HasLoop(g, S)
  PROVE  \E o \in S : OnLoop(g, S, o)
  <1>1. PICK L \in SUBSET S : L # {} /\ \A o \in L : Inputs(g, o) \cap L # {}
    BY DEF HasLoop
  <1> DEFINE above == {Upstream(g, S, o) : o \in L}
  <1>2. IsWellFoundedOn(StrictSubsetOrdering(S), SUBSET S)
    <2>1. FiniteSubsetsOf(S) = SUBSET S
      BY FS_FiniteSubsetsOfFinite
    <2> QED
      BY <2>1, FS_StrictSubsetOrderingWellFounded
  <1>3. above \subseteq SUBSET S /\ above # {}
    BY <1>1, UpstreamIsLeast
  <1>4. PICK least \in above : \A y \in above : ~(<<y, least>> \in StrictSubsetOrdering(S))
    <2> HIDE DEF above
    <2> QED
      BY <1>2, <1>3, WFMin
  <1>5. PICK o \in L : least = Upstream(g, S, o)
    OBVIOUS
  <1>6. PICK d \in L : d \in Inputs(g, o)
    BY <1>1
  <1>7. d \in Upstream(g, S, o)
    BY <1>1, <1>6, UpstreamIsLeast DEF Feeds
  <1>8. Upstream(g, S, d) = Upstream(g, S, o)
    <2>1. Upstream(g, S, d) \subseteq Upstream(g, S, o)
      BY <1>7, UpstreamOfMember
    <2>2. Upstream(g, S, d) \in above
      OBVIOUS
    <2>3. <<Upstream(g, S, d), Upstream(g, S, o)>> \notin StrictSubsetOrdering(S)
      BY <1>4, <1>5, <2>2
    <2> HIDE DEF above
    <2> QED
      BY <1>3, <1>5, <2>1, <2>2, <2>3 DEF StrictSubsetOrdering
  <1> QED
    BY <1>1, <1>7, <1>8 DEF OnLoop

\* An operation upstream of itself makes a loop of the operations it is upstream
\* of: each of them has an operand that is one of them.
LEMMA RoundIsLoop ==
  ASSUME NEW g, NEW S, NEW o \in S, OnLoop(g, S, o)
  PROVE  HasLoop(g, S)
  <1> DEFINE L == {x \in S : o \in Upstream(g, S, x)}
  <1>1. L \in SUBSET S /\ o \in L
    BY DEF OnLoop
  <1>2. ASSUME NEW x \in L, Inputs(g, x) \cap L = {}
        PROVE  FALSE
    <2> DEFINE C == Upstream(g, S, x) \ (L \cup {o})
    <2>1. Inputs(g, x) \cap S \subseteq C
      <3>1. Inputs(g, x) \cap S \subseteq Upstream(g, S, x)
        BY UpstreamIsLeast DEF Feeds
      <3> QED
        BY <3>1, <1>1, <1>2
    <2>2. ASSUME NEW c \in C
          PROVE  Inputs(g, c) \cap S \subseteq C
      <3> SUFFICES ASSUME NEW d \in Inputs(g, c) \cap S, d \in L
                   PROVE  FALSE
        <4>1. Inputs(g, c) \cap S \subseteq Upstream(g, S, x)
          BY UpstreamIsLeast DEF Feeds
        <4> QED
          BY <4>1, <1>1
      <3>1. d \in Upstream(g, S, c)
        BY UpstreamIsLeast DEF Feeds
      <3>2. o \in Upstream(g, S, c)
        BY <3>1, UpstreamOfMember
      <3>3. c \in S
        BY UpstreamIsLeast
      <3> QED
        BY <3>2, <3>3
    <2>3. C \in SUBSET S /\ Feeds(g, S, x, C)
      BY <2>1, <2>2, UpstreamIsLeast DEF Feeds
    <2>4. o \in C
      BY <2>3, UpstreamIsLeast
    <2> QED
      BY <2>4
  <1> QED
    BY <1>1, <1>2 DEF HasLoop

\* The call above another on the stack is for an operation that the lower one
\* takes an operand from.
LEMMA CallsFollowInputs ==
  ASSUME SearchInv, NEW i \in 1..(Len(stack) - 1)
  PROVE  stack[i + 1] \in Inputs(operands, stack[i])
  <1>1. Len(stack) \in Nat /\ stack[i] \in Ops
    BY DEF SearchInv, TypeOK
  <1>2. /\ cursor[stack[i]] > 1
        /\ operands[stack[i]][cursor[stack[i]] - 1] = stack[i + 1]
    BY DEF SearchInv, PathFollowsOperands
  <1>3. /\ cursor[stack[i]] \in Nat \ {0} /\ Len(operands[stack[i]]) \in Nat
        /\ cursor[stack[i]] <= Len(operands[stack[i]]) + 1
    BY <1>1 DEF SearchInv, TypeOK
  <1>4. cursor[stack[i]] - 1 \in 1..Len(operands[stack[i]])
    BY <1>2, <1>3
  <1> QED
    BY <1>2, <1>4 DEF Inputs

\* The path of the error, from the operation met again up to the innermost call,
\* leads from that call back to itself.
LEMMA ErrorGoesRound ==
  ASSUME SearchInv, result = "err", NEW S \in SUBSET Ops, comb_set \subseteq S
  PROVE  OnLoop(operands, S, Top)
  <1> DEFINE n == Len(stack)
  <1>1. /\ stack # << >> /\ OperandsLeft
        /\ DefOp \in comb_set /\ state[DefOp] = "visiting"
    BY DEF SearchInv, ErrorIsOnPath
  <1>2. /\ n \in Nat \ {0} /\ Top = stack[n] /\ Top \in Ops
        /\ \A i \in 1..n : stack[i] \in Ops
    BY <1>1, TopIsOp DEF SearchInv
  <1>3. PICK j \in 1..n : stack[j] = DefOp
    BY <1>1, CombSetIsOps DEF SearchInv, PathIsVisiting
  <1>4. DefOp \in Inputs(operands, Top)
    <2>1. cursor[Top] \in 1..Len(operands[Top])
      BY <1>1, <1>2 DEF SearchInv, TypeOK, OperandsLeft
    <2> QED
      BY <2>1 DEF Inputs, DefOp
  <1>5. \A i \in 1..n : stack[i] \in S
    BY <1>2 DEF SearchInv, PathIsVisiting
  <1>6. ASSUME NEW C \in SUBSET S, Feeds(operands, S, Top, C), Top \notin C
        PROVE  FALSE
    <2> DEFINE T == {i \in 1..n : i >= j /\ stack[i] \notin C}
    <2>1. n \in T
      BY <1>2, <1>3, <1>6
    <2>2. PICK i \in T : \A k \in T : i <= k
      <3> HIDE DEF T
      <3>1. T \in SUBSET (1..n) /\ T # {} /\ n \in Nat
        BY <1>2, <2>1 DEF T
      <3> HIDE DEF n
      <3> QED
        BY <3>1, LeastElement
    <2>3. CASE i = j
      BY <2>3, <1>1, <1>3, <1>4, <1>6 DEF Feeds
    <2>4. CASE i # j
      <3>1. i - 1 \in 1..n /\ i - 1 >= j /\ i - 1 \in 1..(Len(stack) - 1) /\ i = (i - 1) + 1
        BY <2>4, <1>2, <1>3
      <3>2. i - 1 \notin T
        BY <2>2, <3>1
      <3>3. stack[i - 1] \in C
        BY <3>1, <3>2
      <3>4. stack[i] \in Inputs(operands, stack[i - 1])
        BY <3>1, CallsFollowInputs
      <3> QED
        BY <3>3, <3>4, <1>5, <1>6 DEF Feeds
    <2> QED
      BY <2>3, <2>4
  <1>7. Top \in S
    BY <1>2, <1>5
  <1> QED
    BY <1>6, <1>7 DEF OnLoop, Upstream

\* The search is exact about paths: it rejects a block exactly when a
\* combinational operation reaches itself.
THEOREM VerdictIsExact == Spec => []VerdictExact
  <1>1. SearchInv => VerdictExact
    <2> SUFFICES ASSUME SearchInv, result # "running"
                 PROVE  result = "err" <=> \E o \in Ops : OnLoop(operands, comb_set, o)
      BY DEF VerdictExact
    <2>1. CASE result = "err"
      <3>1. stack # << >>
        BY <2>1 DEF SearchInv, ErrorIsOnPath
      <3>2. Top \in Ops
        BY <3>1, TopIsOp DEF SearchInv
      <3>3. comb_set \in SUBSET Ops
        BY CombSetIsOps
      <3>4. OnLoop(operands, comb_set, Top)
        BY <2>1, <3>3, ErrorGoesRound
      <3> QED
        BY <2>1, <3>2, <3>4
    <2>2. CASE result = "ok"
      <3>1. root = N + 1 /\ stack = << >>
        BY <2>2 DEF SearchInv, PassedIsChecked
      <3>2. ~HasLoop(operands, comb_set)
        BY <3>1, AcceptMeansNoLoop
      <3>3. \A o \in comb_set : ~OnLoop(operands, comb_set, o)
        BY <3>2, RoundIsLoop
      <3>4. \A o : OnLoop(operands, comb_set, o) => o \in comb_set
        BY DEF OnLoop, Upstream
      <3> QED
        BY <2>2, <3>3, <3>4
    <2> QED
      BY <2>1, <2>2 DEF SearchInv, TypeOK
  <1> QED
    BY <1>1, SearchInvariant, PTL

\* The operation an error points to lies on a loop itself, and on one that no
\* storage operation breaks.
THEOREM ErrorOpIsCyclic == Spec => []ErrorNamesCyclicOp
  <1>1. SearchInv => ErrorNamesCyclicOp
    <2> SUFFICES ASSUME SearchInv, result = "err"
                 PROVE  OnLoop(operands, ZeroLatency(name), Top)
      BY DEF ErrorNamesCyclicOp
    <2>1. ZeroLatency(name) \in SUBSET Ops /\ comb_set \subseteq ZeroLatency(name)
      BY DEF ZeroLatency, comb_set, CombSet, is_combinational_op
    <2> QED
      BY <2>1, ErrorGoesRound
  <1> QED
    BY <1>1, SearchInvariant, PTL

\* In a block of operations a closed dependency loop, by which the invariant and
\* the abstract verdict speak of loops, is a path from an operation to itself.
THEOREM LoopIsPath ==
  ASSUME NEW S \in SUBSET Ops
  PROVE  HasLoop(operands, S) <=> \E o \in S : OnLoop(operands, S, o)
  <1>1. IsFiniteSet(S)
    <2>1. IsFiniteSet(Ops)
      BY SizeAssumption, FS_Interval DEF Ops
    <2> QED
      BY <2>1, FS_Subset
  <1> QED
    BY <1>1, LoopGoesRound, RoundIsLoop
=============================================================================
