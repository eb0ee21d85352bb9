---------------------------- MODULE MCCombCycles ----------------------------
(***************************************************************************)
(* CombCycles on every block of N operations drawn from a few opids.  The  *)
(* closed sets by which CombGraph says that an operation lies on a loop    *)
(* are compared with a transitive closure, on all of these blocks.         *)
(***************************************************************************)
EXTENDS CombCycles, Relation

\* [x, y] is TRUE when operands lead from x to y through operations of S.
Reaches(inputs, S) ==
  TransitiveClosure([x, y \in Ops |-> /\ x \in S /\ y \in S
                                      /\ y \in Inputs(inputs, x)], Ops)

ASSUME LoopsArePaths ==
  \A inputs \in [Ops -> OperandLists], S \in SUBSET Ops :
    LET reaches == Reaches(inputs, S) IN
      \A o \in Ops : OnLoop(inputs, S, o) <=> reaches[o, o]
=============================================================================
