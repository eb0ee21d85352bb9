-------------------------- MODULE CombCycleVerdict --------------------------
(***************************************************************************)
(* What check_comb_cycles promises: after some time it answers, and the    *)
(* answer is "err" exactly when the combinational operations of the block  *)
(* hold a closed dependency loop.                                          *)
(***************************************************************************)
EXTENDS CombGraph

VARIABLES name, operands, result

vars == <<name, operands, result>>

Init ==
  /\ name \in [Ops -> Names]
  /\ operands \in [Ops -> OperandLists]
  /\ result = "running"

Decide ==
  /\ result = "running"
  /\ result' = IF HasLoop(operands, CombSet(name)) THEN "err" ELSE "ok"
  /\ UNCHANGED <<name, operands>>

SafetySpec == Init /\ [][Decide]_vars

Spec == SafetySpec /\ WF_vars(Decide)
=============================================================================
