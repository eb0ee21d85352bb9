----------------------------- MODULE CombCycles -----------------------------
(***************************************************************************)
(* check_comb_cycles and dfs_check_cycles: a depth-first search over the   *)
(* combinational operations of an hw.module body.                          *)
(*                                                                         *)
(* The recursion of dfs_check_cycles is kept as an explicit call stack:    *)
(* stack holds the `current` of each active call, outermost first, and     *)
(* cursor[o] is the position of the operand iterator of the call on o (an  *)
(* operation is never the `current` of two calls).  One step is one        *)
(* iteration of a loop, one call or one return.                            *)
(***************************************************************************)
EXTENDS CombGraph

VARIABLES
  name,      \* opid of every operation; the check only reads it
  operands,  \* defining operation of every operand; only read
  root,      \* next start_op of the outer loop, N + 1 when it is exhausted
  stack,     \* active calls of dfs_check_cycles
  cursor,    \* next operand each active call looks at
  state,     \* state_map; "none" is an absent key
  result     \* "running", or the Result returned to the caller

ir == <<name, operands>>
vars == <<name, operands, root, stack, cursor, state, result>>

comb_set == CombSet(name)

Top == stack[Len(stack)]

\* The operand the innermost call looks at.
DefOp == operands[Top][cursor[Top]]

OperandsLeft == cursor[Top] <= Len(operands[Top])

Init ==
  /\ name \in [Ops -> Names]
  /\ operands \in [Ops -> OperandLists]
  /\ root = 1
  /\ stack = << >>
  /\ cursor = [o \in Ops |-> 1]
  /\ state = [o \in Ops |-> "none"]
  /\ result = "running"

-----------------------------------------------------------------------------
(* The loop over comb_ops in check_comb_cycles.                             *)

\* Block arguments, storage, instances and operations already in state_map
\* start no search.
SkipRoot ==
  /\ result = "running" /\ stack = << >> /\ root <= N
  /\ root \in comb_set => state[root] # "none"
  /\ root' = root + 1
  /\ UNCHANGED <<ir, stack, cursor, state, result>>

VisitRoot ==
  /\ result = "running" /\ stack = << >> /\ root <= N
  /\ root \in comb_set /\ state[root] = "none"
  /\ state' = [state EXCEPT ![root] = "visiting"]
  /\ stack' = <<root>>
  /\ root' = root + 1
  /\ UNCHANGED <<ir, cursor, result>>

Accept ==
  /\ result = "running" /\ stack = << >> /\ root > N
  /\ result' = "ok"
  /\ UNCHANGED <<ir, root, stack, cursor, state>>

-----------------------------------------------------------------------------
(* The loop over the operands of `current` in dfs_check_cycles.             *)

Searching == result = "running" /\ stack # << >>

\* A slip: an operation met again counts as checked, even one still on the path.
Checked_when_seen(def_op) == state[def_op] # "none"

\* The match arm Some(VisitState::Visited): already checked and acyclic.
Checked(def_op) == state[def_op] = "visited"

\* A slip: only an operation that feeds itself is recognised.
OnPath_self_only(def_op) == def_op = Top

\* The match arm Some(VisitState::Visiting): def_op is on the current path.
OnPath(def_op) == state[def_op] = "visiting"

\* A slip: checked operations are searched again.
Fresh_unless_on_path(def_op) == state[def_op] # "visiting"

\* The match arm None.
Fresh(def_op) == state[def_op] = "none"

\* A slip: the operand after the skipped one is passed over as well.
SkipOperand_two ==
  /\ Searching /\ OperandsLeft
  /\ DefOp \in comb_set => Checked(DefOp)
  /\ cursor' = [cursor EXCEPT ![Top] = @ + 2]
  /\ UNCHANGED <<ir, root, stack, state, result>>

\* Operands that lead to no comb operation, or to one already checked.
SkipOperand ==
  /\ Searching /\ OperandsLeft
  /\ DefOp \in comb_set => Checked(DefOp)
  /\ cursor' = [cursor EXCEPT ![Top] = @ + 1]
  /\ UNCHANGED <<ir, root, stack, state, result>>

\* verify_err! inside the innermost call; `?` unwinds every outer call.
FoundCycle ==
  /\ Searching /\ OperandsLeft
  /\ DefOp \in comb_set /\ OnPath(DefOp)
  /\ result' = "err"
  /\ UNCHANGED <<ir, root, stack, cursor, state>>

\* A slip: the callee is marked only when it returns.
Descend_unmarked ==
  /\ Searching /\ OperandsLeft
  /\ DefOp \in comb_set /\ Fresh(DefOp)
  /\ stack' = Append(stack, DefOp)
  /\ cursor' = [cursor EXCEPT ![Top] = @ + 1]
  /\ UNCHANGED <<ir, root, state, result>>

\* The recursive call.
Descend ==
  /\ Searching /\ OperandsLeft
  /\ DefOp \in comb_set /\ Fresh(DefOp)
  /\ state' = [state EXCEPT ![DefOp] = "visiting"]
  /\ stack' = Append(stack, DefOp)
  /\ cursor' = [cursor EXCEPT ![Top] = @ + 1]
  /\ UNCHANGED <<ir, root, result>>

Return ==
  /\ Searching /\ ~OperandsLeft
  /\ state' = [state EXCEPT ![Top] = "visited"]
  /\ stack' = SubSeq(stack, 1, Len(stack) - 1)
  /\ UNCHANGED <<ir, root, cursor, result>>

\* The check has returned to its caller.
Returned == result # "running" /\ UNCHANGED vars

Next ==
  \/ SkipRoot \/ VisitRoot \/ Accept
  \/ SkipOperand \/ FoundCycle \/ Descend \/ Return
  \/ Returned

SafetySpec == Init /\ [][Next]_vars

\* The check is one thread that runs until it returns.
Spec == SafetySpec /\ WF_vars(Next)

-----------------------------------------------------------------------------
(* Properties.                                                              *)

\* Every variable ranges over the values the code's types and loops allow.
TypeOK ==
  /\ name \in [Ops -> Names]
  /\ operands \in [Ops -> Seq(Ops \cup {Arg})]
  /\ root \in 1..(N + 1)
  /\ stack \in Seq(Ops)
  /\ cursor \in [Ops -> Nat \ {0}]
  /\ \A o \in Ops : cursor[o] <= Len(operands[o]) + 1
  /\ state \in [Ops -> {"none", "visiting", "visited"}]
  /\ result \in {"running", "ok", "err"}

\* The active calls are exactly the operations marked Visiting, each once: the
\* recursion is never deeper than the number of combinational operations.
PathIsVisiting ==
  /\ \A i, j \in 1..Len(stack) : stack[i] = stack[j] => i = j
  /\ \A o \in Ops : state[o] = "visiting" <=> \E i \in 1..Len(stack) : stack[i] = o
  /\ \A o \in Ops : state[o] # "none" => o \in comb_set

\* Each active call was made for the operand its caller looked at last.
PathFollowsOperands ==
  \A i \in 1..(Len(stack) - 1) :
    /\ cursor[stack[i]] > 1
    /\ operands[stack[i]][cursor[stack[i]] - 1] = stack[i + 1]

\* Everything the search has passed is checked: the operands of a Visited
\* operation, the operands an active call has iterated over (the one it is
\* inside excepted), and the roots already tried; a call not yet made has
\* iterated over none.
PassedIsChecked ==
  /\ \A o \in Ops : state[o] = "visited" =>
       \A d \in Inputs(operands, o) \cap comb_set : state[d] = "visited"
  /\ \A i \in 1..Len(stack) : \A k \in 1..(cursor[stack[i]] - 1) :
       \/ operands[stack[i]][k] \notin comb_set
       \/ state[operands[stack[i]][k]] = "visited"
       \/ i < Len(stack) /\ k = cursor[stack[i]] - 1
  /\ \A o \in comb_set : o < root => state[o] # "none"
  /\ \A o \in Ops : state[o] = "none" => cursor[o] = 1
  /\ result = "ok" => root = N + 1 /\ stack = << >>

\* No loop runs through Visited operations only, which is what lets the search
\* skip them (the comment "already checked and acyclic").
VisitedIsAcyclic ==
  ~HasLoop(operands, {o \in Ops : state[o] = "visited"})

\* An error is raised on an operand of the innermost call that is itself on
\* the path.
ErrorIsOnPath ==
  result = "err" =>
    /\ stack # << >> /\ OperandsLeft
    /\ DefOp \in comb_set /\ state[DefOp] = "visiting"

\* The inductive invariant of the search.
SearchInv ==
  /\ TypeOK /\ PathIsVisiting /\ PathFollowsOperands /\ PassedIsChecked
  /\ VisitedIsAcyclic /\ ErrorIsOnPath

\* An operation is searched at most once, whatever the fan-out: state_map only
\* moves from absent to Visiting to Visited.  Without it shared inputs would
\* be searched again on every path that leads to them.
SearchedOnce ==
  [][\A o \in Ops :
       /\ state[o] # "none" => state'[o] # "none"
       /\ state[o] = "visited" => state'[o] = "visited"]_vars

\* check_comb_cycles returns on every module body.
Termination == <>(result # "running")

\* The block is rejected exactly when a combinational operation reaches itself
\* (check_comb_cycles as a whole, against the paths of the graph).
VerdictExact ==
  result # "running" =>
    (result = "err" <=> \E o \in Ops : OnLoop(operands, comb_set, o))

\* "Returns an error pointing to the cyclic operation": the operation named in
\* the error lies on a loop itself, not merely before one, and no storage
\* operation breaks that loop.
ErrorNamesCyclicOp == result = "err" => OnLoop(operands, ZeroLatency(name), Top)

\* The search answers what the whole dependence graph says.
Verdict == INSTANCE CombCycleVerdict

VerdictSpec == Verdict!Spec

\* cycles.rs:3 states that no closed combinational loop exists in a module that
\* passes; only storage breaks a path.
AcceptedHasNoZeroLatencyLoop ==
  result = "ok" => ~HasLoop(operands, ZeroLatency(name))
=============================================================================
