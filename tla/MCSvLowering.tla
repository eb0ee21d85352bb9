---------------------------- MODULE MCSvLowering ----------------------------
(***************************************************************************)
(* SvLowering on every body of up to four operations: named and unnamed   *)
(* registers and memories, names that repeat or that look generated, ports *)
(* on the memories and on a block argument, an assignment that is already  *)
(* there.                                                                  *)
(***************************************************************************)
EXTENDS SvLowering

MCNames == {NoName, <<"a">>, <<"state_", 0>>}

MCSources ==
  {[kind |-> "compreg", name |-> n] : n \in MCNames}
  \cup {[kind |-> "firreg", name |-> NoName]}
  \cup {[kind |-> "hlmem", name |-> n] : n \in {NoName, <<"a">>}}
  \cup {[kind |-> "read", memory |-> m] : m \in {BlockArg, 1, 2}}
  \cup {[kind |-> "write", memory |-> m, address |-> "x"] : m \in 1..2}
  \cup {[kind |-> "assign", target |-> <<"a">>, clock_or_reset |-> FALSE]}
=============================================================================
