------------------------------ MODULE VParser ------------------------------
(***************************************************************************)
(* SvModuleLowerer: from the syntax tree of a SystemVerilog module to an   *)
(* hw.module of sv operations.                                             *)
(*                                                                         *)
(* The header gives the ports and the first entries of the scope; then     *)
(* every item of the body is lowered in source order, each reading names   *)
(* from the scope and perhaps adding one; hw.output closes the module.     *)
(* Expression operations are kept as the tree behind the value that an     *)
(* operation uses, not as operations of the body.                          *)
(*                                                                         *)
(* The event control of an always_ff is cut at every "or" of its text, so  *)
(* a name is given as the sequence of its pieces between those letters:    *)
(* clk is <<"clk">>, sensor is <<"sens", "">>.  A range is its two bounds, *)
(* each with its text, character by character, and the number it says.     *)
(***************************************************************************)
EXTENDS VExprs, Integers

CONSTANTS
  PortLists,   \* port lists of the header
  Items,       \* module items the body is drawn from
  ChildPorts,  \* the ports of the instantiated module, in order
  MaxItems     \* bound on the items of the body

\* A port without a direction.
None == "none"

\* An if without an else.
NoElse == [target |-> NoTarget, expr |-> NoExpr]

\* A text that is a plain decimal number.
IsDecimal(text) ==
  /\ text # << >> /\ text[1] # "_"
  /\ \A k \in DOMAIN text : text[k] \in {"0", "1", "2", "3", "4", "5", "6", "7", "8", "9", "_"}

IsBound(b) ==
  /\ b.text \in Seq(Range(b.text)) /\ b.value \in Int
  /\ IsDecimal(b.text) => b.value = FromRadix(Without("_", b.text), 10, 0)

AreRanges(ranges) ==
  /\ ranges \in Seq(Range(ranges))
  /\ \A k \in DOMAIN ranges : IsBound(ranges[k].msb) /\ IsBound(ranges[k].lsb)

\* Ports, and items as the grammar makes them: every list has an entry, what is read
\* as an expression is one, and an event has a signal.  An if without an else has
\* another target there.  `before` are the identifiers in a declaration that precede
\* the first name it declares: parameters in its ranges, the name of its type.
IsPort(p) ==
  /\ p.dir \in {"input", "output", "inout", "ref", None}
  /\ AreRanges(p.ranges)

IsDeclaration(item) ==
  /\ AreRanges(item.ranges)
  /\ item.before \in Seq(Range(item.before)) /\ item.names \in Seq(Range(item.names))
  /\ item.names # << >>
  /\ item.init \in Exprs \cup {NoExpr}
  /\ item.kind = "data" => /\ item.unpacked \in {"none", "size", "range"}
                           /\ AreRanges(<<item.depth>>)

IsControl(control) ==
  /\ control.events \in Seq(Range(control.events)) /\ control.events # << >>
  /\ control.comma \in BOOLEAN
  /\ \A k \in DOMAIN control.events :
       LET signal == control.events[k].signal IN signal \in Seq(Range(signal)) /\ signal # << >>

BasicKinds ==
  {"assign", "net", "data", "always_comb", "always_ff", "always", "instance"}

\* "always" is any other process.
IsBasic(item) ==
  /\ item.kind \in BasicKinds
  /\ item.kind = "assign" => item.assigns[1].expr \in Exprs
  /\ item.kind \in {"net", "data"} => IsDeclaration(item)
  /\ item.kind = "always_comb" => item.stmts[1].expr \in Exprs
  /\ item.kind = "always_ff" =>
       /\ IsControl(item.control)
       /\ IF item.conditional
            THEN item.then.target = item.else.target => {item.then.expr, item.else.expr} \subseteq Exprs
            ELSE item.stmts[1].expr \in Exprs
  /\ item.kind = "instance" =>
       /\ item.insts \in Seq(Range(item.insts))
       /\ \A i \in DOMAIN item.insts :
            LET conns == item.insts[i].conns
            IN conns \in Seq([port : {conns[k].port : k \in DOMAIN conns}, expr : Exprs \cup {NoExpr}])

\* An item of another kind, or a process with declarations of its own, is given by the
\* basic items inside it, in the order of the text.
IsItem(item) ==
  IF item.kind = "other"
    THEN item.in \in Seq(Range(item.in)) /\ \A k \in DOMAIN item.in : IsBasic(item.in[k])
    ELSE IsBasic(item)

ASSUME SourceAssumption ==
  /\ \A list \in PortLists : list \in Seq(Range(list)) /\ \A k \in DOMAIN list : IsPort(list[k])
  /\ \A item \in Items : IsItem(item)
  /\ MaxItems \in Nat

VARIABLES
  header,   \* the source port list
  ports,    \* ParsedPorts
  items,    \* the items lowered so far
  scope,    \* name -> value
  body,     \* operations of the hw.module
  status    \* "header", "body", "ok" or "err"

vars == <<header, ports, items, scope, body, status>>

Word(text) == <<text>>

Bind(name, value) ==
  scope' = [n \in DOMAIN scope \cup {name} |-> IF n = name THEN value ELSE scope[n]]

-----------------------------------------------------------------------------
(* The header.                                                              *)

\* A slip: the width is the high bound.
extract_range_width_high(ranges) ==
  IF ranges = << >> THEN 1
  ELSE LET msb == parse_number_literal(Head(ranges).msb.text).value
           lsb == parse_number_literal(Head(ranges).lsb.text).value
       IN (IF msb >= lsb THEN msb ELSE lsb) % 2^SizeBits

\* The first range found; a bound that is no number counts as 0.
extract_range_width(ranges) ==
  IF ranges = << >> THEN 1
  ELSE LET msb == parse_number_literal(Head(ranges).msb.text).value
           lsb == parse_number_literal(Head(ranges).lsb.text).value
       IN (IF msb >= lsb THEN msb - lsb + 1 ELSE lsb - msb + 1) % 2^SizeBits

ClockNames == {Word("clk"), Word("clock")}
ResetNames == {Word("rst"), Word("reset")}

Direction(list, k) ==
  LET given == {j \in 1..k : list[j].dir # None}
  IN IF given = {} THEN "input" ELSE list[CHOOSE j \in given : \A i \in given : i <= j].dir

\* The direction of a port carries over to the next, its range does not.
ParsedPort(list, k) ==
  LET width == extract_range_width(list[k].ranges) IN
  [name |-> list[k].name,
   dir |-> Direction(list, k),
   width |-> width,
   ty |-> IF list[k].name \in ClockNames /\ width = 1 THEN Clock
          ELSE IF list[k].name \in ResetNames /\ width = 1 THEN Reset ELSE IntType(width)]

IsInput(p) == p.dir \in {"input", "inout"}
IsOutput(p) == p.dir \in {"output", "inout"}

LowerHeader ==
  /\ status = "header"
  /\ IF \E k \in DOMAIN header : header[k].dir = "ref"
       THEN status' = "err" /\ UNCHANGED <<ports, scope>>
       ELSE /\ status' = "body"
            /\ ports' = [k \in DOMAIN header |-> ParsedPort(header, k)]
            /\ LET inputs == {k \in DOMAIN header : IsInput(ports'[k])} IN
                 scope' = [n \in {header[k].name : k \in inputs} |->
                             LET k == CHOOSE j \in inputs : header[j].name = n
                             IN Named(n, ports'[k].ty)]
  /\ UNCHANGED <<header, items, body>>

-----------------------------------------------------------------------------
(* The items.  An item that cannot be lowered ends the parse.               *)

Read(item) == items' = Append(items, item) /\ UNCHANGED <<header, ports>>

Emit(op) == body' = Append(body, op) /\ UNCHANGED status

Fail == status' = "err" /\ UNCHANGED <<scope, body>>

\* The kinds an item is searched for, one after the other.
SearchedKinds ==
  <<{"assign"}, {"net"}, {"data"}, {"always_comb", "always_ff", "always"}, {"instance"}>>

Inside(item, kinds) == {k \in DOMAIN item.in : item.in[k].kind \in kinds}

\* What is lowered of an item: the first that is found of the first kind there is.
Found(item) ==
  IF item.kind # "other" \/ item.in = << >> THEN item
  ELSE LET n == Min({m \in DOMAIN SearchedKinds : Inside(item, SearchedKinds[m]) # {}})
       IN item.in[Min(Inside(item, SearchedKinds[n]))]

\* A slip: the name keeps the value it had.
LowerContinuousAssign_unbound(item) ==
  /\ item.kind = "assign"
  /\ LET a == item.assigns[1]
         v == lower_expression(a.expr, scope)
     IN IF v = Unresolved THEN Fail
        ELSE Emit(AssignOp(a.target, v)) /\ UNCHANGED scope

\* assign x = e, ...: the first assignment of the list.
LowerContinuousAssign(item) ==
  /\ item.kind = "assign"
  /\ LET a == item.assigns[1]
         v == lower_expression(a.expr, scope)
     IN IF v = Unresolved THEN Fail
        ELSE /\ Emit(AssignOp(a.target, v))
             /\ Bind(a.target, Named(a.target, v.ty))

\* The part-select that comes first in an initial value.
SelectedRange(init) ==
  LET select == unwrap_node(init, {"range"})
      Bound(e) == [text |-> Text(e.attr), value |-> Said(e.attr).value]
  IN IF select = NoExpr THEN << >>
     ELSE <<[msb |-> Bound(select.in[1]), lsb |-> Bound(select.in[2])]>>

\* The ranges of a declaration in the order of its text.
RangesIn(item) ==
  item.ranges
  \o (IF item.kind = "data" /\ item.unpacked = "range" THEN <<item.depth>> ELSE << >>)
  \o SelectedRange(item.init)

\* The first identifier.
DeclaredName(item) == Head(item.before \o item.names)

\* wire [n:0] w, ...: one name, without its initial value.
LowerNetDeclaration(item) ==
  /\ item.kind = "net"
  /\ LET name == DeclaredName(item)
         ty == IntType(extract_range_width(RangesIn(item)))
     IN Emit(WireDeclOp(name, ty)) /\ Bind(name, Named(name, ty))

\* The words of an unpacked dimension [m:n]; [n] holds no range.
Depth(item) == IF item.unpacked = "range" THEN extract_range_width(<<item.depth>>) ELSE 1

\* logic or reg, or a memory when the unpacked dimension has several words; one name,
\* without its initial value.
LowerDataDeclaration(item) ==
  /\ item.kind = "data"
  /\ LET name == DeclaredName(item)
         element == IntType(extract_range_width(RangesIn(item)))
         op == IF Depth(item) > 1 THEN MemDeclOp(name, MemOf(Depth(item), element.width))
               ELSE IF item.keyword = "reg" THEN RegDeclOp(name, element)
               ELSE LogicDeclOp(name, element)
     IN Emit(op) /\ Bind(name, Named(name, op.ty))

\* The first assignment of the block, whatever it is under; a target is not
\* put in the scope.
LowerAlwaysComb(item) ==
  /\ item.kind = "always_comb"
  /\ LET v == lower_expression(item.stmts[1].expr, scope) IN
       IF v = Unresolved THEN Fail
       ELSE /\ Emit(AlwaysCombOp(item.stmts[1].target, v))
            /\ UNCHANGED scope

\* The pieces of an event between the letters "or": of each the last word and whether
\* it says negedge.
Pieces(event) ==
  [k \in DOMAIN event.signal |-> [word |-> event.signal[k],
                                  negedge |-> k = 1 /\ event.edge = "negedge"]]

\* A comma does not cut.
Merged(left, right) ==
  Front(left) \o <<[word |-> right[1].word,
                    negedge |-> Last(left).negedge \/ right[1].negedge]>> \o Tail(right)

\* The parts of the first k events, given those of fewer.
PartsUpTo(control, k, parts) ==
  LET pieces == Pieces(control.events[k]) IN
    IF k = 1 THEN pieces
    ELSE IF control.comma THEN Merged(parts[k - 1], pieces) ELSE parts[k - 1] \o pieces

\* The text of the event control, cut at "or".
EventParts(control) ==
  LET parts[k \in 1..Len(control.events)] == PartsUpTo(control, k, parts)
  IN parts[Len(control.events)]

Polarity(part) == IF part.negedge THEN "active_low" ELSE "active_high"

\* A slip: the polarity of the reset is that of the clock event.
ResetPolarity_clock(parts) == Polarity(parts[1])

ResetPolarity(parts) == Polarity(Last(parts))

\* The first part names the clock, whatever its edge.
LowerAlwaysFf(item) ==
  /\ item.kind = "always_ff" /\ ~item.conditional
  /\ LET parts == EventParts(item.control)
         clock == resolve_val(scope, Word(parts[1].word))
         v == lower_expression(item.stmts[1].expr, scope)
     IN IF Unresolved \in {clock, v} THEN Fail
        ELSE /\ Emit(AlwaysFfNoResetOp(item.stmts[1].target, clock, v))
             /\ UNCHANGED scope

\* With an if: the last part names the reset, and with one part only there is
\* no reset to be found, for the condition itself is never recognised.
LowerAlwaysFfReset(item) ==
  /\ item.kind = "always_ff" /\ item.conditional
  /\ LET parts == EventParts(item.control)
         clock == resolve_val(scope, Word(parts[1].word))
         reset == resolve_val(scope, Word(Last(parts).word))
         value == lower_expression(item.then.expr, scope)
         next == lower_expression(item.else.expr, scope)
     IN IF \/ Len(parts) = 1
           \/ item.then.target # item.else.target
           \/ Unresolved \in {clock, reset, value, next}
          THEN Fail
          ELSE /\ Emit(AlwaysFfOp(item.then.target, clock, next, reset, value, ResetPolarity(parts)))
               /\ UNCHANGED scope

Connected(inst) == SelectSeq(inst.conns, LAMBDA c : c.expr # NoExpr)

\* One sv.instance per instance; a connection keeps its place in the text and
\* loses its port, an empty one is skipped.
LowerModuleInstantiation(item) ==
  /\ item.kind = "instance"
  /\ LET inputs(inst) ==
           [k \in DOMAIN Connected(inst) |-> lower_expression(Connected(inst)[k].expr, scope)]
     IN IF \E i \in DOMAIN item.insts : \E c \in Range(item.insts[i].conns) :
             c.expr # NoExpr /\ lower_expression(c.expr, scope) = Unresolved
          THEN Fail
        ELSE /\ body' = body \o
                  [i \in DOMAIN item.insts |->
                     InstanceOp(item.insts[i].name, item.module, inputs(item.insts[i]))]
             /\ UNCHANGED <<scope, status>>

UnsupportedItem(item) == item.kind \in {"always", "other"} /\ Fail

LowerItem(item) ==
  /\ status = "body" /\ Len(items) < MaxItems
  /\ Read(item)
  /\ \/ LowerContinuousAssign(Found(item)) \/ LowerNetDeclaration(Found(item))
     \/ LowerDataDeclaration(Found(item)) \/ LowerAlwaysComb(Found(item))
     \/ LowerAlwaysFf(Found(item)) \/ LowerAlwaysFfReset(Found(item))
     \/ LowerModuleInstantiation(Found(item)) \/ UnsupportedItem(Found(item))

\* The value of an output port: what its name is bound to, or zero.
OutputValue(p) ==
  IF p.name \in DOMAIN scope THEN scope[p.name]
  ELSE ConstantExprOp(0, p.width, IntType(p.width))

FinalizeOutputs ==
  /\ status = "body"
  /\ LET outputs == SelectSeq(ports, IsOutput) IN
       body' = Append(body, Op("output", NoTarget, "",
                               [k \in DOMAIN outputs |-> OutputValue(outputs[k])], NoType))
  /\ status' = "ok"
  /\ UNCHANGED <<header, ports, items, scope>>

Init ==
  /\ header \in PortLists
  /\ ports = << >> /\ items = << >> /\ scope = << >> /\ body = << >>
  /\ status = "header"

Returned == status \in {"ok", "err"} /\ UNCHANGED vars

Next ==
  \/ LowerHeader \/ FinalizeOutputs \/ Returned
  \/ \E item \in Items : LowerItem(item)

Spec == Init /\ [][Next]_vars
-----------------------------------------------------------------------------
(* Properties.                                                              *)

\* The assignment of number l to its target is in the body with what l says.
LiteralStands(a) ==
  LET said == Said(a.expr.attr) IN
    \E j \in DOMAIN body :
      body[j] = AssignOp(a.target, ConstantExprOp(said.value, said.width, IntType(said.width)))

\* A literal keeps its value and width when it fits the machine's words, holds no
\* space, has no "_" in its size, and its first digit is no base letter:
\* parse_number_literal finds size, base and digits by trimming.
TightLiteralsExact ==
  \A k \in DOMAIN items :
    items[k].kind = "assign" =>
      LET a == items[k].assigns[1]
      IN a.expr.kind = "number" /\ Tight(a.expr.attr) /\ Fits(a.expr.attr) => LiteralStands(a)

\* The width a range says.
Extent(range) ==
  LET msb == range.msb.value
      lsb == range.lsb.value
  IN IF msb >= lsb THEN msb - lsb + 1 ELSE lsb - msb + 1

\* A range that needs no evaluation and fits the machine's words.
PlainRange(range) ==
  /\ IsDecimal(range.msb.text) /\ range.msb.value < 2^WordBits
  /\ IsDecimal(range.lsb.text) /\ range.lsb.value < 2^WordBits
  /\ Extent(range) < 2^SizeBits

\* IEEE 1800, 23.2.2.3: a port that leaves out its direction takes that of the port
\* before it.
DirectionSaid(k) ==
  IF header[k].dir # None THEN header[k].dir ELSE IF k > 1 THEN ports[k - 1].dir ELSE "input"

\* Every port has the direction its source gives it, with the width of its own range
\* when that is one of plain numbers, and of one bit when it leaves out the range but
\* not the direction.  (Without both it takes the range of the port before it.)
PortsKeptUnlessInherited ==
  status \in {"body", "ok"} =>
    /\ DOMAIN ports = DOMAIN header
    /\ \A k \in DOMAIN header :
         LET ranges == header[k].ranges IN
         /\ ports[k].dir = DirectionSaid(k)
         /\ Len(ranges) = 1 /\ PlainRange(ranges[1]) => ports[k].width = Extent(ranges[1])
         /\ ranges = << >> /\ header[k].dir # None => ports[k].width = 1

\* The names that are bound from the start.
InputNames == {header[k].name : k \in {j \in DOMAIN header : IsInput(ports[j])}}

\* The names of the source that an item binds when it is lowered: the first of every
\* list, unless another identifier stands before it.
Binds(item) ==
  CASE item.kind = "assign"          -> {item.assigns[1].target}
    [] item.kind \in {"net", "data"} -> IF item.before = << >> THEN {item.names[1]} ELSE {}
    [] OTHER                         -> {}

BoundBy(lowered) == UNION {Binds(Found(lowered[k])) : k \in DOMAIN lowered}

\* hw.output closes an output port that is an input too, or whose name an item bound,
\* with a value of that name.
OutputsClosedByName ==
  status = "ok" =>
    LET outputs == SelectSeq(ports, IsOutput)
        values == Last(body).in
    IN /\ DOMAIN values = DOMAIN outputs
       /\ \A k \in DOMAIN outputs :
            outputs[k].name \in InputNames \cup BoundBy(items) =>
              values[k].kind = "name" /\ values[k].attr = outputs[k].name

\* The signal taken for the clock: a comma leaves one part, whose last word counts.
ClockSignal(control) ==
  IF control.comma THEN Last(control.events).signal ELSE control.events[1].signal

\* The expressions of an item that the parser reads: the first of every list.
ReadExprs(item) ==
  CASE item.kind = "assign"      -> {item.assigns[1].expr}
    [] item.kind = "always_comb" -> {item.stmts[1].expr}
    [] item.kind = "always_ff"   -> IF item.conditional THEN {item.then.expr, item.else.expr}
                                                        ELSE {item.stmts[1].expr}
    [] item.kind = "instance"    ->
         UNION {{c.expr : c \in {d \in Range(item.insts[i].conns) : d.expr # NoExpr}} :
                  i \in DOMAIN item.insts}
    [] OTHER -> {}

\* The signals of an event control that it reads.
ReadSignals(item) ==
  IF item.kind = "always_ff"
    THEN {ClockSignal(item.control)}
         \cup (IF item.conditional THEN {Last(item.control.events).signal} ELSE {})
    ELSE {}

ReadNames(item) == ReadSignals(item) \cup UNION {NamesOf[e] : e \in ReadExprs(item)}

\* What stands in the way of a process with a condition: no second event, or one that
\* a comma separates, or two different targets.
UnfitReset(item) ==
  /\ item.kind = "always_ff" /\ item.conditional
  /\ \/ Len(item.control.events) = 1 \/ item.control.comma
     \/ item.then.target # item.else.target

\* An event whose signal holds the letters "or" in its name.
CutSignal(item) ==
  item.kind = "always_ff" /\ \E k \in DOMAIN item.control.events :
                                Len(item.control.events[k].signal) > 1

\* Every name an item reads is an input or bound by an item before it, and no literal
\* it reads is other than a number.
CanBeRead(item, before) ==
  /\ ReadNames(item) \subseteq InputNames \cup BoundBy(before)
  /\ \A e \in ReadExprs(item) : ~HasKind(e, {"literal"})

\* An assignment, a declaration, an instance, a combinational process, and a register
\* without a condition or with an asynchronous reset are never refused when what they
\* read is bound: an output port is bound by the first item that assigns or declares it.
BoundItemsAccepted ==
  status = "err" /\ items # << >> =>
    LET item == Found(Last(items)) IN
      ~ /\ item.kind \in BasicKinds \ {"always"}
        /\ ~UnfitReset(item) /\ ~CutSignal(item)
        /\ CanBeRead(item, Front(items))
=============================================================================
