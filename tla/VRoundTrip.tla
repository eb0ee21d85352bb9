----------------------------- MODULE VRoundTrip -----------------------------
(***************************************************************************)
(* What the parsed module says, compared with its source.                  *)
(*                                                                         *)
(* Both are brought to one form, a sequence of module items: a source item *)
(* loses its layout (parentheses, the separators of its lists), and an sv  *)
(* operation becomes the item its statement in the printed module is.      *)
(***************************************************************************)
EXTENDS VParser

-----------------------------------------------------------------------------
(* Expressions.                                                             *)

\* The operations of the source, one for each operator that is written.
RECURSIVE Meaning(_)
Meaning(e) ==
  CASE e.kind = "paren"  -> Meaning(e.in[1])
    [] e.kind = "number" -> Node("constant", <<Said(e.attr).value, Said(e.attr).width>>, << >>)
    [] OTHER             -> [e EXCEPT !.in = [k \in DOMAIN e.in |-> Meaning(e.in[k])]]

\* A value without its types.
RECURSIVE Shape(_)
Shape(v) == Node(v.kind, v.attr, [k \in DOMAIN v.in |-> Shape(v.in[k])])

\* The kinds the lowerer looks for before it looks for the given one.
LookedForBefore(kind) ==
  CASE kind = "binary" -> {}
    [] kind = "unary"  -> {"binary"}
    [] kind = "mux"    -> {"binary", "unary"}
    [] kind = "concat" -> {"binary", "unary", "mux"}
    [] OTHER           -> {}

\* Nothing in the expression is looked for before what it is part of, nothing is
\* selected from a name, called or repeated, and every number is one that is read as
\* it is written.
RECURSIVE Straight(_)
Straight(e) ==
  /\ e.kind \notin {"literal", "index", "range", "call", "repeat"}
  /\ e.kind = "number" => Tight(e.attr) /\ Fits(e.attr)
  /\ ~HasKind(e, LookedForBefore(e.kind))
  /\ \A k \in DOMAIN e.in : Straight(e.in[k])

-----------------------------------------------------------------------------
(* One declaration, assignment, process or instance.                        *)

Declare(keyword, name, range, depth) ==
  [item |-> "declare", keyword |-> keyword, name |-> name, width |-> range, depth |-> depth]

Drive(kind, form, target, tree) ==
  [item |-> kind, form |-> form, target |-> target, tree |-> tree]

Process(events, condition, target, trees) ==
  [item |-> "always_ff", events |-> events, condition |-> condition,
   target |-> target, trees |-> trees]

Instance(module, name, conns) ==
  [item |-> "instance", module |-> module, name |-> name, conns |-> conns]

Edge(edge, signal) == [edge |-> edge, signal |-> signal]

\* `if (signal)` or `if (!signal)`; no condition at all.
If(negated, signal) == [negated |-> negated, signal |-> signal]
Always == If(FALSE, << >>)

-----------------------------------------------------------------------------
(* The source.                                                              *)

Keyword(item) == IF item.kind = "net" THEN "wire" ELSE item.keyword

WordsOf(item) == IF item.kind = "data" /\ item.unpacked # "none" THEN Extent(item.depth) ELSE 0

Width(item) ==
  IF Keyword(item) = "int" THEN 32
  ELSE FoldLeft(LAMBDA width, range : width * Extent(range), 1, item.ranges)

SourceDeclarations(item) ==
  [k \in DOMAIN item.names |-> Declare(Keyword(item), item.names[k], Width(item), WordsOf(item))]
  \o (IF item.init = NoExpr THEN << >>
      ELSE <<Drive("initial", "=", item.names[1], Meaning(item.init))>>)

SourceAssigns(item) ==
  [k \in DOMAIN item.assigns |->
     Drive("assign", "=", item.assigns[k].target, Meaning(item.assigns[k].expr))]

\* `form` is "=" for a plain assignment; an assignment operator or a condition
\* around the statement is another form.
SourceComb(item) ==
  [k \in DOMAIN item.stmts |->
     Drive("always_comb", item.stmts[k].form, item.stmts[k].target,
           Meaning(item.stmts[k].expr))]

SourceFf(item) ==
  IF item.conditional
    THEN <<Process(item.control.events, If(item.negated, item.signal), item.then.target,
                   <<Meaning(item.then.expr), Meaning(item.else.expr)>>)>>
    ELSE [k \in DOMAIN item.stmts |->
            Process(item.control.events, Always, item.stmts[k].target,
                    <<Meaning(item.stmts[k].expr)>>)]

\* Which expression each port of the child is connected to.
SourceInstances(item) ==
  [i \in DOMAIN item.insts |->
     LET conns == Connected(item.insts[i]) IN
       Instance(item.module, item.insts[i].name,
                {<<conns[k].port, Meaning(conns[k].expr)>> : k \in DOMAIN conns})]

SourceItem(item) ==
  CASE item.kind \in {"net", "data"} -> SourceDeclarations(item)
    [] item.kind = "assign"          -> SourceAssigns(item)
    [] item.kind = "always_comb"     -> SourceComb(item)
    [] item.kind = "always_ff"       -> SourceFf(item)
    [] item.kind = "instance"        -> SourceInstances(item)

-----------------------------------------------------------------------------
(* The statement that render_op prints for an operation.                    *)

Tree(op, k) == Shape(op.in[k])

Signal(op, k) == op.in[k].attr

PrintedEvents(op) ==
  <<Edge("posedge", Signal(op, 1)),
    Edge(IF op.attr = "active_high" THEN "posedge" ELSE "negedge", Signal(op, 3))>>

\* A process with a reset comes from an event control, so it is asynchronous.
Printed(op) ==
  CASE op.kind = "wire_decl"   -> Declare("wire", op.target, op.ty.width, 0)
    [] op.kind = "reg_decl"    -> Declare("reg", op.target, op.ty.width, 0)
    [] op.kind = "logic_decl"  -> Declare("logic", op.target, op.ty.width, 0)
    [] op.kind = "mem_decl"    -> Declare("logic", op.target, op.ty.width, op.ty.depth)
    [] op.kind = "assign"      -> Drive("assign", "=", op.target, Tree(op, 1))
    [] op.kind = "always_comb" -> Drive("always_comb", "=", op.target, Tree(op, 1))
    [] op.kind = "always_ff_no_reset" ->
         Process(<<Edge("posedge", Signal(op, 1))>>, Always, op.target, <<Tree(op, 2)>>)
    [] op.kind = "always_ff" ->
         Process(PrintedEvents(op), If(op.attr = "active_low", Signal(op, 3)), op.target,
                 <<Tree(op, 4), Tree(op, 2)>>)
    [] op.kind = "instance" ->
         Instance(op.attr, op.target,
                  {<<ChildPorts[k], Tree(op, k)>> : k \in DOMAIN op.in})

\* The body without the operation that closes it.
PrintedBody == LET ops == Front(body) IN [k \in DOMAIN ops |-> Printed(ops[k])]

SourceBody == FlattenSeq([k \in DOMAIN items |-> SourceItem(items[k])])

-----------------------------------------------------------------------------
(* The items that come through as they were written.                        *)

PlainStatement(stmts) == Len(stmts) = 1 /\ stmts[1].form = "=" /\ Straight(stmts[1].expr)

\* One clock edge, named without an "or", and with a condition one edge of the
\* signal it tests, of the polarity it tests for.
PlainControl(item) ==
  LET events == item.control.events IN
  /\ \A k \in DOMAIN events : Len(events[k].signal) = 1
  /\ events[1].edge = "posedge"
  /\ IF item.conditional
       THEN /\ ~item.control.comma /\ Len(events) = 2
            /\ events[2] = Edge(IF item.negated THEN "negedge" ELSE "posedge", item.signal)
       ELSE Len(events) = 1

InPortOrder(inst) ==
  LET conns == Connected(inst) IN
    \A k \in DOMAIN conns : conns[k].port = ChildPorts[k] /\ Straight(conns[k].expr)

PlainDeclaration(item) ==
  /\ item.before = << >> /\ Len(item.names) = 1 /\ item.init = NoExpr
  /\ Len(item.ranges) <= 1 /\ \A k \in DOMAIN item.ranges : PlainRange(item.ranges[k])

Supported(item) ==
  CASE item.kind = "net"    -> PlainDeclaration(item)
    [] item.kind = "data"   -> /\ PlainDeclaration(item)
                               /\ item.keyword \in {"logic", "reg"}
                               /\ item.unpacked = "none"
                                  \/ /\ item.unpacked = "range"
                                     /\ PlainRange(item.depth) /\ Extent(item.depth) > 1
                                     /\ item.ranges # << >> /\ item.keyword = "logic"
    [] item.kind = "assign" -> Len(item.assigns) = 1 /\ Straight(item.assigns[1].expr)
    [] item.kind = "always_comb" -> PlainStatement(item.stmts)
    [] item.kind = "always_ff"   ->
         /\ PlainControl(item)
         /\ IF item.conditional THEN Straight(item.then.expr) /\ Straight(item.else.expr)
                                ELSE PlainStatement(item.stmts)
    [] item.kind = "instance"    -> \A i \in DOMAIN item.insts : InPortOrder(item.insts[i])
    [] OTHER                     -> FALSE

-----------------------------------------------------------------------------
(* Properties.                                                              *)

\* A module that parses says what its source says, item by item, when every item is of
\* a supported form: one name or assignment per item, an expression no search enters
\* from the side, ranges of plain numbers, one clock edge and at most one reset edge
\* that agrees with the condition, connections in port order.
SaysWhatSourceSays ==
  status = "ok" /\ (\A k \in DOMAIN items : Supported(items[k])) => PrintedBody = SourceBody

\* The width of every port is that of its range, whatever the bounds are ("width ranges
\* [msb:lsb] calculate bit width as (msb - lsb + 1)", section 3.1 of
\* docs/systemverilog_parser_specification.md).
PortWidthsKept ==
  \A k \in DOMAIN header :
    Len(header[k].ranges) = 1 => ports[k].width = Extent(header[k].ranges[1])

ProcessKinds == {"always_comb", "always_ff", "always_ff_no_reset"}

\* An output that a process drives is closed with a value of its name ("the parser must
\* track the active SSA value driving each output port", section 2.3 of
\* docs/sv_parser_migration_challenges.md).
DrivenOutputsClosed ==
  LET outputs == SelectSeq(ports, IsOutput)
      values == Last(body).in
  IN \A k \in DOMAIN outputs : \A j \in DOMAIN body :
       body[j].kind \in ProcessKinds /\ body[j].target = outputs[k].name =>
         values[k].kind = "name" /\ values[k].attr = outputs[k].name

\* A module that parses holds all that its source says, of whatever forms its items are:
\* every name and assignment of a list, every operator, the port of every connection, the
\* edge of every clock, the width of every port, the driver of every output ("instead of
\* crashing or dropping constructs silently, the parser must ... emit meaningful Pliron
\* verification errors", section 2.8 of docs/sv_parser_migration_challenges.md).
NothingDropped ==
  status = "ok" =>
    /\ \A k \in DOMAIN items : items[k].kind # "other"
    /\ PrintedBody = SourceBody
    /\ PortWidthsKept /\ DrivenOutputsClosed
=============================================================================
