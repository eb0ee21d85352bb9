------------------------------ MODULE MCVParser ------------------------------
(***************************************************************************)
(* The front end on modules of up to MaxItems items, drawn from one or     *)
(* more items of every form it distinguishes, under headers that vary the  *)
(* ports' directions and ranges.                                           *)
(***************************************************************************)
EXTENDS VRoundTrip

-----------------------------------------------------------------------------
(* Ports.                                                                   *)

\* Bounds: a plain number, and one that has to be evaluated.
Plain(n) == [text |-> <<DigitChars[n + 1]>>, value |-> n]
WidthMinus1 == [text |-> <<"W", "-", "1">>, value |-> 3]

From(msb, lsb) == [msb |-> msb, lsb |-> lsb]
Nibble == <<From(Plain(3), Plain(0))>>
Upwards == <<From(Plain(0), Plain(1))>>
Parameterised == <<From(WidthMinus1, Plain(0))>>
NoRange == << >>

Port(name, dir, ranges) == [name |-> name, dir |-> dir, ranges |-> ranges]

Clk == Port(Word("clk"), "input", NoRange)
RstPort == Port(Word("rst"), "input", NoRange)
Sensor == Port(<<"sens", "">>, "input", NoRange)
DataPorts == << Port(Word("d"), "input", Nibble), Port(Word("s"), "input", NoRange) >>

Header == <<Clk, RstPort>> \o DataPorts
WithOutput == Append(Header, Port(Word("q"), "output", Nibble))

MCPortLists ==
  { Append(WithOutput, Port(Word("y"), None, NoRange)),
    <<Clk, Port(Word("rst_n"), None, NoRange)>> \o DataPorts \o <<Port(Word("io"), "inout", Nibble)>>,
    <<Clk, Sensor>> \o DataPorts \o <<Port(Word("e"), None, NoRange), Port(Word("f"), None, Upwards)>>,
    <<Clk, Port(Word("r"), "ref", NoRange)>>,
    <<Port(Word("rst"), "input", Upwards), Port(Word("clock"), None, NoRange),
      Port(Word("d"), "output", Parameterised), Port(Word("s"), None, Nibble \o Upwards)>> }

-----------------------------------------------------------------------------
(* Expressions.                                                             *)

Ref(n) == Node("name", Word(n), << >>)
Literal(size, base, digits) ==
  Node("number", [size |-> size, base |-> base, digits |-> digits], << >>)
Lit(v, w) ==
  IF w = 32 THEN Literal(<< >>, << >>, <<DigitChars[v + 1]>>)
            ELSE Literal(<<DigitChars[w + 1]>>, <<"d">>, <<DigitChars[v + 1]>>)
Bin(o, l, r) == Node("binary", o, <<l, r>>)
Un(o, e) == Node("unary", o, <<e>>)
Paren(e) == Node("paren", NoAttr, <<e>>)
Cond(c, t, e) == Node("mux", NoAttr, <<c, t, e>>)
Cat(l, r) == Node("concat", NoAttr, <<l, r>>)
Index(n, e) == Node("index", Word(n), <<e>>)
Bits(n, hi, lo) == Node("range", Word(n), <<Lit(hi, 32), Lit(lo, 32)>>)
Call(f, e) == Node("call", Word(f), <<e>>)
Repeat(n, e) == Node("repeat", NoAttr, <<Lit(n, 32), e>>)
Zero == Node("literal", <<Apostrophe, "0">>, << >>)

D == Ref("d")
S == Ref("s")
Sum == Bin(<<"+">>, D, Lit(1, 4))

MCExprs ==
  { D, Lit(3, 4), Sum, Un(<<"~">>, D), Cond(S, D, Lit(0, 4)), Cat(D, S),
    Bin(<<"*">>, Paren(Sum), D), Un(<<"~">>, Paren(Sum)), Bin(<<"&">>, Un(<<"!">>, S), S),
    Cond(S, Sum, D), Cond(S, Un(<<"~">>, D), D), Cat(Sum, S), Cat(Un(<<"~">>, S), S),
    Cat(Paren(Cond(S, D, D)), S), Index("d", S), Bits("d", 2, 1), Ref("w"),
    Zero, Cond(S, D, Zero), Call("f", D), Repeat(2, Cat(D, S)) }

\* Literals whose digits include letters of the bases, whose size or value is too
\* large, and whose value is too large for its size.
LiteralsOf(sizes, bases, digits) ==
  {l \in [size : sizes, base : bases, digits : digits] :
     Legal(l) /\ (l.base = << >> => l.size = << >>)}

MCLiterals ==
  LiteralsOf({<< >>, <<"8">>, <<"8", Space>>, <<"1", "_", "2">>, <<"7", "0">>, <<"2">>}, {<<"h">>},
             {<<"1">>, <<"b">>, <<"1", "F", "b">>})
  \cup LiteralsOf({<< >>, <<"8">>},
                  {<< >>, <<"H">>, <<"s", "h">>, <<"d">>, <<"S", "B">>, <<"o">>, <<"h", Space>>},
                  {<<"1", "0">>, <<"7", "_", "1">>, <<"b", "7">>, <<"1", "D">>})

WithInside(es) == es \cup UNION {Range(e.in) : e \in es}

\* Three levels of operators at most.
MCSource ==
  WithInside(WithInside(WithInside(MCExprs)))
  \cup {Lit(0, 1), Lit(0, 4), Literal(<<"8">>, <<"h">>, <<"d", "5">>)}
  \cup {Node("number", l, << >>) : l \in MCLiterals}

-----------------------------------------------------------------------------
(* Items.                                                                   *)

Assign(t, e) == [target |-> Word(t), expr |-> e]
Stmt(f, t, e) == [form |-> f, target |-> Word(t), expr |-> e]
Ev(edge, n) == Edge(edge, Word(n))
Control(comma, events) == [comma |-> comma, events |-> events]

Assigns(as) == [kind |-> "assign", assigns |-> as]
Net(before, names, ranges, init) ==
  [kind |-> "net", before |-> before, names |-> names, ranges |-> ranges, init |-> init]
Data(keyword, names, ranges, unpacked, depth, init) ==
  [kind |-> "data", keyword |-> keyword, before |-> << >>, names |-> names, ranges |-> ranges,
   unpacked |-> unpacked, depth |-> depth, init |-> init]
Typed(type, names) ==
  [Data(type, names, NoRange, "none", Upwards[1], NoExpr) EXCEPT !.before = <<Word(type)>>]
Comb(stmts) == [kind |-> "always_comb", stmts |-> stmts]
Ff(control, stmts) ==
  [kind |-> "always_ff", conditional |-> FALSE, control |-> control, stmts |-> stmts]
FfReset(control, negated, signal, then, else) ==
  [kind |-> "always_ff", conditional |-> TRUE, control |-> control, negated |-> negated,
   signal |-> Word(signal), then |-> then, else |-> else]
Inst(module, insts) == [kind |-> "instance", module |-> module, insts |-> insts]
Conn(port, e) == [port |-> port, expr |-> e]
Latch(stmts) == [kind |-> "always", stmts |-> stmts]
Region(in) == [kind |-> "other", in |-> in]

Assignments ==
  {Assigns(<<Assign("y", e)>>) : e \in MCExprs}
  \cup {Assigns(<<Assign("y", Node("number", l, << >>))>>) : l \in MCLiterals}
  \cup {Assigns(<<Assign("w", D), Assign("q", S)>>), Assigns(<<Assign("w", D)>>)}

OneWord == From(Plain(0), Plain(0))
Variable(keyword, names, ranges, init) ==
  Data(keyword, names, ranges, "none", OneWord, init)
Memory(keyword, ranges, unpacked, depth) ==
  Data(keyword, <<Word("m")>>, ranges, unpacked, depth, NoExpr)

DeclaredItems ==
  { Net(<< >>, <<Word("w")>>, Nibble, NoExpr), Net(<< >>, <<Word("w"), Word("x")>>, Nibble, NoExpr),
    Net(<< >>, <<Word("w")>>, NoRange, S), Net(<< >>, <<Word("w")>>, NoRange, Bits("d", 2, 1)),
    Net(<<Word("W")>>, <<Word("w")>>, Parameterised, NoExpr),
    Net(<< >>, <<Word("w")>>, Upwards \o Nibble, NoExpr),
    Variable("logic", <<Word("w")>>, Nibble, NoExpr),
    Variable("logic", <<Word("w")>>, Upwards, NoExpr),
    Variable("reg", <<Word("q")>>, NoRange, NoExpr),
    Variable("reg", <<Word("q")>>, NoRange, Lit(0, 1)),
    Variable("int", <<Word("w")>>, NoRange, NoExpr),
    Variable("logic", <<Word("m"), Word("w")>>, Nibble, NoExpr),
    Typed("t", <<Word("w")>>),
    Memory("logic", Nibble, "range", Upwards[1]), Memory("logic", NoRange, "range", Upwards[1]),
    Memory("logic", Nibble, "range", OneWord), Memory("logic", Nibble, "size", Upwards[1]),
    Memory("logic", Nibble, "range", Parameterised[1]), Memory("reg", Nibble, "range", Upwards[1]) }

Combinational ==
  { Comb(<<Stmt("=", "y", D)>>), Comb(<<Stmt("=", "y", Ref("w"))>>),
    Comb(<<Stmt("+=", "y", D)>>), Comb(<<Stmt("if", "y", D)>>),
    Comb(<<Stmt("=", "y", D), Stmt("=", "q", S)>>) }

Rising == Control(FALSE, <<Ev("posedge", "clk")>>)
RisingOr(edge, n) == Control(FALSE, <<Ev("posedge", "clk"), Ev(edge, n)>>)

Clocked ==
  { Ff(Rising, <<Stmt("=", "q", D)>>),
    Ff(Rising, <<Stmt("=", "q", D), Stmt("=", "y", S)>>),
    Ff(Control(FALSE, <<Ev("negedge", "clk")>>), <<Stmt("=", "q", D)>>),
    Ff(Control(FALSE, <<Edge("posedge", <<"sens", "">>)>>), <<Stmt("=", "q", D)>>),
    Ff(RisingOr("posedge", "rst"), <<Stmt("=", "q", D)>>),
    Ff(Control(TRUE, <<Ev("posedge", "clk"), Ev("posedge", "rst")>>), <<Stmt("=", "q", D)>>),
    FfReset(RisingOr("posedge", "rst"), FALSE, "rst", Assign("q", Lit(0, 4)), Assign("q", D)),
    FfReset(RisingOr("negedge", "rst_n"), TRUE, "rst_n", Assign("q", Lit(0, 4)), Assign("q", D)),
    FfReset(RisingOr("posedge", "rst"), FALSE, "s", Assign("q", Lit(0, 4)), Assign("q", D)),
    FfReset(RisingOr("negedge", "rst"), FALSE, "rst", Assign("q", Lit(0, 4)), Assign("q", D)),
    FfReset(RisingOr("posedge", "rst"), FALSE, "rst", Assign("q", Lit(0, 4)), Assign("y", D)),
    FfReset(RisingOr("posedge", "rst"), FALSE, "rst", Assign("q", Lit(0, 4)), NoElse),
    FfReset(Control(TRUE, <<Ev("posedge", "clk"), Ev("negedge", "rst")>>), TRUE, "rst",
            Assign("q", Lit(0, 4)), Assign("q", D)),
    FfReset(Control(FALSE, <<Edge("posedge", <<"sens", "">>), Ev("posedge", "rst")>>),
            FALSE, "rst", Assign("q", Lit(0, 4)), Assign("q", D)),
    FfReset(Rising, FALSE, "rst", Assign("q", Lit(0, 4)), Assign("q", D)) }

Instances ==
  { Inst("child", <<[name |-> Word("u1"), conns |-> <<Conn("a", D), Conn("b", S)>>]>>),
    Inst("child", <<[name |-> Word("u1"), conns |-> <<Conn("b", S), Conn("a", D)>>]>>),
    Inst("child", <<[name |-> Word("u1"), conns |-> <<Conn("a", NoExpr), Conn("b", S)>>]>>),
    Inst("child", <<[name |-> Word("u1"), conns |-> <<Conn("a", D)>>],
                    [name |-> Word("u2"), conns |-> <<Conn("a", S), Conn("b", Ref("w"))>>]>>) }

MCChildPorts == <<"a", "b">>

Regions ==
  { Region(<< >>), Latch(<<Stmt("=", "y", D)>>), Region(<<Latch(<<Stmt("=", "y", D)>>)>>),
    Region(<<Variable("logic", <<Word("t")>>, NoRange, NoExpr), Comb(<<Stmt("=", "y", D)>>)>>),
    Region(<<Inst("child", <<[name |-> Word("u1"), conns |-> <<Conn("a", D)>>]>>),
             Ff(Rising, <<Stmt("=", "q", D)>>), Assigns(<<Assign("y", D)>>),
             Assigns(<<Assign("w", S)>>)>>) }

MCItems ==
  Assignments \cup DeclaredItems \cup Combinational \cup Clocked \cup Instances \cup Regions

-----------------------------------------------------------------------------
(* What is dropped.                                                         *)

\* ~(d + 1), two assignments, a net whose range has a parameter, connections out of
\* order, a combinational output, 8'hd5, a falling clock, a generate block.
Dropping ==
  { Assigns(<<Assign("y", Un(<<"~">>, Paren(Sum)))>>),
    Assigns(<<Assign("w", D), Assign("q", S)>>),
    Net(<<Word("W")>>, <<Word("w")>>, Parameterised, NoExpr),
    Inst("child", <<[name |-> Word("u1"), conns |-> <<Conn("b", S), Conn("a", D)>>]>>),
    Comb(<<Stmt("=", "y", D)>>),
    Assigns(<<Assign("y", Literal(<<"8">>, <<"h">>, <<"d", "5">>))>>),
    Ff(Control(FALSE, <<Ev("negedge", "clk")>>), <<Stmt("=", "q", D)>>),
    Region(<<Assigns(<<Assign("y", D)>>), Assigns(<<Assign("q", S)>>)>>) }
=============================================================================
