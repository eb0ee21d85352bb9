--------------------------- MODULE SvExprPrinter ---------------------------
(***************************************************************************)
(* render_expr, and a reader of what it prints.                            *)
(*                                                                         *)
(* An expression is the tree of operations behind a value: a node has a    *)
(* kind, its attribute and its operands; a "name" stands for every value   *)
(* no sv expression operation defines.  The printer writes no parentheses  *)
(* and puts a unary operator directly before its operand, so what comes    *)
(* back depends on the reader's operator precedence and on where its       *)
(* lexer cuts a run of operator characters.                                *)
(***************************************************************************)
EXTENDS SvOps, FiniteSets

CONSTANT Exprs   \* the trees that are printed

VARIABLES expr, text, reread, phase

expr_vars == <<expr, text, reread, phase>>

Node(kind, attr, in) == [kind |-> kind, attr |-> attr, in |-> in]

NoAttr == << >>

Name(n) == Node("name", <<n>>, << >>)

-----------------------------------------------------------------------------
(* The printer.  A text is a sequence of symbols; an operator is several    *)
(* symbols, one for each character.                                         *)

Id(n) == <<"id", n>>
Num(w, v) == <<"num", <<w, v>>>>
Char(c) == <<"char", c>>
Blank == Char(" ")

Operator(o) == [k \in DOMAIN o |-> Char(o[k])]

\* A constant without a size.
Unsized == 0

\* A slip: no constant has its size.
Number_unsized(value, width) == <<Num(Unsized, value)>>

Number(value, width) ==
  <<IF width = 32 \/ width = 0 THEN Num(Unsized, value) ELSE Num(width, value)>>

RECURSIVE render_expr(_), Commas(_)

Commas(in) ==
  IF Len(in) = 1 THEN render_expr(in[1])
  ELSE render_expr(in[1]) \o <<Char(","), Blank>> \o Commas(Tail(in))

render_expr(e) ==
  LET sub(k) == render_expr(e.in[k]) IN
  CASE e.kind = "name"     -> <<Id(e.attr[1])>>
    [] e.kind = "binary"   -> sub(1) \o <<Blank>> \o Operator(e.attr) \o <<Blank>> \o sub(2)
    [] e.kind = "unary"    -> Operator(e.attr) \o sub(1)
    [] e.kind = "constant" -> Number(e.attr[1], e.attr[2])
    [] e.kind = "mux"      -> sub(1) \o <<Blank, Char("?"), Blank>> \o sub(2)
                                     \o <<Blank, Char(":"), Blank>> \o sub(3)
    [] e.kind = "concat"   -> <<Char("{")>> \o Commas(e.in) \o <<Char("}")>>
    [] e.kind = "slice"    ->
         LET low == e.attr[1]
             width == e.attr[2]
         IN sub(1) \o <<Char("[")>> \o
            (IF width = 1 THEN <<Num(Unsized, low)>>
             ELSE <<Num(Unsized, low + width - 1), Char(":"), Num(Unsized, low)>>)
            \o <<Char("]")>>
    [] e.kind = "index"    -> sub(1) \o <<Char("[")>> \o sub(2) \o <<Char("]")>>

-----------------------------------------------------------------------------
(* The reader: the lexer takes the longest token, the parser knows the      *)
(* precedence and associativity of IEEE 1800, table 11-2.  A one-bit slice  *)
(* and an index by a constant have the same text, a sized number keeps the  *)
(* bits that fit, and an item of a concatenation may not be an unsized      *)
(* number (11.4.12).                                                        *)

OperatorTokens ==
  BinaryOperators \cup UnaryOperators
  \cup {<<"-", "-">>, <<"&", "&", "&">>, <<"?">>, <<":">>, <<",">>,
        <<"{">>, <<"}">>, <<"[">>, <<"]">>}

IsOperator(syms) ==
  /\ \A k \in DOMAIN syms : syms[k][1] = "char"
  /\ [k \in DOMAIN syms |-> syms[k][2]] \in OperatorTokens

RECURSIVE Lex(_)
Lex(s) ==
  IF s = << >> THEN << >>
  ELSE IF Head(s) = Blank THEN Lex(Tail(s))
  ELSE IF Head(s)[1] # "char" THEN <<Head(s)>> \o Lex(Tail(s))
  ELSE LET fits == {n \in 1..3 : n <= Len(s) /\ IsOperator(SubSeq(s, 1, n))}
           n == CHOOSE m \in fits : \A k \in fits : k <= m
       IN <<<<"op", [k \in 1..n |-> s[k][2]]>>>> \o Lex(SubSeq(s, n + 1, Len(s)))

Levels ==
  << {<<"?">>}, {<<"|", "|">>}, {<<"&", "&">>}, {<<"|">>},
     {<<"^">>, <<"~", "^">>, <<"^", "~">>}, {<<"&">>}, {<<"=", "=">>, <<"!", "=">>},
     {<<"<">>, <<"<", "=">>, <<">">>, <<">", "=">>},
     {<<"<", "<">>, <<">", ">">>, <<">", ">", ">">>},
     {<<"+">>, <<"-">>}, {<<"*">>, <<"/">>, <<"%">>} >>

Tightest == Len(Levels) + 1

Level(operator) == CHOOSE l \in DOMAIN Levels : operator \in Levels[l]

Token(o) == <<"op", o>>

NoTree == Node("error", NoAttr, << >>)
Failed == [tree |-> NoTree, rest |-> << >>]

Starts(tokens, o) == tokens # << >> /\ Head(tokens) = Token(o)

RECURSIVE ReadExpr(_, _), ReadMore(_, _, _), ReadUnary(_), ReadSelects(_, _), ReadList(_, _)

\* An expression whose operators are at least as tight as `level`.
ReadExpr(tokens, level) ==
  LET first == ReadUnary(tokens) IN
  IF first.tree = NoTree THEN Failed ELSE ReadMore(first.tree, first.rest, level)

ReadMore(left, tokens, level) ==
  IF tokens = << >> THEN [tree |-> left, rest |-> tokens]
  ELSE LET t == Head(tokens) IN
    IF t[1] = "op" /\ t[2] \in BinaryOperators /\ Level(t[2]) >= level THEN
      LET right == ReadExpr(Tail(tokens), Level(t[2]) + 1) IN
      IF right.tree = NoTree THEN Failed
      ELSE ReadMore(Node("binary", t[2], <<left, right.tree>>), right.rest, level)
    ELSE IF t = Token(<<"?">>) /\ level = 1 THEN
      LET then == ReadExpr(Tail(tokens), 1) IN
      IF then.tree = NoTree \/ ~Starts(then.rest, <<":">>) THEN Failed
      ELSE LET else == ReadExpr(Tail(then.rest), 1) IN
           IF else.tree = NoTree THEN Failed
           ELSE [tree |-> Node("mux", NoAttr, <<left, then.tree, else.tree>>),
                 rest |-> else.rest]
    ELSE [tree |-> left, rest |-> tokens]

ReadUnary(tokens) ==
  IF tokens = << >> THEN Failed
  ELSE LET t == Head(tokens) IN
    CASE t[1] = "id"  -> ReadSelects(Name(t[2]), Tail(tokens))
      [] t[1] = "num" -> LET w == IF t[2][1] = Unsized THEN 32 ELSE t[2][1] IN
           [tree |-> Node("constant", <<IF w < 31 THEN t[2][2] % 2^w ELSE t[2][2], w>>, << >>),
            rest |-> Tail(tokens)]
      [] t = Token(<<"{">>) -> ReadList(Tail(tokens), << >>)
      [] t[1] = "op" /\ t[2] \in UnaryOperators ->
           LET operand == ReadUnary(Tail(tokens)) IN
           IF operand.tree = NoTree THEN Failed
           ELSE [tree |-> Node("unary", t[2], <<operand.tree>>), rest |-> operand.rest]
      [] OTHER -> Failed

IsUnsized(t) == t[1] = "num" /\ t[2][1] = Unsized

ReadList(tokens, done) ==
  LET item == ReadExpr(tokens, 1) IN
  IF item.tree = NoTree \/ (item.tree.kind = "constant" /\ IsUnsized(Head(tokens))) THEN Failed
  ELSE IF Starts(item.rest, <<",">>) THEN ReadList(Tail(item.rest), Append(done, item.tree))
  ELSE IF Starts(item.rest, <<"}">>)
         THEN ReadSelects(Node("concat", NoAttr, Append(done, item.tree)), Tail(item.rest))
         ELSE Failed

\* Any number of bit-selects of a name, then at most one part-select; one
\* select of a concatenation.
ReadSelects(base, tokens) ==
  IF ~Starts(tokens, <<"[">>) \/ base.kind = "slice"
     \/ (base.kind = "index" /\ base.in[1].kind = "concat")
    THEN [tree |-> base, rest |-> tokens]
  ELSE LET index == ReadExpr(Tail(tokens), 1) IN
    IF index.tree = NoTree THEN Failed
    ELSE IF Starts(index.rest, <<"]">>)
      THEN ReadSelects(Node("index", NoAttr, <<base, index.tree>>), Tail(index.rest))
    ELSE IF Starts(index.rest, <<":">>) /\ index.tree.kind = "constant" THEN
      LET low == ReadExpr(Tail(index.rest), 1) IN
      IF low.tree.kind = "constant" /\ Starts(low.rest, <<"]">>)
        THEN ReadSelects(Node("slice", <<low.tree.attr[1],
                                         index.tree.attr[1] + 1 - low.tree.attr[1]>>, <<base>>),
                         Tail(low.rest))
        ELSE Failed
    ELSE Failed

Read(s) ==
  LET all == ReadExpr(Lex(s), 1) IN IF all.rest = << >> THEN all.tree ELSE NoTree

-----------------------------------------------------------------------------
ExprInit ==
  /\ expr \in Exprs
  /\ text = << >> /\ reread = NoTree /\ phase = "built"

Render ==
  /\ phase = "built"
  /\ text' = render_expr(expr)
  /\ phase' = "printed"
  /\ UNCHANGED <<expr, reread>>

ReadBack ==
  /\ phase = "printed"
  /\ reread' = Read(text)
  /\ phase' = "read"
  /\ UNCHANGED <<expr, text>>

Done == phase = "read" /\ UNCHANGED expr_vars

ExprNext == Render \/ ReadBack \/ Done

ExprSpec == ExprInit /\ [][ExprNext]_expr_vars

-----------------------------------------------------------------------------
(* Properties.                                                              *)

\* A one-bit slice is written, and read, as an index by a constant.
RECURSIVE Spelled(_)
Spelled(e) ==
  IF e.kind = "slice" /\ e.attr[2] = 1
    THEN Node("index", NoAttr, <<Spelled(e.in[1]), Node("constant", <<e.attr[1], 32>>, << >>)>>)
    ELSE [e EXCEPT !.in = [k \in DOMAIN e.in |-> Spelled(e.in[k])]]

\* How tightly the outermost operator of a printed expression binds.
Tightness(e) ==
  CASE e.kind = "binary" -> Level(e.attr)
    [] e.kind = "mux"    -> 1
    [] OTHER             -> Tightest

\* The characters of a chain of unary operators are cut where the chain is.
RECURSIVE Chain(_), Cuts(_)
Chain(e) == IF e.kind = "unary" THEN Operator(e.attr) \o Chain(e.in[1]) ELSE << >>
Cuts(e) == IF e.kind = "unary" THEN <<Token(e.attr)>> \o Cuts(e.in[1]) ELSE << >>

\* What may carry a select: a name, an element of one, and once a concatenation.
RECURSIVE Selectable(_)
Selectable(e) ==
  \/ e.kind \in {"name", "concat"}
  \/ e.kind = "index" /\ e.in[1].kind # "concat" /\ Selectable(e.in[1])
  \/ e.kind = "slice" /\ e.attr[2] = 1 /\ e.in[1].kind # "concat" /\ Selectable(e.in[1])

\* No operand needs parentheses, no constant exceeds its size, and none is an
\* item of a concatenation without one.
RECURSIVE Plain(_)
Plain(e) ==
  /\ \A k \in DOMAIN e.in : Plain(e.in[k])
  /\ CASE e.kind = "binary" -> /\ Tightness(e.in[1]) >= Level(e.attr)
                               /\ Tightness(e.in[2]) > Level(e.attr)
       [] e.kind = "unary"  -> Tightness(e.in[1]) = Tightest /\ Lex(Chain(e)) = Cuts(e)
       [] e.kind = "mux"    -> Tightness(e.in[1]) > 1
       [] e.kind \in {"slice", "index"} -> Selectable(e.in[1])
       [] e.kind = "concat" -> \A k \in DOMAIN e.in :
                                 e.in[k].kind = "constant" => e.in[k].attr[2] # 32
       [] e.kind = "constant" -> e.attr[2] < 31 => e.attr[1] < 2^e.attr[2]
       [] OTHER -> TRUE

\* The text of an expression reads back as that expression, with its widths, when
\* nothing in it would have needed parentheses (render_expr nests every operand as it
\* is) and no constant a size that is left out.
ReadsBackWhenPlain == phase = "read" /\ Plain(expr) => reread = Spelled(expr)

\* The same of every expression, however its operators are nested: "the printer
\* never invents semantics, widths, or reset priorities" (section 11 of
\* docs/dialect_relationships_and_semantic_contracts.md).
ReadsBack == phase = "read" => reread = Spelled(expr)
=============================================================================
