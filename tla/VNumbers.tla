------------------------------ MODULE VNumbers ------------------------------
(***************************************************************************)
(* parse_number_literal: the value and width of a number from its text.    *)
(*                                                                         *)
(* A literal is a size, a base and digits, each a sequence of characters;  *)
(* the text is their characters in a row, as node_text gives it.  Real     *)
(* numbers and the digits x, z and ? are left out.                         *)
(***************************************************************************)
EXTENDS Naturals, Sequences, SequencesExt

CONSTANTS
  WordBits,  \* bits of a value: 64, a u64, in the code
  SizeBits   \* bits of a width: 32, a u32, in the code

ASSUME BitsAssumption ==
  /\ WordBits \in Nat /\ SizeBits \in Nat
  /\ {2^WordBits, 2^SizeBits} \subseteq Nat \ {0}

Apostrophe == "'"
Space == " "

-----------------------------------------------------------------------------
DigitChars ==
  <<"0", "1", "2", "3", "4", "5", "6", "7", "8", "9", "a", "b", "c", "d", "e", "f">>
UpperChars ==
  <<"0", "1", "2", "3", "4", "5", "6", "7", "8", "9", "A", "B", "C", "D", "E", "F">>

DigitOf(c) == (CHOOSE k \in 1..16 : DigitChars[k] = c \/ UpperChars[k] = c) - 1

IsDigit(c, radix) == \E k \in 1..radix : DigitChars[k] = c \/ UpperChars[k] = c

\* The number a text stands for; one that is empty or holds another character stands
\* for none.
FromRadix(text, radix, otherwise) ==
  IF text = << >> \/ \E k \in DOMAIN text : ~IsDigit(text[k], radix) THEN otherwise
  ELSE FoldLeft(LAMBDA sum, c : radix * sum + DigitOf(c), 0, text)

\* from_str_radix into an unsigned integer of `bits` bits: a larger number has no value.
Parsed(text, radix, bits, otherwise) ==
  LET n == FromRadix(text, radix, otherwise) IN IF n < 2^bits THEN n ELSE otherwise

\* int_attr: the bits of the value that the width has room for.
int_attr(width, value) == IF width < WordBits THEN value % 2^width ELSE value

Without(c, text) == SelectSeq(text, LAMBDA x : x # c)

BaseLetters == {"b", "B", "d", "D", "h", "H", "s", "S", "o", "O"}

\* A slip: only what the base says is cut off.
TrimBase_once(text) ==
  IF text # << >> /\ Head(text) \in BaseLetters THEN Tail(text) ELSE text

\* Every leading base letter is cut off, digits that look like one included.
TrimBase(text) ==
  LET keep == {k \in 1..Len(text) + 1 :
                 k = Len(text) + 1 \/ text[k] \notin BaseLetters}
      first == CHOOSE k \in keep : \A j \in keep : k <= j
  IN SubSeq(text, first, Len(text))

Holds(text, letters) == \E k \in DOMAIN text : text[k] \in letters

Radix(text) ==
  CASE Holds(text, {"h", "H"}) -> 16
    [] ~Holds(text, {"h", "H"}) /\ Holds(text, {"b", "B"}) -> 2
    [] ~Holds(text, {"h", "H", "b", "B"}) /\ Holds(text, {"o", "O"}) -> 8
    [] OTHER -> 10

\* Without an apostrophe, a decimal of 32 bits.
parse_number_literal(text) ==
  IF ~Holds(text, {Apostrophe})
    THEN [value |-> Parsed(Without("_", text), 10, WordBits, 0), width |-> 32]
    ELSE LET cut == CHOOSE k \in DOMAIN text :
                      text[k] = Apostrophe /\ ~Holds(SubSeq(text, 1, k - 1), {Apostrophe})
             size == SubSeq(text, 1, cut - 1)
             rest == SubSeq(text, cut + 1, Len(text))
         IN [value |-> Parsed(Without("_", TrimBase(rest)), Radix(rest), WordBits, 0),
             width |-> Parsed(size, 10, SizeBits, 32)]

-----------------------------------------------------------------------------
(* A literal as it is written.                                              *)

Text(l) ==
  IF l.base = << >> THEN l.digits ELSE l.size \o <<Apostrophe>> \o l.base \o l.digits

-----------------------------------------------------------------------------
(* What the literal says: IEEE 1800, 5.7.1.                                 *)

BaseOf(l) ==
  CASE Holds(l.base, {"h", "H"}) -> 16
    [] Holds(l.base, {"b", "B"}) -> 2
    [] Holds(l.base, {"o", "O"}) -> 8
    [] OTHER                     -> 10

Legal(l) == l.digits[1] # "_"
            /\ \A k \in DOMAIN l.digits : l.digits[k] = "_" \/ IsDigit(l.digits[k], BaseOf(l))

\* A base names one radix.
OneRadix(base) ==
  \E k \in DOMAIN base :
    /\ base[k] \in BaseLetters \ {"s", "S"}
    /\ \A j \in DOMAIN base : base[j] \in BaseLetters \ {"s", "S"} => j = k

\* What the grammar takes for a literal: a size does not begin with zero, and a plain
\* decimal has none.
IsLiteral(l) ==
  /\ l.size \in Seq({DigitChars[k] : k \in 1..10} \cup {Space, "_"})
  /\ l.size # << >> => l.size[1] \notin {"0", Space, "_"}
  /\ l.base \in Seq(BaseLetters \cup {Space})
  /\ l.digits \in Seq({DigitChars[k] : k \in 1..16} \cup {UpperChars[k] : k \in 1..16} \cup {"_"})
  /\ l.digits # << >> /\ Legal(l)
  /\ IF l.base = << >> THEN l.size = << >> ELSE OneRadix(l.base)

SizeSaid(l) ==
  FromRadix(IF Holds(l.size, {Space, "_"}) THEN Without(Space, Without("_", l.size)) ELSE l.size,
            10, 32)

ValueSaid(l) == FromRadix(Without("_", l.digits), BaseOf(l), 0)

\* A value too large for its size keeps the low bits.
Said(l) == [value |-> int_attr(SizeSaid(l), ValueSaid(l)), width |-> SizeSaid(l)]

\* Value and size are within the machine's.
Fits(l) == ValueSaid(l) < 2^WordBits /\ SizeSaid(l) < 2^SizeBits

\* No space inside, no "_" in the size, and a first digit that is no base letter.
Tight(l) ==
  /\ ~Holds(Text(l), {Space}) /\ ~Holds(l.size, {"_"})
  /\ l.base # << >> => l.digits[1] \notin BaseLetters
=============================================================================
