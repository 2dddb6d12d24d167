---------------------------- MODULE PrintfFormat -----------------------------
(***************************************************************************)
(* What a format is made of, for the formatter (Printf) and for the        *)
(* standard it follows (PrintfStandard).                                   *)
(*                                                                         *)
(* A format is a sequence of items.  An item is a piece of plain text or   *)
(* the directive that the parser reads at a '%', with the argument that    *)
(* va_arg takes for it: the letters of a directive are not modelled, the   *)
(* record they stand for is.  Characters are strings of one letter.        *)
(***************************************************************************)
EXTENDS Integers, Sequences, SequencesExt

CONSTANTS
  Bits,        \* widths of the C types, by length modifier; "p" is a pointer
  CharSigned   \* plain char is signed: FALSE on RISC-V, TRUE on x86

NUL == "nul"
LowerDigits == <<"0", "1", "2", "3", "4", "5", "6", "7", "8", "9",
                 "a", "b", "c", "d", "e", "f">>
UpperDigits == <<"0", "1", "2", "3", "4", "5", "6", "7", "8", "9",
                 "A", "B", "C", "D", "E", "F">>

Smaller(a, b) == IF a < b THEN a ELSE b
Larger(a, b) == IF a < b THEN b ELSE a
Abs(n) == IF n < 0 THEN -n ELSE n

(* n times c; nothing when n is not positive *)
Fill(c, n) == [i \in 1..n |-> c]

(* The fields of a directive: a negative width or precision is one given by *)
(* '*'; prec is empty when there is no '.'.                                 *)
Directive(spec, flags, width, prec, length, arg) ==
  [spec |-> spec, flags |-> flags, width |-> width, prec |-> prec,
   length |-> length, arg |-> arg]

Text(c) == Directive("text", {}, 0, <<>>, "", c)

Signed == {"d", "i"}
Unsigned == {"u", "x", "X", "o", "b"}
Base(spec) == CASE spec \in {"x", "X"} -> 16 [] spec = "o" -> 8
                [] spec = "b" -> 2 [] OTHER -> 10

(* The conversion of an argument to a type of so many bits. *)
Narrow(v, bits, signed) ==
  LET u == v % (2 ^ bits)
  IN  IF signed /\ 2 * u >= 2 ^ bits THEN u - 2 ^ bits ELSE u

(* A double: nan, infinite, or num / den.  side is where the product of its *)
(* fraction and a power of ten lies that is halfway in decimal: doubles of   *)
(* fractions that are not sums of powers of two are rounded, and so is the   *)
(* product, below it (25.95), on it (0.95) or above (2.95).                  *)
Double(kind, negative, num, den, side) ==
  [kind |-> kind, negative |-> negative, num |-> num, den |-> den, side |-> side]

==============================================================================
