---------------------------- MODULE PrintfSession ----------------------------
(***************************************************************************)
(* The formatter against what it promises: the exceptions from the C       *)
(* standard, and the properties that relate Printf, PrintfStandard and     *)
(* PrintfIdeal.                                                            *)
(***************************************************************************)
EXTENDS Printf

Std == INSTANCE PrintfStandard

(* The directives that the code converts differently from the standard.  A  *)
(* precision below zero is taken as 0, not as none; a char may be unsigned; *)
(* a precision is lost when the field is filled up on the right; the buffer *)
(* limits what zeros can add; the prefix may take the place of a digit or   *)
(* be written twice.                                                        *)
IntegerException(d) ==
  LET v == Abs(Std!Argument(d))
      base == Base(d.spec)
      width == Abs(d.width)
      left == Std!IsLeft(d)
      given == d.prec # <<>>
      prec == Precision(d)
      hash == "hash" \in d.flags /\ base # 10
      octal == hash /\ v # 0 /\ base = 8
      zeros == "zero" \in d.flags /\ ~given /\ ~left
      n == IF v = 0 /\ given THEN 0 ELSE Len(Std!Numeral(v, base, LowerDigits))
      sign == IF d.spec \in Signed THEN Len(Std!SignOf(d, Std!Argument(d) < 0)) ELSE 0
      prefix == IF ~hash \/ v = 0 THEN 0 ELSE IF base = 8 THEN 1 ELSE 2
      padded == IF zeros THEN Larger(n, width) ELSE n
      all == Larger(n, prec) + prefix + sign
  IN  \/ d.spec \in Signed /\ SignedValue(d) # Std!Argument(d)
      \/ Larger(all, IF zeros THEN width ELSE 0) > NTOA_BUFFER_SIZE
      \/ left /\ prec > n + (IF octal THEN 1 ELSE 0)
      \/ given /\ d.prec[1] < 0 /\ (v = 0 \/ ("zero" \in d.flags /\ ~left /\ width > all))
      \/ octal /\ given /\ ~left /\ prec > n
      \/ hash /\ v # 0 /\ ~given /\ padded = width
           /\ CASE base = 16 -> padded < n + 2
                [] base = 8 -> padded = n
                [] base = 2 -> padded # n + 1
      \/ hash /\ v = 0 /\ given /\ base = 8 /\ prec = 0

(* A number that does not go through _ftoa unharmed: beyond its table or its *)
(* buffer, or a halfway case that carries into the point.                    *)
FixedException(d, v, p) ==
  LET longest == p + Len(Std!Numeral(v.num \div v.den + 1, 10, LowerDigits)) + 2
      tmp == (v.num % v.den) * 10 ^ p
  IN  \/ p > MaxPower
      \/ Larger(longest, IF "zero" \in d.flags THEN Abs(d.width) ELSE 0) > FTOA_BUFFER_SIZE
      \/ /\ p > 0 /\ v.side = 0
         /\ 2 * (tmp % v.den) = v.den /\ tmp \div v.den = 10 ^ p - 1

(* _etoa differs at 0 and at the powers of ten, when the rounding reaches    *)
(* ten, and in halfway cases, because it divides by an approximate power.    *)
ExponentialException(d, p) ==
  \/ d.spec \in {"g", "G"} \/ d.arg.num = 0 \/ Cardinality(Exponents(d.arg)) > 1
  \/ LET e == Std!ExponentOf(d.arg)
         m == Std!Mantissa(d.arg, e)
         near == Std!Nearest(m, m.num * 10 ^ p, m.den)
     IN  \/ FixedException(d, m, p)
         \/ 10 ^ (p + 1) \in near
         \/ e # 0 /\ 2 * ((m.num * 10 ^ p) % m.den) = m.den

FloatException(d) ==
  LET p == IF d.prec = <<>> THEN DEFAULT_FLOAT_PRECISION ELSE Precision(d)
  IN  \/ d.prec # <<>> /\ d.prec[1] < 0
      \/ d.arg.kind = "finite" /\ d.arg.num = 0 /\ d.arg.negative
      \/ d.arg.kind # "finite" /\ d.flags \cap {"zero", "space"} # {}
      \/ d.arg.kind = "nan" /\ "plus" \in d.flags
      \/ /\ d.arg.kind = "finite" /\ d.spec \in {"f", "F"}
         /\ d.arg.num > MAX_FLOAT * d.arg.den \/ FixedException(d, d.arg, p)
      \/ /\ d.arg.kind = "finite" /\ d.spec \notin {"f", "F"}
         /\ ExponentialException(d, p)

Exception(d) ==
  CASE d.spec \in Signed \cup Unsigned -> IntegerException(d)
    [] d.spec = "s" -> d.prec # <<>> /\ d.prec[1] < 0
    [] d.spec \in {"text", "c", "p"} -> FALSE
    [] OTHER -> FloatException(d)

Done == pc \in {"idle", "returned"}
Ideal == INSTANCE PrintfIdeal WITH
  pc <- IF Done THEN pc ELSE "busy",
  mem <- IF Done THEN mem ELSE Fresh, sink <- IF Done THEN sink ELSE <<>>,
  text <- IF Done THEN text ELSE <<>>

(* printf.h: whatever the entry point, the count and the steps in between,  *)
(* the buffer ends as the longest start of the text that fits and a zero    *)
(* character, nothing behind the count is touched, the value returned is    *)
(* the length of the whole text, and the text is the standard's but for the *)
(* exceptions.                                                              *)
ImplementsIdeal == Ideal!Spec

(* Of the integer directives exactly the exceptions differ from the         *)
(* standard: no flag, width or precision spoils another conversion.         *)
ExactlyStandard ==
  LET f == call.format
  IN  pc = "returned" /\ Len(f) = 1 /\ f[1].spec \in Signed \cup Unsigned =>
        (IntegerException(f[1]) <=> text # Std!StdInteger(f[1]))

(* A fixed conversion that fits is the number to within half a unit of its  *)
(* last digit, also when the rounding carries over.                         *)
RollsOver ==
  LET d == call.format[1]
      p == IF d.prec = <<>> THEN DEFAULT_FLOAT_PRECISION ELSE Precision(d)
  IN  pc = "returned" /\ Len(call.format) = 1 /\ d.spec = "f" => text \in Std!StdFixed(d, p)

==============================================================================
