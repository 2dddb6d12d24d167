--------------------------- MODULE PrintfStandard ----------------------------
(***************************************************************************)
(* What the C standard says of the directives (ISO C, 7.21.6.1), as a      *)
(* reference for the formatter: the texts that may stand for a directive.  *)
(***************************************************************************)
EXTENDS PrintfFormat

(* The numeral of v, from the highest digit. *)
Numeral(v, base, table) ==
  LET numeral[n \in Nat] ==
        IF n < base THEN <<table[n + 1]>>
        ELSE Append(numeral[n \div base], table[1 + (n % base)])
  IN  numeral[v]

HasPrecision(d) == d.prec # <<>> /\ d.prec[1] >= 0
IsLeft(d) == "left" \in d.flags \/ d.width < 0
Table(d) == IF d.spec = "X" THEN UpperDigits ELSE LowerDigits

(* A field as wide as the directive asks: filled up with zeros between sign *)
(* and digits, or with spaces.                                              *)
Field(d, zeros, head, body) ==
  LET n == Abs(d.width) - Len(head) - Len(body)
  IN  CASE IsLeft(d) -> head \o body \o Fill(" ", n)
        [] ~IsLeft(d) /\ zeros -> head \o Fill("0", n) \o body
        [] OTHER -> Fill(" ", n) \o head \o body

SignOf(d, negative) ==
  CASE negative -> <<"-">>
    [] ~negative /\ "plus" \in d.flags -> <<"+">>
    [] ~negative /\ "plus" \notin d.flags /\ "space" \in d.flags -> <<" ">>
    [] OTHER -> <<>>

Argument(d) == Narrow(d.arg, Bits[d.length], d.spec \in Signed)

StdInteger(d) ==
  LET v == Argument(d)
      numeral == IF v = 0 /\ HasPrecision(d) /\ d.prec[1] = 0 THEN <<>>
                 ELSE Numeral(Abs(v), Base(d.spec), Table(d))
      digits == (IF HasPrecision(d) THEN Fill("0", d.prec[1] - Len(numeral)) ELSE <<>>)
                  \o numeral
      alternative == "hash" \in d.flags
      prefix == CASE alternative /\ v # 0 /\ d.spec \in {"x", "X", "b"} -> <<"0", d.spec>>
                  [] alternative /\ d.spec = "o" /\ (digits = <<>> \/ digits[1] # "0")
                       -> <<"0">>
                  [] OTHER -> <<>>
      sign == IF d.spec \in Signed THEN SignOf(d, v < 0) ELSE <<>>
  IN  Field(d, "zero" \in d.flags /\ ~HasPrecision(d), sign \o prefix, digits)

(* The nearest integers to num / den: the even one of two where the double  *)
(* is exact, either of them where it is only near to the middle.            *)
Exact(d) == \E k \in 0..10 : 2 ^ k = d.den
Nearest(d, num, den) ==
  LET q == num \div den
      near == {n \in {q, q + 1} : 2 * Abs(n * den - num) <= den}
  IN  IF Exact(d) /\ near = {q, q + 1} THEN {n \in near : n % 2 = 0} ELSE near

(* The numeral of n / 10^p *)
Decimal(n, p) ==
  LET fraction == Numeral(n % (10 ^ p), 10, LowerDigits)
  IN  Numeral(n \div 10 ^ p, 10, LowerDigits)
        \o (IF p = 0 THEN <<>> ELSE <<".">> \o Fill("0", p - Len(fraction)) \o fraction)

StdSpecial(d) ==
  Field(d, FALSE, SignOf(d, d.arg.negative /\ d.arg.kind # "nan"),
        IF d.arg.kind = "nan" THEN <<"n", "a", "n">> ELSE <<"i", "n", "f">>)

StdFixed(d, p) ==
  {Field(d, "zero" \in d.flags, SignOf(d, d.arg.negative), Decimal(n, p)) :
     n \in Nearest(d.arg, d.arg.num * 10 ^ p, d.arg.den)}

(* num / den divided by the power of ten that leaves one digit *)
Mantissa(d, e) == IF e >= 0 THEN [d EXCEPT !.den = @ * 10 ^ e]
                  ELSE [d EXCEPT !.num = @ * 10 ^ (-e)]
ExponentOf(d) ==
  CHOOSE e \in (IF d.num < d.den THEN -6..-1 ELSE 0..6) :
    LET m == Mantissa(d, e) IN m.den <= m.num /\ m.num < 10 * m.den

StdExponential(d, p) ==
  LET e == ExponentOf(d.arg)
      m == Mantissa(d.arg, e)
  IN  {Field(d, "zero" \in d.flags, SignOf(d, d.arg.negative),
             Decimal(n, p) \o <<d.spec, IF e < 0 THEN "-" ELSE "+", "0",
                                LowerDigits[Abs(e) + 1]>>) :
         n \in Nearest(d.arg, m.num * 10 ^ p, m.den)}

StdText(d, precision) ==
  LET p == IF HasPrecision(d) THEN d.prec[1] ELSE precision
  IN  CASE d.spec = "text" -> {<<d.arg>>}
        [] d.spec \in Signed \cup Unsigned -> {StdInteger(d)}
        [] d.spec = "c" -> {Field(d, FALSE, <<>>, <<d.arg>>)}
        [] d.spec = "s" ->
             {Field(d, FALSE, <<>>,
                    IF HasPrecision(d) THEN SubSeq(d.arg, 1, Smaller(Len(d.arg), d.prec[1]))
                    ELSE d.arg)}
        [] d.spec = "p" -> {Fill("0", Bits["p"] \div 4 - Len(Numeral(d.arg, 16, UpperDigits)))
                              \o Numeral(d.arg, 16, UpperDigits)}
        [] d.spec \in {"f", "F"} -> IF d.arg.kind = "finite" THEN StdFixed(d, p)
                                    ELSE {StdSpecial(d)}
        [] OTHER -> IF d.arg.kind = "finite" THEN StdExponential(d, p)
                    ELSE {StdSpecial(d)}

(* The texts of a format *)
StdTexts(format, precision) ==
  LET texts[n \in 0..Len(format)] ==
        IF n = 0 THEN {<<>>}
        ELSE {s \o t : s \in texts[n - 1], t \in StdText(format[n], precision)}
  IN  texts[Len(format)]

==============================================================================
