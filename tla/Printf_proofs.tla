---------------------------- MODULE Printf_proofs ----------------------------
(***************************************************************************)
(* Theorems about Printf, for conversion buffers, types and memory of any  *)
(* size and for all calls.                                                 *)
(***************************************************************************)
EXTENDS Printf, SequenceTheorems, FiniteSetTheorems, TLAPS

(* A sequence, of whatever elements. *)
IsSeq(s) == \E S : s \in Seq(S)

LEMMA LenNat == ASSUME NEW s, IsSeq(s) PROVE Len(s) \in Nat
  BY LenProperties DEF IsSeq

LEMMA EmptyIsSeq == IsSeq(<<>>) /\ Len(<<>>) = 0
<1>1. <<>> \in Seq({}) /\ Len(<<>>) = 0
  BY EmptySeq
<1> QED BY <1>1 DEF IsSeq

LEMMA OneIsSeq == ASSUME NEW c PROVE IsSeq(<<c>>) /\ Len(<<c>>) = 1
<1>1. <<c>> \in Seq({c})
  OBVIOUS
<1>2. Len(<<c>>) = 1
  OBVIOUS
<1> QED BY <1>1, <1>2 DEF IsSeq

LEMMA ConcatIsSeq ==
  ASSUME NEW s, NEW t, IsSeq(s), IsSeq(t)
  PROVE  /\ IsSeq(s \o t) /\ Len(s \o t) = Len(s) + Len(t)
         /\ \A i \in 1..(Len(s) + Len(t)) :
              (s \o t)[i] = IF i <= Len(s) THEN s[i] ELSE t[i - Len(s)]
<1>1. PICK S : s \in Seq(S)
  BY DEF IsSeq
<1>2. PICK T : t \in Seq(T)
  BY DEF IsSeq
<1>3. s \in Seq(S \cup T) /\ t \in Seq(S \cup T)
  <2>1. S \subseteq S \cup T /\ T \subseteq S \cup T
    OBVIOUS
  <2>2. s \in Seq(S \cup T)
    BY <1>1, <2>1, SeqMonotonic
  <2>3. t \in Seq(S \cup T)
    BY <1>2, <2>1, SeqMonotonic
  <2> QED BY <2>2, <2>3
<1> DEFINE U == S \cup T
<1>4. s \in Seq(U) /\ t \in Seq(U)
  BY <1>3
<1> HIDE DEF U
<1>5. s \o t \in Seq(U) /\ Len(s \o t) = Len(s) + Len(t)
      /\ \A i \in 1..(Len(s) + Len(t)) :
              (s \o t)[i] = IF i <= Len(s) THEN s[i] ELSE t[i - Len(s)]
  BY <1>4, ConcatProperties
<1> QED BY <1>5 DEF IsSeq

(* A function on 1..n is a sequence of length n. *)
LEMMA FunctionIsSeq ==
  ASSUME NEW n \in Nat, NEW S, NEW f \in [1..n -> S]
  PROVE  IsSeq(f) /\ Len(f) = n
<1>1. f \in Seq(S)
  OBVIOUS
<1>2. Len(f) = n
  BY <1>1, LenProperties
<1> QED BY <1>1, <1>2 DEF IsSeq

LEMMA FillIsSeq ==
  ASSUME NEW c, NEW n \in Int
  PROVE  IsSeq(Fill(c, n)) /\ Len(Fill(c, n)) = (IF n < 0 THEN 0 ELSE n)
<1>1. CASE n >= 0
  <2>1. n \in Nat /\ Fill(c, n) \in [1..n -> {c}]
    BY <1>1 DEF Fill
  <2>2. IsSeq(Fill(c, n)) /\ Len(Fill(c, n)) = n
    BY <2>1, FunctionIsSeq
  <2> QED BY <1>1, <2>2
<1>2. CASE n < 0
  <2>1. Fill(c, n) \in [1..0 -> {c}]
    <3>1. 1..n = 1..0
      BY <1>2
    <3> QED BY <3>1 DEF Fill
  <2>2. IsSeq(Fill(c, n)) /\ Len(Fill(c, n)) = 0
    BY <2>1, FunctionIsSeq
  <2> QED BY <1>2, <2>2
<1> QED BY <1>1, <1>2

LEMMA StartIsSeq ==
  ASSUME NEW s, IsSeq(s), NEW n \in Int, n <= Len(s)
  PROVE  IsSeq(SubSeq(s, 1, n)) /\ Len(SubSeq(s, 1, n)) = (IF n < 0 THEN 0 ELSE n)
<1>1. PICK S : s \in Seq(S)
  BY DEF IsSeq
<1>2. \A i \in 1..n : s[i] \in S
  BY <1>1, ElementOfSeq, LenProperties
<1>3. SubSeq(s, 1, n) \in Seq(S)
      /\ Len(SubSeq(s, 1, n)) = IF 1 <= n THEN n - 1 + 1 ELSE 0
  BY <1>2, SubSeqProperties
<1> QED BY <1>3 DEF IsSeq

LEMMA ReverseIsSeq ==
  ASSUME NEW s, IsSeq(s)
  PROVE  IsSeq(Reverse(s)) /\ Len(Reverse(s)) = Len(s)
<1>1. PICK S : s \in Seq(S)
  BY DEF IsSeq
<1>2. Len(s) \in Nat /\ s \in [1..Len(s) -> S]
  BY <1>1, LenProperties
<1>3. Reverse(s) \in [1..Len(s) -> S]
  BY <1>2 DEF Reverse
<1> QED BY <1>2, <1>3, FunctionIsSeq

(* However large the number, there are no more digits than room. *)
LEMMA DigitsBounded ==
  ASSUME NEW v, NEW base, NEW room \in Nat, NEW table
  PROVE  /\ IsSeq(Digits(v, base, room, table))
         /\ Len(Digits(v, base, room, table)) <= room
<1> DEFINE K == {k \in 0..(room - 1) : k = 0 \/ base ^ k <= v}
           e == [i \in 1..Cardinality(K) |-> table[1 + ((v \div base ^ (i - 1)) % base)]]
<1>1. IsFiniteSet(0..(room - 1)) /\ Cardinality(0..(room - 1)) = room
  BY FS_Interval
<1>2. K \in SUBSET (0..(room - 1))
  OBVIOUS
<1>3. Cardinality(K) \in Nat /\ Cardinality(K) <= room
  <2> HIDE DEF K
  <2>1. IsFiniteSet(K) /\ Cardinality(K) <= room
    BY <1>1, <1>2, FS_Subset
  <2> QED BY <2>1, FS_CardinalityType
<1>4. Digits(v, base, room, table) = e
  BY DEF Digits
<1>5. e \in [1..Cardinality(K) -> {e[i] : i \in 1..Cardinality(K)}]
  <2> HIDE DEF K
  <2> QED OBVIOUS
<1>6. IsSeq(e) /\ Len(e) = Cardinality(K)
  <2> HIDE DEF K, e
  <2> QED BY <1>3, <1>5, FunctionIsSeq
<1> QED
  <2> HIDE DEF K, e
  <2> QED BY <1>3, <1>4, <1>6

(* Adding to a buffer stays within its size. *)
LEMMA PushBounded ==
  ASSUME NEW buf, NEW more, NEW size \in Nat, IsSeq(buf), IsSeq(more), Len(buf) <= size
  PROVE  IsSeq(Push(buf, more, size)) /\ Len(Push(buf, more, size)) <= size
<1> DEFINE n == Smaller(Len(more), size - Len(buf))
<1>1. n \in Int /\ n <= Len(more) /\ n <= size - Len(buf) /\ n >= 0
  BY LenNat DEF Smaller
<1> HIDE DEF n
<1>2. IsSeq(SubSeq(more, 1, n)) /\ Len(SubSeq(more, 1, n)) = n
  BY <1>1, StartIsSeq
<1>3. Len(buf) + n <= size
  BY <1>1, LenNat
<1> QED BY <1>2, <1>3, ConcatIsSeq DEF Push, n

LEMMA ZerosBounded ==
  ASSUME NEW buf, NEW n \in Int, NEW size \in Nat, IsSeq(buf), Len(buf) <= size
  PROVE  IsSeq(ZerosTo(buf, n, size)) /\ Len(ZerosTo(buf, n, size)) <= size
<1> DEFINE m == Smaller(n, size) - Len(buf)
<1>1. m \in Int /\ Len(buf) + m <= size
  BY LenNat DEF Smaller
<1> HIDE DEF m
<1>2. IsSeq(Fill("0", m)) /\ Len(Fill("0", m)) = (IF m < 0 THEN 0 ELSE m)
  BY <1>1, FillIsSeq
<1>3. IsSeq(buf \o Fill("0", m))
      /\ Len(buf \o Fill("0", m)) = Len(buf) + Len(Fill("0", m))
  BY <1>2, ConcatIsSeq
<1> QED BY <1>1, <1>2, <1>3, LenNat DEF ZerosTo, m

------------------------------------------------------------------------------
(* Numeric conversions. *)

Exponential(e) ==
  /\ e = [value |-> e.value, symbol |-> e.symbol, digits |-> e.digits,
          start |-> e.start, width |-> e.width, next |-> e.next]
  /\ e.digits \in Int /\ e.start \in Int /\ e.width \in Int

(* A conversion whose characters fit its buffer. *)
ConvOK(c) ==
  /\ c = [buf |-> c.buf, size |-> c.size, negative |-> c.negative, base |-> c.base,
          prec |-> c.prec, width |-> c.width, flags |-> c.flags,
          exponent |-> c.exponent]
  /\ c.size \in Nat /\ c.prec \in Int /\ c.width \in Int
  /\ IsSeq(c.buf) /\ Len(c.buf) <= c.size
  /\ c.exponent # <<>> => Exponential(c.exponent[1])

LEMMA RebufferOK ==
  ASSUME NEW c, ConvOK(c), NEW b, IsSeq(b), Len(b) <= c.size
  PROVE  ConvOK([c EXCEPT !.buf = b])
  BY DEF ConvOK

LEMMA NoConvOK == ConvOK(NoConv)
<1>1. NTOA_BUFFER_SIZE \in Nat
  BY PrintfAssumption
<1> QED BY <1>1, EmptyIsSeq DEF ConvOK, NoConv

LEMMA PaddedOK == ASSUME NEW c, ConvOK(c) PROVE ConvOK(Padded(c))
<1> DEFINE w == WidthOfZeros(c)
           b1 == ZerosTo(c.buf, c.prec, c.size)
           z == IF "zero" \in c.flags THEN w ELSE 0
           b2 == ZerosTo(b1, z, c.size)
<1>1. w \in Int
  BY DEF ConvOK, WidthOfZeros
<1>2. z \in Int
  BY <1>1
<1>3. IsSeq(b1) /\ Len(b1) <= c.size
  BY ZerosBounded DEF ConvOK
<1> HIDE DEF w, b1, z
<1>4. IsSeq(b2) /\ Len(b2) <= c.size
  BY <1>2, <1>3, ZerosBounded DEF ConvOK
<1> HIDE DEF b2
<1>5. Padded(c) = IF "left" \in c.flags THEN c ELSE [c EXCEPT !.buf = b2, !.width = w]
  BY DEF Padded, b2, b1, z, w
<1>6. ConvOK([c EXCEPT !.buf = b2, !.width = w])
  <2> DEFINE d == [c EXCEPT !.buf = b2]
  <2>1. ConvOK(d)
    BY <1>4, RebufferOK
  <2>2. [c EXCEPT !.buf = b2, !.width = w] = [d EXCEPT !.width = w]
    OBVIOUS
  <2> HIDE DEF d
  <2>3. ConvOK([d EXCEPT !.width = w])
    BY <1>1, <2>1 DEF ConvOK
  <2> QED BY <2>2, <2>3
<1> QED BY <1>5, <1>6

LEMMA HashedOK == ASSUME NEW c, ConvOK(c) PROVE ConvOK(Hashed(c))
<1> DEFINE letter == CASE c.base = 16 /\ "uppercase" \in c.flags -> <<"X">>
                       [] c.base = 16 /\ "uppercase" \notin c.flags -> <<"x">>
                       [] c.base = 2 -> <<"b">>
                       [] OTHER -> <<>>
           b == Push(MakeRoom(c), letter \o <<"0">>, c.size)
<1>1. IsSeq(letter)
  BY EmptyIsSeq, OneIsSeq
<1> HIDE DEF letter
<1>2. IsSeq(letter \o <<"0">>)
  BY <1>1, OneIsSeq, ConcatIsSeq
<1>3. IsSeq(MakeRoom(c)) /\ Len(MakeRoom(c)) <= c.size
  <2> DEFINE n == Len(c.buf)
             k == IF "precision" \in c.flags \/ n = 0 \/ n \notin {c.prec, c.width}
                  THEN 0 ELSE IF n > 1 /\ c.base = 16 THEN 2 ELSE 1
  <2>1. n \in Nat /\ n <= c.size /\ k \in 0..2 /\ k <= n
    BY LenNat DEF ConvOK
  <2> HIDE DEF n, k
  <2>2. n - k \in Int /\ n - k <= n /\ n - k >= 0
    BY <2>1
  <2>3. IsSeq(SubSeq(c.buf, 1, n - k)) /\ Len(SubSeq(c.buf, 1, n - k)) = n - k
    BY <2>2, StartIsSeq DEF ConvOK, n
  <2>4. n - k <= c.size
    BY <2>1 DEF ConvOK
  <2> QED BY <2>3, <2>4 DEF MakeRoom, n, k
<1>4. IsSeq(b) /\ Len(b) <= c.size
  BY <1>2, <1>3, PushBounded DEF ConvOK
<1> HIDE DEF b
<1>5. Hashed(c) = IF "hash" \in c.flags THEN [c EXCEPT !.buf = b] ELSE c
  BY DEF Hashed, b, letter
<1> QED BY <1>4, <1>5, RebufferOK

LEMMA WithSignOK == ASSUME NEW c, ConvOK(c) PROVE ConvOK(WithSign(c))
<1> DEFINE sign == CASE c.negative -> <<"-">>
                     [] ~c.negative /\ "plus" \in c.flags -> <<"+">>
                     [] ~c.negative /\ "plus" \notin c.flags /\ "space" \in c.flags
                          -> <<" ">>
                     [] OTHER -> <<>>
           b == Push(c.buf, sign, c.size)
<1>1. IsSeq(sign)
  BY EmptyIsSeq, OneIsSeq
<1> HIDE DEF sign
<1>2. IsSeq(b) /\ Len(b) <= c.size
  BY <1>1, PushBounded DEF ConvOK
<1> HIDE DEF b
<1>3. WithSign(c) = [c EXCEPT !.buf = b]
  BY DEF WithSign, b, sign
<1> QED BY <1>2, <1>3, RebufferOK

LEMMA ReversedIsSeq == ASSUME NEW c, ConvOK(c) PROVE IsSeq(Reversed(c))
<1> DEFINE spaces == Fill(" ", c.width - Len(c.buf))
           left == IF c.flags \cap {"left", "zero"} = {} THEN spaces ELSE <<>>
           right == IF "left" \in c.flags THEN spaces ELSE <<>>
<1>1. c.width - Len(c.buf) \in Int
  BY LenNat DEF ConvOK
<1>2. IsSeq(spaces)
  BY <1>1, FillIsSeq
<1> HIDE DEF spaces
<1>3. IsSeq(left) /\ IsSeq(right)
  BY <1>2, EmptyIsSeq
<1>4. IsSeq(Reverse(c.buf))
  BY ReverseIsSeq DEF ConvOK
<1> HIDE DEF left, right
<1>5. IsSeq(left \o Reverse(c.buf) \o right)
  BY <1>3, <1>4, ConcatIsSeq
<1> QED BY <1>5 DEF Reversed, left, right, spaces

LEMMA NtoaOK ==
  ASSUME NEW v, NEW negative, NEW base, NEW prec \in Int, NEW width \in Int, NEW flags,
         NEW exponent, exponent # <<>> => Exponential(exponent[1])
  PROVE  ConvOK(Ntoa(v, negative, base, prec, width, flags, exponent))
<1> DEFINE table == IF "uppercase" \in flags THEN UpperDigits ELSE LowerDigits
           digits == Digits(v, base, NTOA_BUFFER_SIZE, table)
           buf == IF "precision" \notin flags \/ v # 0 THEN digits ELSE <<>>
<1>1. NTOA_BUFFER_SIZE \in Nat
  BY PrintfAssumption
<1> HIDE DEF table
<1>2. IsSeq(digits) /\ Len(digits) <= NTOA_BUFFER_SIZE
  BY <1>1, DigitsBounded
<1> HIDE DEF digits
<1>3. IsSeq(buf) /\ Len(buf) <= NTOA_BUFFER_SIZE
  BY <1>1, <1>2, EmptyIsSeq
<1> HIDE DEF buf
<1>4. Ntoa(v, negative, base, prec, width, flags, exponent)
        = [buf |-> buf, size |-> NTOA_BUFFER_SIZE, negative |-> negative,
           base |-> base, prec |-> prec, width |-> width,
           flags |-> IF v = 0 THEN flags \ {"hash"} ELSE flags, exponent |-> exponent]
  BY DEF Ntoa, buf, digits, table
<1> QED BY <1>1, <1>3, <1>4 DEF ConvOK

LEMMA FractionIsSeq ==
  ASSUME NEW frac, NEW prec \in Int, NEW room \in Nat
  PROVE  IsSeq(Fraction(frac, prec, room))
<1> DEFINE digits == Digits(frac, 10, room, LowerDigits)
           n == IF Len(digits) > prec THEN room ELSE prec - Len(digits)
<1>1. IsSeq(digits)
  BY DigitsBounded
<1> HIDE DEF digits
<1>2. n \in Int
  BY <1>1, LenNat
<1> HIDE DEF n
<1>3. IsSeq(digits \o Fill("0", n) \o <<".">>)
  BY <1>1, <1>2, FillIsSeq, OneIsSeq, ConcatIsSeq
<1> QED BY <1>3, EmptyIsSeq DEF Fraction, digits, n

LEMMA FtoaOK ==
  ASSUME NEW d, NEW precision \in Int, NEW width \in Int, NEW flags, NEW exponent,
         exponent # <<>> => Exponential(exponent[1])
  PROVE  ConvOK(Ftoa(d, precision, width, flags, exponent))
<1> DEFINE given == IF "precision" \in flags THEN precision ELSE DEFAULT_FLOAT_PRECISION
           zeros == Fill("0", Smaller(given - MaxPower, FTOA_BUFFER_SIZE))
           prec == given - Len(zeros)
           r == Rounded(d, Smaller(prec, MaxPower))
           fraction == Fraction(r.frac, prec, FTOA_BUFFER_SIZE)
           digits == Push(zeros, fraction, FTOA_BUFFER_SIZE)
           whole == Digits(r.whole, 10, FTOA_BUFFER_SIZE, LowerDigits)
           buf == Push(digits, whole, FTOA_BUFFER_SIZE)
           c == [buf |-> buf, size |-> FTOA_BUFFER_SIZE,
                 negative |-> d.negative /\ d.num > 0, base |-> 10, prec |-> 0,
                 width |-> width, flags |-> flags, exponent |-> exponent]
<1>1. FTOA_BUFFER_SIZE \in Nat /\ MaxPower \in Nat /\ DEFAULT_FLOAT_PRECISION \in Nat
  BY PrintfAssumption
<1>2. given \in Int
  BY <1>1
<1> HIDE DEF given
<1>3. /\ Smaller(given - MaxPower, FTOA_BUFFER_SIZE) \in Int
      /\ Smaller(given - MaxPower, FTOA_BUFFER_SIZE) <= FTOA_BUFFER_SIZE
  BY <1>1, <1>2 DEF Smaller
<1>4. IsSeq(zeros) /\ Len(zeros) <= FTOA_BUFFER_SIZE
  BY <1>1, <1>3, FillIsSeq
<1> HIDE DEF zeros
<1>5. prec \in Int
  BY <1>2, <1>4, LenNat
<1> HIDE DEF prec, r
<1>6. IsSeq(fraction)
  BY <1>1, <1>5, FractionIsSeq
<1> HIDE DEF fraction
<1>7. IsSeq(digits) /\ Len(digits) <= FTOA_BUFFER_SIZE
  BY <1>1, <1>4, <1>6, PushBounded
<1> HIDE DEF digits
<1>8. IsSeq(whole)
  BY <1>1, DigitsBounded
<1> HIDE DEF whole
<1>9. IsSeq(buf) /\ Len(buf) <= FTOA_BUFFER_SIZE
  BY <1>1, <1>7, <1>8, PushBounded
<1> HIDE DEF buf
<1>10. ConvOK(c)
  BY <1>1, <1>9 DEF ConvOK
<1> HIDE DEF c
<1>11. Ftoa(d, precision, width, flags, exponent)
         = IF "zero" \in flags THEN Padded(c) ELSE c
  BY DEF Ftoa, c, buf, whole, digits, fraction, r, prec, zeros, given
<1> QED BY <1>10, <1>11, PaddedOK

LEMMA SpecialOK ==
  ASSUME NEW d, NEW width \in Int, NEW flags
  PROVE  ConvOK(Special(d, width, flags))
<1> DEFINE buf == CASE d.kind = "nan" -> <<"n", "a", "n">>
                    [] d.kind # "nan" /\ d.negative -> <<"f", "n", "i", "-">>
                    [] d.kind # "nan" /\ ~d.negative /\ "plus" \in flags
                         -> <<"f", "n", "i", "+">>
                    [] OTHER -> <<"f", "n", "i">>
           S == {"f", "n", "i", "a", "-", "+"}
<1>1. /\ <<"n", "a", "n">> \in Seq(S) /\ Len(<<"n", "a", "n">>) = 3
      /\ <<"f", "n", "i">> \in Seq(S) /\ Len(<<"f", "n", "i">>) = 3
  OBVIOUS
<1>2. /\ <<"f", "n", "i", "-">> \in Seq(S) /\ Len(<<"f", "n", "i", "-">>) = 4
      /\ <<"f", "n", "i", "+">> \in Seq(S) /\ Len(<<"f", "n", "i", "+">>) = 4
  OBVIOUS
<1> HIDE DEF S
<1>3. \/ buf = <<"n", "a", "n">> \/ buf = <<"f", "n", "i">>
      \/ buf = <<"f", "n", "i", "-">> \/ buf = <<"f", "n", "i", "+">>
  BY Zenon
<1> HIDE DEF buf
<1>4. IsSeq(buf) /\ Len(buf) <= 4
  <2>1. buf \in Seq(S)
    BY <1>1, <1>2, <1>3
  <2>2. Len(buf) = 3 \/ Len(buf) = 4
    BY <1>1, <1>2, <1>3
  <2>3. IsSeq(buf)
    BY <2>1 DEF IsSeq
  <2>4. CASE Len(buf) = 3
    BY <2>3, <2>4
  <2>5. CASE Len(buf) = 4
    BY <2>3, <2>5
  <2> QED BY <2>2, <2>4, <2>5
<1>5. Special(d, width, flags)
        = [NoConv EXCEPT !.buf = buf, !.size = 4, !.width = width, !.flags = flags]
  BY DEF Special, buf
<1>6. Special(d, width, flags)
        = [buf |-> buf, size |-> 4, negative |-> FALSE, base |-> 10, prec |-> 0,
           width |-> width, flags |-> flags, exponent |-> <<>>]
  BY <1>5 DEF NoConv
<1> QED BY <1>4, <1>6 DEF ConvOK

LEMMA ExponentIsInt ==
  ASSUME NEW d, NEW e \in Exponents(d)
  PROVE  e \in Int
  BY PrintfAssumption DEF Exponents

LEMMA EtoaOK ==
  ASSUME NEW d, NEW precision \in Int, NEW width \in Int, NEW flags, idx \in Nat,
         NEW c \in Etoa(d, precision, width, flags)
  PROVE  ConvOK(c)
<1> DEFINE given == IF "precision" \in flags THEN precision ELSE DEFAULT_FLOAT_PRECISION
           fixed == "adapt_exp" \in flags /\ AtLeastPower(d, -4) /\ ~AtLeastPower(d, 6)
           Prec(e) == CASE fixed -> Larger(given - e - 1, 0)
                        [] ~fixed /\ {"adapt_exp", "precision"} \subseteq flags
                             -> Larger(given - 1, 0)
                        [] OTHER -> given
           MinWidth(e) == IF fixed THEN 0 ELSE IF Abs(e) < 100 THEN 4 ELSE 5
           FWidth(e) == IF "left" \in flags /\ ~fixed THEN 0
                        ELSE Larger(width - MinWidth(e), 0)
           Symbol == IF "uppercase" \in flags THEN "E" ELSE "e"
           After(e) == IF fixed THEN <<>>
                       ELSE <<[value |-> e, symbol |-> Symbol,
                               digits |-> MinWidth(e) - 1, start |-> idx,
                               width |-> IF "left" \in flags THEN width ELSE 0,
                               next |-> "number"]>>
           all == IF fixed THEN flags \cup {"precision"} ELSE flags
<1>1. PICK e \in Exponents(d) :
        \E v \in Rescaled(d, IF fixed THEN 0 ELSE e) :
           c = Ftoa(v, Prec(e), FWidth(e), all, After(e))
  BY DEF Etoa
<1>2. PICK v \in Rescaled(d, IF fixed THEN 0 ELSE e) :
        c = Ftoa(v, Prec(e), FWidth(e), all, After(e))
  BY <1>1
<1>3. e \in Int
  BY ExponentIsInt
<1>4. DEFAULT_FLOAT_PRECISION \in Int
  BY PrintfAssumption
<1>5. given \in Int
  BY <1>4
<1> HIDE DEF given
<1>6. Prec(e) \in Int
  <2>1. Larger(given - e - 1, 0) \in Int /\ Larger(given - 1, 0) \in Int
    BY <1>3, <1>5 DEF Larger
  <2> HIDE DEF fixed
  <2> QED BY <2>1, <1>5, Zenon
<1>7. MinWidth(e) \in Int
  OBVIOUS
<1>8. FWidth(e) \in Int
  <2> HIDE DEF MinWidth
  <2>1. Larger(width - MinWidth(e), 0) \in Int
    BY <1>7 DEF Larger
  <2> HIDE DEF fixed
  <2> QED BY <2>1
<1>9. After(e) # <<>> => Exponential(After(e)[1])
  <2> DEFINE n == MinWidth(e) - 1
             field == IF "left" \in flags THEN width ELSE 0
             r == [value |-> e, symbol |-> Symbol, digits |-> n, start |-> idx,
                   width |-> field, next |-> "number"]
  <2>1. n \in Int /\ field \in Int
    <3> HIDE DEF MinWidth
    <3> QED BY <1>7
  <2>2. After(e) = IF fixed THEN <<>> ELSE <<r>>
    OBVIOUS
  <2> HIDE DEF n, field, Symbol, After
  <2>3. Exponential(r)
    BY <2>1 DEF Exponential
  <2> HIDE DEF r, fixed
  <2> QED BY <2>2, <2>3
<1> HIDE DEF Prec, FWidth, After, all, fixed
<1> QED BY <1>2, <1>6, <1>8, <1>9, FtoaOK

------------------------------------------------------------------------------
(* The calls. *)

CallOK(c) ==
  /\ c.maxlen \in 0..SIZE_MAX /\ Len(c.format) \in Nat
  /\ \A n \in 1..Len(c.format) :
       LET d == c.format[n]
       IN  /\ d.width \in Int
           /\ d.prec = <<>> \/ d.prec[1] \in Int
           /\ d.spec = "s" => d.arg = [i \in 1..Len(d.arg) |-> d.arg[i]]
                              /\ Len(d.arg) \in Nat

LEMMA CallsOK == \A c \in Calls : CallOK(c)
  BY PrintfAssumption DEF CallOK

LEMMA NoCallOK == CallOK(NoCall)
<1>1. 0 \in 0..SIZE_MAX
  BY PrintfAssumption
<1>2. Len(<<>>) = 0
  BY EmptyIsSeq
<1> QED BY <1>1, <1>2 DEF CallOK, NoCall

LEMMA ItemOK ==
  ASSUME CallOK(call), pos \in Nat \ {0}, pos <= Len(call.format)
  PROVE  /\ Width(Item) \in Int /\ Precision(Item) \in Int
         /\ Item.spec = "s" => IsSeq(Item.arg)
<1>1. pos \in 1..Len(call.format)
  BY DEF CallOK
<1>2. /\ Item.width \in Int
      /\ Item.prec = <<>> \/ Item.prec[1] \in Int
      /\ Item.spec = "s" => Item.arg = [i \in 1..Len(Item.arg) |-> Item.arg[i]]
                            /\ Len(Item.arg) \in Nat
  BY <1>1 DEF CallOK, Item
<1>3. Width(Item) \in Int /\ Precision(Item) \in Int
  BY <1>2 DEF Width, Precision, Abs, Larger
<1>4. ASSUME Item.spec = "s" PROVE IsSeq(Item.arg)
  <2> DEFINE S == {Item.arg[i] : i \in 1..Len(Item.arg)}
  <2>1. Item.arg \in [1..Len(Item.arg) -> S] /\ Len(Item.arg) \in Nat
    BY <1>2, <1>4
  <2> HIDE DEF S
  <2> QED BY <2>1, FunctionIsSeq
<1> QED BY <1>3, <1>4

Buffered == call.entry \in {"sprintf", "snprintf"} /\ ~call.null

(* The buffer holds the start of the text so far. *)
Image ==
  IF Buffered
  THEN [i \in 0..(MemSize - 1) |->
          IF i < idx /\ i < call.maxlen THEN text[i + 1] ELSE "fresh"]
  ELSE Fresh

(* The inductive invariant *)
Inv ==
  /\ CallOK(call) /\ pos \in Nat \ {0}
  /\ IsSeq(text) /\ idx = Len(text)
  /\ ConvOK(conv)
  /\ pc = "exponent" => conv.exponent # <<>>
  /\ pc # "returned" => mem = Image
  /\ pc = "idle" => idx = 0
  /\ Truncated

(* What an output leaves behind the text is the text with it. *)
LEMMA EmitOK ==
  ASSUME Inv, NEW s, IsSeq(s), Emit(s), call' = call, pc \in {"scan", "reverse", "exponent"}
  PROVE  /\ IsSeq(text') /\ idx' = Len(text') /\ mem' = Image'
<1>1. text' = text \o s /\ idx' = idx + Len(s) /\ IsSeq(text) /\ idx = Len(text)
      /\ mem = Image
  BY DEF Emit, Inv
<1>2. /\ IsSeq(text') /\ Len(text') = Len(text) + Len(s)
      /\ \A i \in 1..(Len(text) + Len(s)) :
           text'[i] = IF i <= Len(text) THEN text[i] ELSE s[i - Len(text)]
  BY <1>1, ConcatIsSeq
<1>3. idx \in Nat /\ Len(s) \in Nat /\ MemSize \in Nat /\ call.maxlen \in Nat
  BY <1>1, LenNat, PrintfAssumption DEF Inv, CallOK
<1>4. CASE Buffered
  <2>1. mem = [i \in 0..(MemSize - 1) |->
                 IF i < idx /\ i < call.maxlen THEN text[i + 1] ELSE "fresh"]
    BY <1>1, <1>4 DEF Image
  <2>2. mem' = [i \in DOMAIN mem |->
                  IF i \in idx..(idx + Len(s) - 1) /\ i < call.maxlen
                  THEN s[i - idx + 1] ELSE mem[i]]
    BY <1>4 DEF Buffered, Emit, Out, Stored
  <2>3. \A i \in 0..(MemSize - 1) :
          (IF i \in idx..(idx + Len(s) - 1) /\ i < call.maxlen
           THEN s[i - idx + 1] ELSE mem[i])
          = IF i < idx' /\ i < call.maxlen THEN text'[i + 1] ELSE "fresh"
    <3> SUFFICES ASSUME NEW i \in 0..(MemSize - 1)
                 PROVE  (IF i \in idx..(idx + Len(s) - 1) /\ i < call.maxlen
                         THEN s[i - idx + 1] ELSE mem[i])
                        = IF i < idx' /\ i < call.maxlen THEN text'[i + 1] ELSE "fresh"
      OBVIOUS
    <3>1. CASE i < idx
      <4>1. i + 1 \in 1..(Len(text) + Len(s)) /\ i + 1 <= Len(text)
        BY <1>1, <1>3, <3>1
      <4>2. text'[i + 1] = text[i + 1]
        BY <1>2, <4>1
      <4> QED BY <1>1, <1>3, <2>1, <3>1, <4>2
    <3>2. CASE i >= idx /\ i < idx + Len(s)
      <4>1. i + 1 \in 1..(Len(text) + Len(s)) /\ ~(i + 1 <= Len(text))
        BY <1>1, <1>3, <3>2
      <4>2. text'[i + 1] = s[i + 1 - Len(text)]
        BY <1>2, <4>1
      <4>3. i + 1 - Len(text) = i - idx + 1
        BY <1>1, <1>3
      <4> QED BY <1>1, <1>3, <2>1, <3>2, <4>2, <4>3
    <3>3. CASE i >= idx + Len(s)
      BY <1>1, <1>3, <2>1, <3>3
    <3> QED BY <1>3, <3>1, <3>2, <3>3
  <2>4. DOMAIN mem = 0..(MemSize - 1)
    BY <2>1
  <2>5. mem' = [i \in 0..(MemSize - 1) |->
                  IF i < idx' /\ i < call'.maxlen THEN text'[i + 1] ELSE "fresh"]
    BY <2>2, <2>3, <2>4
  <2> QED BY <1>1, <1>2, <1>4, <2>5 DEF Image, Buffered
<1>5. CASE ~Buffered
  <2>1. mem' = mem /\ mem = Fresh
    BY <1>1, <1>5 DEF Buffered, Emit, Out, Image
  <2>2. Fresh' = Fresh
    BY DEF Fresh
  <2> QED BY <1>1, <1>2, <1>5, <2>1, <2>2 DEF Image, Buffered
<1> QED BY <1>4, <1>5

(* The zero character ends the text, or the part of it that fits. *)
LEMMA ReturnOK ==
  ASSUME Inv, Return
  PROVE  Truncated'
<1>1. /\ pc = "scan" /\ pc' = "returned" /\ ret' = idx /\ Out(<<NUL>>, EndIndex)
      /\ call' = call /\ text' = text /\ idx = Len(text) /\ IsSeq(text) /\ mem = Image
  BY DEF Return, Inv
<1>2. idx \in Nat /\ MemSize \in Nat /\ SIZE_MAX \in Nat /\ call.maxlen \in 0..SIZE_MAX
  BY <1>1, LenNat, PrintfAssumption DEF Inv, CallOK
<1> DEFINE end == Smaller(idx, call.maxlen - 1)
<1>3. ASSUME Buffered
      PROVE  mem' = [i \in 0..(MemSize - 1) |->
                       IF i < end THEN text[i + 1] ELSE IF i = end THEN NUL ELSE "fresh"]
  <2>1. mem = [i \in 0..(MemSize - 1) |->
                 IF i < idx /\ i < call.maxlen THEN text[i + 1] ELSE "fresh"]
    BY <1>1, <1>3 DEF Image
  <2>2. mem' = [i \in DOMAIN mem |->
                  IF i \in EndIndex..(EndIndex + Len(<<NUL>>) - 1) /\ i < call.maxlen
                  THEN <<NUL>>[i - EndIndex + 1] ELSE mem[i]]
    BY <1>1, <1>3 DEF Buffered, Out, Stored
  <2>3. Len(<<NUL>>) = 1 /\ <<NUL>>[1] = NUL
    OBVIOUS
  <2>4. EndIndex \in Nat /\ (call.maxlen > 0 => EndIndex = end)
        /\ (call.maxlen = 0 => end = -1)
    <3>1. CASE idx < call.maxlen
      BY <1>2, <3>1 DEF EndIndex, Smaller
    <3>2. CASE ~(idx < call.maxlen)
      <4>1. EndIndex = (call.maxlen - 1) % (SIZE_MAX + 1)
        BY <3>2 DEF EndIndex
      <4>2. (call.maxlen - 1) % (SIZE_MAX + 1) \in Nat
        BY <1>2, SMT
      <4>3. call.maxlen > 0 => (call.maxlen - 1) % (SIZE_MAX + 1) = call.maxlen - 1
        BY <1>2, SMT
      <4> QED BY <1>2, <3>2, <4>1, <4>2, <4>3 DEF Smaller
    <3> QED BY <3>1, <3>2
  <2>5. \A i \in 0..(MemSize - 1) :
          (IF i \in EndIndex..(EndIndex + Len(<<NUL>>) - 1) /\ i < call.maxlen
           THEN <<NUL>>[i - EndIndex + 1] ELSE mem[i])
          = IF i < end THEN text[i + 1] ELSE IF i = end THEN NUL ELSE "fresh"
    <3> SUFFICES ASSUME NEW i \in 0..(MemSize - 1)
                 PROVE  (IF i \in EndIndex..(EndIndex + Len(<<NUL>>) - 1)
                            /\ i < call.maxlen
                         THEN <<NUL>>[i - EndIndex + 1] ELSE mem[i])
                        = IF i < end THEN text[i + 1] ELSE IF i = end THEN NUL ELSE "fresh"
      OBVIOUS
    <3>1. CASE call.maxlen > 0 /\ i = end
      <4>1. i = EndIndex /\ i < call.maxlen /\ i - EndIndex + 1 = 1
        BY <1>2, <2>4, <3>1 DEF Smaller
      <4> HIDE DEF end
      <4> QED BY <2>3, <2>4, <3>1, <4>1
    <3>2. CASE call.maxlen > 0 /\ i # end
      <4>1. ~(i \in EndIndex..(EndIndex + Len(<<NUL>>) - 1))
        BY <2>3, <2>4, <3>2
      <4>2. (i < end) <=> (i < idx /\ i < call.maxlen)
        BY <1>2, <3>2 DEF Smaller
      <4>3. mem[i] = IF i < idx /\ i < call.maxlen THEN text[i + 1] ELSE "fresh"
        BY <2>1
      <4> HIDE DEF end
      <4> QED BY <3>2, <4>1, <4>2, <4>3
    <3>3. CASE call.maxlen = 0
      <4>1. ~(i < call.maxlen) /\ ~(i < end) /\ i # end
        BY <2>4, <3>3
      <4>2. mem[i] = "fresh"
        BY <2>1, <4>1
      <4> HIDE DEF end
      <4> QED BY <4>1, <4>2
    <3> QED BY <1>2, <3>1, <3>2, <3>3
  <2>6. DOMAIN mem = 0..(MemSize - 1)
    BY <2>1
  <2> HIDE DEF end
  <2> QED BY <2>2, <2>5, <2>6
<1>4. ret' = Len(text')
  BY <1>1
<1> QED BY <1>1, <1>3, <1>4 DEF Truncated, Buffered

LEMMA FreshImage ==
  ASSUME idx = 0
  PROVE  Image = Fresh
<1>1. \A i \in 0..(MemSize - 1) : ~(i < 0)
  BY PrintfAssumption
<1> QED BY <1>1 DEF Image, Fresh

LEMMA InitOK == ASSUME Init PROVE Inv
<1>1. CallOK(call) /\ IsSeq(text) /\ idx = Len(text) /\ ConvOK(conv) /\ mem = Image
  BY NoCallOK, NoConvOK, EmptyIsSeq, FreshImage DEF Init
<1> QED BY <1>1 DEF Init, Inv, Truncated

LEMMA TakeOK == ASSUME Inv, Take PROVE Inv'
<1>1. CallOK(NoCall) /\ ConvOK(NoConv) /\ IsSeq(<<>>) /\ Len(<<>>) = 0
  BY NoCallOK, NoConvOK, EmptyIsSeq
<1>2. CallOK(call)' /\ ConvOK(conv)' /\ IsSeq(text)' /\ idx' = Len(text')
  <2>1. call' = NoCall /\ conv' = NoConv /\ text' = <<>> /\ idx' = 0
    BY DEF Take
  <2>2. CallOK(call')
    BY <1>1, <2>1
  <2>3. ConvOK(conv')
    BY <1>1, <2>1
  <2> QED BY <1>1, <2>1, <2>2, <2>3 DEF CallOK, ConvOK, Exponential
<1>3. mem' = Image'
  <2>1. call'.null
    BY DEF Take, NoCall
  <2> QED BY <2>1 DEF Take, Image, Buffered, Fresh
<1> QED BY <1>2, <1>3 DEF Take, Inv, Truncated

LEMMA CallStepOK == ASSUME Inv, Call PROVE Inv'
<1>1. CallOK(call')
  BY CallsOK DEF Call
<1>2. CallOK(call)'
  BY <1>1 DEF CallOK
<1>3. mem' = Image'
  <2>1. mem' = mem /\ idx' = 0 /\ mem = Image /\ idx = 0
    BY DEF Call, Inv
  <2>2. Image = Fresh
    BY <2>1, FreshImage
  <2>3. \A i \in 0..(MemSize - 1) : ~(i < 0)
    BY PrintfAssumption
  <2>4. Image' = Fresh
    BY <2>1, <2>3 DEF Image, Fresh
  <2> QED BY <2>1, <2>2, <2>4
<1> QED BY <1>2, <1>3 DEF Call, Inv, Truncated, ConvOK, Exponential

(* An output with nothing else than the program counter, the position and   *)
(* the conversion.                                                          *)
LEMMA EmitStepOK ==
  ASSUME Inv, NEW s, IsSeq(s), Emit(s), call' = call,
         pc \in {"scan", "reverse", "exponent"}, pc' \in {"scan", "exponent", "pad"},
         pos' \in Nat \ {0}, ConvOK(conv'), pc' = "exponent" => conv'.exponent # <<>>
  PROVE  Inv'
<1>1. IsSeq(text') /\ idx' = Len(text') /\ mem' = Image'
  BY EmitOK
<1>2. CallOK(call)'
  BY DEF Inv, CallOK
<1>3. ConvOK(conv)'
  BY DEF ConvOK, Exponential
<1>4. IsSeq(text)'
  BY <1>1 DEF IsSeq
<1>5. Truncated'
  BY DEF Truncated
<1> QED BY <1>1, <1>2, <1>3, <1>4, <1>5 DEF Inv

(* A step that sets the conversion. *)
LEMMA ConvStepOK ==
  ASSUME Inv, ConvOK(conv'), pos' \in Nat \ {0}, UNCHANGED <<call, idx, mem, text>>,
         pc \notin {"returned"}, pc' \in {"pad", "hash", "sign", "reverse"}
  PROVE  Inv'
<1>1. CallOK(call)' /\ ConvOK(conv)' /\ IsSeq(text)'
  BY DEF Inv, CallOK, ConvOK, Exponential, IsSeq
<1>2. mem' = Image'
  BY DEF Inv, Image, Buffered, Fresh
<1>3. Truncated'
  BY DEF Truncated
<1> QED BY <1>1, <1>2, <1>3 DEF Inv

LEMMA PutTextOK == ASSUME Inv, PutText PROVE Inv'
<1>1. IsSeq(<<Item.arg>>)
  BY OneIsSeq
<1>2. Emit(<<Item.arg>>) /\ pos' = pos + 1 /\ pc = "scan"
      /\ UNCHANGED <<pc, call, conv>>
  BY DEF PutText, Scanning
<1>3. pos' \in Nat \ {0} /\ ConvOK(conv')
  BY <1>2 DEF Inv
<1> QED BY <1>1, <1>2, <1>3, EmitStepOK

LEMMA PutStringOK == ASSUME Inv, PutString PROVE Inv'
<1> DEFINE d == Item
           s == CASE d.spec = "c" -> <<d.arg>>
                  [] d.spec = "s" /\ d.prec = <<>> -> d.arg
                  [] OTHER -> SubSeq(d.arg, 1, Smaller(Len(d.arg), Precision(d)))
           spaces == Fill(" ", Width(d) - Len(s))
           out == IF "left" \in Flags(d) THEN s \o spaces ELSE spaces \o s
<1>1. pc = "scan" /\ pos <= Len(call.format) /\ d.spec \in {"c", "s"} /\ Emit(out)
      /\ pos' = pos + 1 /\ UNCHANGED <<pc, call, conv>>
  BY DEF PutString, Scanning
<1>2. Width(d) \in Int /\ Precision(d) \in Int /\ (d.spec = "s" => IsSeq(d.arg))
  BY <1>1, ItemOK DEF Inv
<1> HIDE DEF d
<1>3. IsSeq(s)
  <2>1. CASE d.spec = "c"
    <3>1. s = <<d.arg>>
      BY <2>1
    <3> QED BY <3>1, OneIsSeq
  <2>2. CASE d.spec = "s" /\ d.prec = <<>>
    <3>1. s = d.arg
      BY <2>2
    <3> QED BY <1>2, <2>2, <3>1
  <2>3. CASE d.spec = "s" /\ d.prec # <<>>
    <3>1. s = SubSeq(d.arg, 1, Smaller(Len(d.arg), Precision(d)))
      BY <2>3
    <3>2. Len(d.arg) \in Nat
      BY <1>2, <2>3, LenNat
    <3>3. Smaller(Len(d.arg), Precision(d)) \in Int
          /\ Smaller(Len(d.arg), Precision(d)) <= Len(d.arg)
      BY <1>2, <3>2 DEF Smaller
    <3> QED BY <1>2, <2>3, <3>1, <3>3, StartIsSeq
  <2> QED BY <1>1, <2>1, <2>2, <2>3
<1> HIDE DEF s
<1>4. IsSeq(spaces)
  <2>1. Width(d) - Len(s) \in Int
    BY <1>2, <1>3, LenNat
  <2> QED BY <2>1, FillIsSeq
<1> HIDE DEF spaces
<1>5. IsSeq(out)
  BY <1>3, <1>4, ConcatIsSeq
<1> HIDE DEF out
<1>6. pos' \in Nat \ {0} /\ ConvOK(conv')
  BY <1>1 DEF Inv
<1> QED BY <1>1, <1>5, <1>6, EmitStepOK

LEMMA ConvertOK ==
  ASSUME Inv, NEW c, ConvOK(c), NEW step \in {"pad", "sign", "reverse"}, pc = "scan",
         Convert(step, c)
  PROVE  Inv'
<1>1. conv' = c /\ pc' = step /\ pos' \in Nat \ {0} /\ UNCHANGED <<call, idx, mem, text>>
  BY DEF Convert, Inv
<1>2. ConvOK(conv')
  BY <1>1
<1> QED BY <1>1, <1>2, ConvStepOK

LEMMA ConvertIntegerOK == ASSUME Inv, ConvertInteger PROVE Inv'
<1> DEFINE v == IF Item.spec \in Signed THEN SignedValue(Item) ELSE UnsignedValue(Item)
           c == Ntoa(Abs(v), v < 0, Base(Item.spec), Precision(Item), Width(Item),
                     IntegerFlags(Item), <<>>)
<1>1. pc = "scan" /\ pos <= Len(call.format) /\ Convert("pad", c)
  BY DEF ConvertInteger, Scanning
<1>2. Width(Item) \in Int /\ Precision(Item) \in Int
  BY <1>1, ItemOK DEF Inv
<1> HIDE DEF v
<1>3. ConvOK(c)
  BY <1>2, NtoaOK
<1> HIDE DEF c
<1> QED BY <1>1, <1>3, ConvertOK

LEMMA ConvertPointerOK == ASSUME Inv, ConvertPointer PROVE Inv'
<1> DEFINE c == Ntoa(Item.arg, FALSE, 16, Precision(Item), Bits["p"] \div 4,
                     Flags(Item) \cup {"zero"}, <<>>)
<1>1. pc = "scan" /\ pos <= Len(call.format) /\ Convert("pad", c)
  BY DEF ConvertPointer, Scanning
<1>2. Precision(Item) \in Int
  BY <1>1, ItemOK DEF Inv
<1>3. Bits["p"] \div 4 \in Int
  BY PrintfAssumption
<1>4. ConvOK(c)
  BY <1>2, <1>3, NtoaOK
<1> HIDE DEF c
<1> QED BY <1>1, <1>4, ConvertOK

LEMMA ConvertFloatOK == ASSUME Inv, ConvertFloat PROVE Inv'
<1> DEFINE d == Item.arg
           special == Special(d, Width(Item), Flags(Item))
           fixed == Ftoa(d, Precision(Item), Width(Item), Flags(Item), <<>>)
<1>1. pc = "scan" /\ pos <= Len(call.format)
  BY DEF ConvertFloat, Scanning
<1>2. Width(Item) \in Int /\ Precision(Item) \in Int
  BY <1>1, ItemOK DEF Inv
<1>3. \/ Convert("reverse", special) \/ Convert("sign", fixed)
      \/ \E c \in Etoa(d, Precision(Item), Width(Item), Flags(Item)) : Convert("sign", c)
  BY DEF ConvertFloat
<1> HIDE DEF d
<1>4. CASE Convert("reverse", special)
  <2>1. ConvOK(special)
    BY <1>2, SpecialOK
  <2> HIDE DEF special
  <2> QED BY <1>1, <1>4, <2>1, ConvertOK
<1>5. CASE Convert("sign", fixed)
  <2>1. ConvOK(fixed)
    BY <1>2, FtoaOK
  <2> HIDE DEF fixed
  <2> QED BY <1>1, <1>5, <2>1, ConvertOK
<1>6. ASSUME NEW c \in Etoa(d, Precision(Item), Width(Item), Flags(Item)),
             Convert("sign", c)
      PROVE  Inv'
  <2>1. idx \in Nat
    BY LenNat DEF Inv
  <2>2. ConvOK(c)
    BY <1>2, <2>1, EtoaOK
  <2> QED BY <1>1, <1>6, <2>2, ConvertOK
<1> HIDE DEF special, fixed
<1> QED BY <1>3, <1>4, <1>5, <1>6

(* Pad, Hash and Sign *)
LEMMA StepsOK == ASSUME Inv, Pad \/ Hash \/ Sign PROVE Inv'
<1>1. ConvOK(Padded(conv)) /\ ConvOK(Hashed(conv)) /\ ConvOK(WithSign(conv))
  BY PaddedOK, HashedOK, WithSignOK DEF Inv
<1>2. /\ conv' \in {Padded(conv), Hashed(conv), WithSign(conv)}
      /\ pc \in {"pad", "hash", "sign"} /\ pc' \in {"hash", "sign", "reverse"}
      /\ UNCHANGED <<call, pos, idx, mem, text>>
  BY DEF Pad, Hash, Sign, Step
<1>3. ConvOK(conv')
  BY <1>1, <1>2
<1>4. pos' \in Nat \ {0}
  BY <1>2 DEF Inv
<1> QED BY <1>2, <1>3, <1>4, ConvStepOK

LEMMA PutReversedOK == ASSUME Inv, PutReversed PROVE Inv'
<1>1. pc = "reverse" /\ Emit(Reversed(conv)) /\ UNCHANGED <<call, pos, conv>>
      /\ pc' = IF conv.exponent = <<>> THEN "scan" ELSE "exponent"
  BY DEF PutReversed
<1>2. IsSeq(Reversed(conv))
  BY ReversedIsSeq DEF Inv
<1>3. ConvOK(conv') /\ pos' \in Nat \ {0}
  BY <1>1 DEF Inv
<1>4. pc' \in {"scan", "exponent"} /\ (pc' = "exponent" => conv'.exponent # <<>>)
  BY <1>1
<1> QED BY <1>1, <1>2, <1>3, <1>4, EmitStepOK

LEMMA SpacesOK ==
  ASSUME NEW e, Exponential(e)
  PROVE  Exponential([e EXCEPT !.next = "spaces"])
  BY DEF Exponential

LEMMA ExponentOK == ASSUME Inv, Exponent PROVE Inv'
<1> DEFINE e == conv.exponent[1]
           spaces == Fill(" ", e.width - (idx - e.start))
           after == [e EXCEPT !.next = "spaces"]
           c == Ntoa(Abs(e.value), e.value < 0, 10, 0, e.digits, {"zero", "plus"},
                     <<after>>)
<1>1. pc = "exponent" /\ UNCHANGED <<call, pos>> /\ Exponential(e) /\ idx \in Nat
      /\ pos' \in Nat \ {0}
  BY LenNat DEF Exponent, Inv, ConvOK
<1>2. \/ Emit(spaces) /\ pc' = "scan" /\ UNCHANGED conv
      \/ Emit(<<e.symbol>>) /\ pc' = "pad" /\ conv' = c
  BY DEF Exponent
<1> HIDE DEF e
<1>3. CASE Emit(spaces) /\ pc' = "scan" /\ UNCHANGED conv
  <2>1. e.width - (idx - e.start) \in Int
    BY <1>1 DEF Exponential
  <2>2. IsSeq(spaces)
    BY <2>1, FillIsSeq
  <2>3. ConvOK(conv')
    BY <1>3 DEF Inv
  <2> HIDE DEF spaces
  <2> QED BY <1>1, <1>3, <2>2, <2>3, EmitStepOK
<1>4. CASE Emit(<<e.symbol>>) /\ pc' = "pad" /\ conv' = c
  <2>1. Exponential(after)
    BY <1>1, SpacesOK
  <2> HIDE DEF after
  <2>2. <<after>> # <<>> => Exponential(<<after>>[1])
    BY <2>1
  <2>3. e.digits \in Int
    BY <1>1 DEF Exponential
  <2>4. ConvOK(c)
    BY <2>2, <2>3, NtoaOK
  <2> HIDE DEF c
  <2>5. ConvOK(conv')
    BY <1>4, <2>4
  <2>6. IsSeq(<<e.symbol>>)
    BY OneIsSeq
  <2> QED BY <1>1, <1>4, <2>5, <2>6, EmitStepOK
<1> QED BY <1>2, <1>3, <1>4

LEMMA ReturnStepOK == ASSUME Inv, Return PROVE Inv'
<1>1. Truncated'
  BY ReturnOK
<1>2. pc' = "returned" /\ UNCHANGED <<call, pos, idx, conv, text>>
  BY DEF Return
<1>3. CallOK(call)' /\ ConvOK(conv)' /\ IsSeq(text)'
  BY <1>2 DEF Inv, CallOK, ConvOK, Exponential, IsSeq
<1> QED BY <1>1, <1>2, <1>3 DEF Inv

LEMMA StutterOK == ASSUME Inv, UNCHANGED vars PROVE Inv'
<1>1. CallOK(call)' /\ ConvOK(conv)' /\ IsSeq(text)' /\ Image' = Image
  BY DEF vars, Inv, CallOK, ConvOK, Exponential, IsSeq, Image, Buffered, Fresh
<1>2. Truncated'
  BY DEF vars, Inv, Truncated
<1> QED BY <1>1, <1>2 DEF vars, Inv

------------------------------------------------------------------------------

(* The invariant holds in every reachable state, for calls of any length.   *)
THEOREM Invariance == Spec => []Inv
<1>1. Init => Inv
  BY InitOK
<1>2. Inv /\ [Next]_vars => Inv'
  <2> SUFFICES ASSUME Inv, [Next]_vars PROVE Inv'
    OBVIOUS
  <2>1. \/ Call \/ PutText \/ PutString \/ ConvertInteger \/ ConvertPointer
        \/ ConvertFloat \/ (Pad \/ Hash \/ Sign) \/ PutReversed \/ Exponent \/ Return
        \/ Take \/ UNCHANGED vars
    BY DEF Next
  <2> QED
    BY <2>1, CallStepOK, PutTextOK, PutStringOK, ConvertIntegerOK, ConvertPointerOK,
       ConvertFloatOK, StepsOK, PutReversedOK, ExponentOK, ReturnStepOK, TakeOK, StutterOK
<1> QED BY <1>1, <1>2, PTL DEF Spec

(* No argument, width or precision makes a numeric conversion write behind  *)
(* its buffer, whatever the sizes of the buffers and of the types.          *)
THEOREM BufferBoundedInvariant == Spec => []BufferBounded
<1>1. Inv => BufferBounded
  BY DEF Inv, ConvOK, BufferBounded
<1> QED BY <1>1, Invariance, PTL

(* Every call that returns leaves the longest start of its text that fits,  *)
(* ended by a zero character, and returns the length of the whole text.     *)
THEOREM TruncatedInvariant == Spec => []Truncated
<1>1. Inv => Truncated
  BY DEF Inv
<1> QED BY <1>1, Invariance, PTL

==============================================================================
