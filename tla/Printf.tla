------------------------------- MODULE Printf --------------------------------
(***************************************************************************)
(* The formatter (src/printf/printf.c): a call writes the text of a format *)
(* through an output function to a buffer of limited size or to a device.  *)
(* A numeric conversion collects its characters backwards in a buffer of   *)
(* fixed size; its steps are actions, with that buffer as a variable.      *)
(***************************************************************************)
EXTENDS PrintfFormat, FiniteSets

CONSTANTS
  NTOA_BUFFER_SIZE, FTOA_BUFFER_SIZE,  \* 32 in the code
  DEFAULT_FLOAT_PRECISION,             \* 6
  MAX_FLOAT,                           \* 10^9
  MaxPower,                            \* 9, the last entry of pow10
  ZeroExponent,                        \* -308, what _etoa computes for 0
  MaxExponent,                         \* bound: of the exponents of the arguments
  SIZE_MAX,
  Calls,                               \* entry point, maxlen and format of the calls
  MemSize                              \* bytes of the caller's memory

ASSUME PrintfAssumption ==
  /\ {NTOA_BUFFER_SIZE, FTOA_BUFFER_SIZE, DEFAULT_FLOAT_PRECISION} \subseteq Nat \ {0}
  /\ {SIZE_MAX, MemSize, MaxPower, MaxExponent, Bits["p"]} \subseteq Nat
  /\ ZeroExponent \in Int
  /\ \A c \in Calls :
       /\ c.maxlen \in 0..SIZE_MAX
       /\ c.entry # "snprintf" => c.maxlen = SIZE_MAX /\ ~c.null
       /\ Len(c.format) \in Nat
       /\ \A n \in 1..Len(c.format) :
            LET d == c.format[n]
            IN  /\ d.width \in Int
                /\ d.prec = <<>> \/ d.prec[1] \in Int
                /\ d.spec = "s" => d.arg = [i \in 1..Len(d.arg) |-> d.arg[i]]
                                   /\ Len(d.arg) \in Nat

VARIABLES
  pc,
  call,     \* entry point, maxlen, whether the buffer is null, format
  pos,      \* the item of the format that is next
  idx,      \* characters passed to the output function
  conv,     \* the numeric conversion under way
  mem,      \* the caller's memory from buffer on
  sink,     \* what the output device or function has received
  ret,      \* the value returned
  text      \* history: the characters passed to the output function

vars == <<pc, call, pos, idx, conv, mem, sink, ret, text>>

------------------------------------------------------------------------------
(* Output functions. *)

(* _out_char and _out_fct leave out the zero character. *)
Printable(s) == SelectSeq(s, LAMBDA c : c # NUL)

(* _out_buffer at the indices from at *)
Stored(s, at, maxlen) ==
  [i \in DOMAIN mem |-> IF i \in at..(at + Len(s) - 1) /\ i < maxlen
                        THEN s[i - at + 1] ELSE mem[i]]

(* out(c, buffer, at, maxlen) for the characters of s; a null buffer makes  *)
(* it _out_null.                                                            *)
Out(s, at) ==
  /\ mem' = IF call.entry \in {"sprintf", "snprintf"} /\ ~call.null
            THEN Stored(s, at, call.maxlen) ELSE mem
  /\ sink' = IF call.entry \in {"printf", "fctprintf"} /\ ~call.null
             THEN sink \o Printable(s) ELSE sink

Emit(s) == Out(s, idx) /\ idx' = idx + Len(s) /\ text' = text \o s

------------------------------------------------------------------------------
(* Integers: _ntoa_long, _ntoa_long_long and _ntoa_format. *)

(* The digits of v from the lowest, at least one and at most room. *)
Digits(v, base, room, table) ==
  [i \in 1..Cardinality({k \in 0..(room - 1) : k = 0 \/ base ^ k <= v})
     |-> table[1 + ((v \div base ^ (i - 1)) % base)]]

NoConv == [buf |-> <<>>, size |-> NTOA_BUFFER_SIZE, negative |-> FALSE, base |-> 10,
           prec |-> 0, width |-> 0, flags |-> {}, exponent |-> <<>>]

Ntoa(value, negative, base, prec, width, flags, exponent) ==
  [buf |-> IF "precision" \notin flags \/ value # 0
           THEN Digits(value, base, NTOA_BUFFER_SIZE,
                       IF "uppercase" \in flags THEN UpperDigits ELSE LowerDigits)
           ELSE <<>>,
   size |-> NTOA_BUFFER_SIZE, negative |-> negative, base |-> base,
   prec |-> prec, width |-> width,
   flags |-> IF value = 0 THEN flags \ {"hash"} ELSE flags, exponent |-> exponent]

(* Zeros up to n characters, as far as the buffer goes. *)
ZerosTo(buf, n, size) == buf \o Fill("0", Smaller(n, size) - Len(buf))

(* The width left when a sign will take one place of the zeros. *)
WidthOfZeros(c) ==
  IF c.width > 0 /\ "zero" \in c.flags
     /\ (c.negative \/ c.flags \cap {"plus", "space"} # {})
  THEN c.width - 1 ELSE c.width

(* Mutant of Padded: without a limit. *)
Padded_Unlimited(c) ==
  IF "left" \in c.flags THEN c
  ELSE [c EXCEPT !.buf = ZerosTo(ZerosTo(@, c.prec, c.prec),
                                 IF "zero" \in c.flags THEN WidthOfZeros(c) ELSE 0,
                                 WidthOfZeros(c)),
                 !.width = WidthOfZeros(c)]

(* Mutant of Padded: the zeros take the place of the sign. *)
Padded_NoSign(c) ==
  IF "left" \in c.flags THEN c
  ELSE [c EXCEPT !.buf = ZerosTo(ZerosTo(@, c.prec, c.size),
                                 IF "zero" \in c.flags THEN c.width ELSE 0, c.size)]

(* _ntoa_format: pad leading zeros *)
Padded(c) ==
  IF "left" \in c.flags THEN c
  ELSE [c EXCEPT !.buf = ZerosTo(ZerosTo(@, c.prec, c.size),
                                 IF "zero" \in c.flags THEN WidthOfZeros(c) ELSE 0,
                                 c.size),
                 !.width = WidthOfZeros(c)]

(* As many of the characters of more as the buffer has room for. *)
Push(buf, more, size) ==
  buf \o SubSeq(more, 1, Smaller(Len(more), size - Len(buf)))

(* The buffer without the characters that are overwritten by a prefix. *)
MakeRoom(c) ==
  LET n == Len(c.buf)
      k == IF "precision" \in c.flags \/ n = 0 \/ n \notin {c.prec, c.width} THEN 0
           ELSE IF n > 1 /\ c.base = 16 THEN 2 ELSE 1
  IN  SubSeq(c.buf, 1, n - k)

(* _ntoa_format: handle hash *)
Hashed(c) ==
  LET letter == CASE c.base = 16 /\ "uppercase" \in c.flags -> <<"X">>
                  [] c.base = 16 /\ "uppercase" \notin c.flags -> <<"x">>
                  [] c.base = 2 -> <<"b">>
                  [] OTHER -> <<>>
  IN  IF "hash" \in c.flags
      THEN [c EXCEPT !.buf = Push(MakeRoom(c), letter \o <<"0">>, c.size)] ELSE c

(* The sign: '-', or '+' before a space. *)
WithSign(c) ==
  LET sign == CASE c.negative -> <<"-">>
                [] ~c.negative /\ "plus" \in c.flags -> <<"+">>
                [] ~c.negative /\ "plus" \notin c.flags /\ "space" \in c.flags -> <<" ">>
                [] OTHER -> <<>>
  IN  [c EXCEPT !.buf = Push(@, sign, c.size)]

(* _out_rev *)
Reversed(c) ==
  LET spaces == Fill(" ", c.width - Len(c.buf))
  IN  (IF c.flags \cap {"left", "zero"} = {} THEN spaces ELSE <<>>)
        \o Reverse(c.buf)
        \o (IF "left" \in c.flags THEN spaces ELSE <<>>)

------------------------------------------------------------------------------
(* Floating point: _ftoa and _etoa. *)

(* n / m compared with 0.5 *)
Half(n, m, side) == IF 2 * n = m THEN side ELSE 2 * n - m

(* The digits of the fraction and the whole number, rounded as _ftoa does.  *)
Rounded(d, prec) ==
  LET power == 10 ^ prec
      whole == d.num \div d.den
      tmp == (d.num % d.den) * power
      frac == tmp \div d.den
      diff == Half(tmp % d.den, d.den, d.side)
      over == diff > 0 /\ frac + 1 >= power
      up == CASE over -> [whole |-> whole + 1, frac |-> 0]
              [] diff > 0 /\ ~over -> [whole |-> whole, frac |-> frac + 1]
              [] diff = 0 /\ (frac = 0 \/ frac % 2 = 1)
                   -> [whole |-> whole, frac |-> frac + 1]
              [] OTHER -> [whole |-> whole, frac |-> frac]
  IN  IF /\ prec = 0 /\ up.whole % 2 = 1
         /\ Half(d.num - up.whole * d.den, d.den, d.side) >= 0
      THEN [up EXCEPT !.whole = @ + 1] ELSE up

(* The fraction, its zeros and the point: count is unsigned, and when there *)
(* are more digits than prec it wraps and the zeros take all the room.      *)
Fraction(frac, prec, room) ==
  IF prec = 0 THEN <<>>
  ELSE LET digits == Digits(frac, 10, room, LowerDigits)
       IN  digits
             \o Fill("0", IF Len(digits) > prec THEN room ELSE prec - Len(digits))
             \o <<".">>

(* _ftoa of a finite value up to its sign; a precision that the table of    *)
(* powers does not reach is made up with zeros.                             *)
Ftoa(d, precision, width, flags, exponent) ==
  LET given == IF "precision" \in flags THEN precision ELSE DEFAULT_FLOAT_PRECISION
      zeros == Fill("0", Smaller(given - MaxPower, FTOA_BUFFER_SIZE))
      prec == given - Len(zeros)
      r == Rounded(d, Smaller(prec, MaxPower))
      digits == Push(zeros, Fraction(r.frac, prec, FTOA_BUFFER_SIZE),
                        FTOA_BUFFER_SIZE)
      c == [buf |-> Push(digits, Digits(r.whole, 10, FTOA_BUFFER_SIZE, LowerDigits),
                            FTOA_BUFFER_SIZE),
            size |-> FTOA_BUFFER_SIZE, negative |-> d.negative /\ d.num > 0,
            base |-> 10, prec |-> 0, width |-> width, flags |-> flags, exponent |-> exponent]
  IN  IF "zero" \in flags THEN Padded(c) ELSE c

(* _ftoa of nan and the infinities *)
Special(d, width, flags) ==
  [NoConv EXCEPT
     !.buf = CASE d.kind = "nan" -> <<"n", "a", "n">>
               [] d.kind # "nan" /\ d.negative -> <<"f", "n", "i", "-">>
               [] d.kind # "nan" /\ ~d.negative /\ "plus" \in flags -> <<"f", "n", "i", "+">>
               [] OTHER -> <<"f", "n", "i">>,
     !.size = 4, !.width = width, !.flags = flags]

(* 10^e <= num / den *)
AtLeastPower(d, e) ==
  IF e >= 0 THEN 10 ^ e <= d.num \div d.den
  ELSE d.num >= d.den \/ d.den <= d.num * 10 ^ (-e)

(* The decimal exponents that the approximation in _etoa may find: of a     *)
(* power of ten it may be one too low.                                      *)
Exponents(d) ==
  IF d.num = 0 THEN {ZeroExponent}
  ELSE {e \in -MaxExponent..MaxExponent :
          /\ AtLeastPower(d, e) /\ ~AtLeastPower(d, e + 1)
          \/ /\ AtLeastPower([d EXCEPT !.num = d.den, !.den = d.num], -e - 1)
             /\ AtLeastPower(d, e + 1)}

(* value /= conv.F, in floating point *)
Rescaled(d, e) ==
  IF d.num = 0 \/ e = 0 THEN {d}
  ELSE {[d EXCEPT !.num = IF e < 0 THEN @ * 10 ^ (-e) ELSE @,
                  !.den = IF e > 0 THEN @ * 10 ^ e ELSE @, !.side = s] : s \in -1..1}

(* _etoa: %g falls back to the fixed format for 10^-4 <= value < 10^6, and  *)
(* counts the digits before the point otherwise.                            *)
Etoa(d, precision, width, flags) ==
  LET given == IF "precision" \in flags THEN precision ELSE DEFAULT_FLOAT_PRECISION
      fixed == "adapt_exp" \in flags /\ AtLeastPower(d, -4) /\ ~AtLeastPower(d, 6)
      Prec(e) == CASE fixed -> Larger(given - e - 1, 0)
                   [] ~fixed /\ {"adapt_exp", "precision"} \subseteq flags
                        -> Larger(given - 1, 0)
                   [] OTHER -> given
      MinWidth(e) == IF fixed THEN 0 ELSE IF Abs(e) < 100 THEN 4 ELSE 5
      FWidth(e) == IF "left" \in flags /\ ~fixed THEN 0 ELSE Larger(width - MinWidth(e), 0)
      Symbol == IF "uppercase" \in flags THEN "E" ELSE "e"
      After(e) == IF fixed THEN <<>>
                  ELSE <<[value |-> e, symbol |-> Symbol, digits |-> MinWidth(e) - 1,
                          start |-> idx, width |-> IF "left" \in flags THEN width ELSE 0,
                          next |-> "number"]>>
  IN  UNION {{Ftoa(v, Prec(e), FWidth(e),
                   IF fixed THEN flags \cup {"precision"} ELSE flags, After(e)) :
                v \in Rescaled(d, IF fixed THEN 0 ELSE e)} : e \in Exponents(d)}

------------------------------------------------------------------------------
(* _vsnprintf: the fields of a directive. *)

Item == call.format[pos]

Flags(d) ==
  d.flags \cup (IF d.width < 0 THEN {"left"} ELSE {})
          \cup (IF d.prec # <<>> THEN {"precision"} ELSE {})
          \cup (IF d.spec \in {"X", "F", "E", "G", "p"} THEN {"uppercase"} ELSE {})
          \cup (IF d.spec \in {"g", "G"} THEN {"adapt_exp"} ELSE {})
Width(d) == Abs(d.width)
Precision(d) == IF d.prec = <<>> THEN 0 ELSE Larger(d.prec[1], 0)

(* 't', 'j' and 'z' stand for 'l' or 'll', which is as wide. *)
ValueBits(d) == Bits[d.length]
SignedValue(d) == IF d.length = "hh" THEN Narrow(d.arg, Bits["hh"], CharSigned)
                  ELSE Narrow(d.arg, ValueBits(d), TRUE)
UnsignedValue(d) == Narrow(d.arg, ValueBits(d), FALSE)

(* Mutant of IntegerFlags: a precision does not switch off the zeros. *)
IntegerFlags_KeepZero(d) ==
  Flags(d) \ ((IF Base(d.spec) = 10 THEN {"hash"} ELSE {})
         \cup (IF d.spec \in Signed THEN {} ELSE {"plus", "space"}))

IntegerFlags(d) ==
  Flags(d) \ ((IF Base(d.spec) = 10 THEN {"hash"} ELSE {})
         \cup (IF d.spec \in Signed THEN {} ELSE {"plus", "space"})
         \cup (IF d.prec # <<>> THEN {"zero"} ELSE {}))

Scanning(specs) == pc = "scan" /\ pos <= Len(call.format) /\ Item.spec \in specs

(* Plain text, "%%" and the letters that are no specifier. *)
PutText ==
  /\ Scanning({"text"})
  /\ Emit(<<Item.arg>>)
  /\ pos' = pos + 1
  /\ UNCHANGED <<pc, call, conv, ret>>

PutString ==
  /\ Scanning({"c", "s"})
  /\ LET d == Item
         s == CASE d.spec = "c" -> <<d.arg>>
                [] d.spec = "s" /\ d.prec = <<>> -> d.arg
                [] OTHER -> SubSeq(d.arg, 1, Smaller(Len(d.arg), Precision(d)))
         spaces == Fill(" ", Width(d) - Len(s))
     IN  Emit(IF "left" \in Flags(d) THEN s \o spaces ELSE spaces \o s)
  /\ pos' = pos + 1
  /\ UNCHANGED <<pc, call, conv, ret>>

Convert(step, c) ==
  /\ pc' = step /\ conv' = c /\ pos' = pos + 1
  /\ UNCHANGED <<call, idx, mem, sink, ret, text>>

ConvertInteger ==
  /\ Scanning(Signed \cup Unsigned)
  /\ LET v == IF Item.spec \in Signed THEN SignedValue(Item) ELSE UnsignedValue(Item)
     IN  Convert("pad", Ntoa(Abs(v), v < 0, Base(Item.spec), Precision(Item),
                             Width(Item), IntegerFlags(Item), <<>>))

ConvertPointer ==
  /\ Scanning({"p"})
  /\ Convert("pad", Ntoa(Item.arg, FALSE, 16, Precision(Item), Bits["p"] \div 4,
                         Flags(Item) \cup {"zero"}, <<>>))

ConvertFloat ==
  /\ Scanning({"f", "F", "e", "E", "g", "G"})
  /\ LET d == Item.arg
     IN  \/ /\ d.kind # "finite"
            /\ Convert("reverse", Special(d, Width(Item), Flags(Item)))
         \/ /\ d.kind = "finite"
            /\ Item.spec \in {"f", "F"} /\ d.num <= MAX_FLOAT * d.den
            /\ Convert("sign", Ftoa(d, Precision(Item), Width(Item), Flags(Item), <<>>))
         \/ /\ d.kind = "finite"
            /\ Item.spec \notin {"f", "F"} \/ d.num > MAX_FLOAT * d.den
            /\ \E c \in Etoa(d, Precision(Item), Width(Item), Flags(Item)) :
                 Convert("sign", c)

(* The steps of a numeric conversion. *)
Step(from, to, c) ==
  /\ pc = from /\ pc' = to /\ conv' = c
  /\ UNCHANGED <<call, pos, idx, mem, sink, ret, text>>

Pad == Step("pad", "hash", Padded(conv))
Hash == Step("hash", "sign", Hashed(conv))
Sign == Step("sign", "reverse", WithSign(conv))

PutReversed ==
  /\ pc = "reverse"
  /\ Emit(Reversed(conv))
  /\ pc' = IF conv.exponent = <<>> THEN "scan" ELSE "exponent"
  /\ UNCHANGED <<call, pos, conv, ret>>

(* _etoa: output the exponent part, then fill up the field on the right. *)
Exponent ==
  /\ pc = "exponent"
  /\ LET e == conv.exponent[1]
     IN  IF e.next = "spaces"
         THEN /\ Emit(Fill(" ", e.width - (idx - e.start)))
              /\ pc' = "scan" /\ UNCHANGED conv
         ELSE /\ Emit(<<e.symbol>>)
              /\ pc' = "pad"
              /\ conv' = Ntoa(Abs(e.value), e.value < 0, 10, 0, e.digits,
                              {"zero", "plus"}, <<[e EXCEPT !.next = "spaces"]>>)
  /\ UNCHANGED <<call, pos, ret>>

------------------------------------------------------------------------------

Fresh == [i \in 0..(MemSize - 1) |-> "fresh"]

NoCall == [entry |-> "snprintf", maxlen |-> 0, null |-> TRUE, format |-> <<>>]

(* printf_, sprintf_, snprintf_ and fctprintf, and their va_list variants *)
Call ==
  /\ pc = "idle"
  /\ call' \in Calls
  /\ pc' = "scan"
  /\ UNCHANGED <<pos, idx, conv, mem, sink, ret, text>>

(* Mutant of EndIndex: where the text ends, truncated or not. *)
EndIndex_Idx == idx

EndIndex == IF idx < call.maxlen THEN idx ELSE (call.maxlen - 1) % (SIZE_MAX + 1)

Return ==
  /\ pc = "scan" /\ pos > Len(call.format)
  /\ Out(<<NUL>>, EndIndex)
  /\ ret' = idx
  /\ pc' = "returned"
  /\ UNCHANGED <<call, pos, idx, conv, text>>

(* The caller takes what it got; its next call is about other memory. *)
Take ==
  /\ pc = "returned" /\ pc' = "idle"
  /\ pos' = 1 /\ idx' = 0 /\ ret' = 0 /\ conv' = NoConv /\ call' = NoCall
  /\ mem' = Fresh /\ sink' = <<>> /\ text' = <<>>

Init ==
  /\ pc = "idle" /\ pos = 1 /\ idx = 0 /\ ret = 0 /\ conv = NoConv /\ call = NoCall
  /\ mem = Fresh /\ sink = <<>> /\ text = <<>>

Next ==
  \/ Call \/ PutText \/ PutString \/ ConvertInteger \/ ConvertPointer \/ ConvertFloat
  \/ Pad \/ Hash \/ Sign \/ PutReversed \/ Exponent \/ Return \/ Take

Spec == Init /\ [][Next]_vars

------------------------------------------------------------------------------

(* The comments on the conversion buffers: a numeric conversion never has   *)
(* more characters than its buffer has places.                              *)
BufferBounded == Len(conv.buf) <= conv.size

(* printf.h: a call returns the length of its text whether or not the text  *)
(* fits, and leaves in the buffer the longest start of it that does, behind *)
(* it a zero character, and the memory behind that as it was; with a count  *)
(* of 0 it leaves everything as it was.                                     *)
Truncated ==
  pc = "returned" =>
    /\ ret = Len(text)
    /\ LET end == Smaller(ret, call.maxlen - 1)
       IN  call.entry \in {"sprintf", "snprintf"} /\ ~call.null =>
             mem = [i \in 0..(MemSize - 1) |->
                      IF i < end THEN text[i + 1] ELSE IF i = end THEN NUL ELSE "fresh"]

==============================================================================
