------------------------------ MODULE MCPrintf -------------------------------
(***************************************************************************)
(* Instances of the formatter with small types and conversion buffers.  As *)
(* in the code, an int has as many bits as the buffer has places, and a    *)
(* long long twice as many.                                                *)
(***************************************************************************)
EXTENDS PrintfSession

MCBits ==
  [m \in {"", "hh", "h", "l", "ll", "t", "j", "z", "p"} |->
     CASE m = "hh" -> 4 [] m = "h" -> 6 [] m \in {"ll", "j"} -> 16 [] OTHER -> 8]

AllFlags == SUBSET {"zero", "left", "plus", "space", "hash"}
Precs == {<<>>, <<-1>>, <<0>>, <<1>>, <<3>>, <<9>>}

(* Every combination of flags, with 0, a number of one digit, the lowest or  *)
(* the largest number, and one with a zero in it.                            *)
IntegerDirectives ==
  {Directive(s, f, w, p, "", v) :
     s \in {"d"}, f \in AllFlags, w \in {0, 2, 4, 8, 9, -4}, p \in Precs,
     v \in {0, 5, -128, 101}}
  \cup
  {Directive(s, f, w, p, "", v) :
     s \in {"x", "o", "b"}, f \in AllFlags \ {{"plus"}, {"space"}},
     w \in {0, 1, 2, 3, 4, 9}, p \in Precs, v \in {0, 5, 16, 255}}

Lengths ==
  {Directive(s, {}, 6, <<>>, m, v) :
     s \in Signed \cup Unsigned, m \in DOMAIN MCBits \ {"p"}, v \in {0, 15, 37, 127}}
  \cup {Directive("d", {}, 0, <<>>, m, v) :
          m \in DOMAIN MCBits \ {"p"}, v \in {-1, -128}}
  \cup {Directive(s, {}, 0, <<>>, m, 40961) : s \in Unsigned, m \in {"ll", "j"}}
  \cup {Directive("i", {}, 0, <<>>, m, -32768) : m \in {"ll", "j"}}

(* Quarters are exact; the twentieths lie halfway between two tenths.  100  *)
(* is the largest number of the fixed format here; %g never passes a larger *)
(* one to it, as in the code, where 10^6 is less than the largest.          *)
Doubles ==
  {Double("finite", FALSE, m, 4, 0) : m \in {0, 1, 2, 6, 39, 40, 399, 400, 401}}
  \cup {Double("finite", TRUE, m, 4, 0) : m \in {0, 1, 10, 399}}
  \cup {Double("finite", FALSE, m, 20, s) : m \in {1, 19, 39, 199, 1999}, s \in -1..1}
Large == {Double("finite", FALSE, 2000000, 1, 0)}
Specials == {Double(k, n, 0, 1, 0) : k \in {"nan", "infinite"}, n \in BOOLEAN}

Floats ==
  {Directive(s, f, w, p, "", v) :
     s \in {"f", "e"}, f \in SUBSET {"zero", "left", "plus"}, w \in {0, 8, 10},
     p \in {<<>>, <<0>>, <<1>>, <<3>>, <<5>>}, v \in Doubles \cup Large}
  \cup {Directive("g", f, w, p, "", v) :
          f \in SUBSET {"zero", "left", "plus"}, w \in {0, 10}, p \in {<<>>, <<0>>, <<3>>},
          v \in {v \in Doubles : v.num <= MAX_FLOAT * v.den} \cup Large}
  \cup {Directive(s, f, w, <<>>, "", v) :
          s \in {"f", "e"}, f \in SUBSET {"zero", "left", "plus", "space"},
          w \in {0, 5}, v \in Specials}

Others ==
  {Directive("s", f, w, p, "", <<"a", "b", "c">>) :
     f \in {{}, {"left"}}, w \in {0, 2, 5, -5}, p \in {<<>>, <<-1>>, <<0>>, <<2>>, <<4>>}}
  \cup {Directive("c", f, w, <<>>, "", c) : f \in {{}, {"left"}}, w \in {0, 3}, c \in {"a", NUL}}
  \cup {Directive("p", {}, 0, <<>>, "", v) : v \in {0, 171}}

(* The lines of the test harness: "%s... ", "%d/%.1f, ", "%d tests passed". *)
Name == Directive("s", {}, 0, <<>>, "", <<"a", "b">>)
Number(n) == Directive("d", {}, 0, <<>>, "", n)
Cycles(m) == Directive("f", {}, 0, <<1>>, "", Double("finite", FALSE, m, 4, 0))
Lines == {<<Name, Text("."), Text(" ")>>,
          <<Number(16), Text("/"), Cycles(39), Text(",")>>,
          <<Number(127), Text(" "), Number(0), Text("%")>>, <<>>}

MCZeroExponent == -308
MCSizeMax == 255
Limited(f, count) == [entry |-> "snprintf", maxlen |-> count, null |-> FALSE, format |-> f]
Unlimited(e, f) == [entry |-> e, maxlen |-> MCSizeMax, null |-> FALSE, format |-> f]
Few == Lines \cup {<<d>> : d \in Others}

MCCalls ==
  {Limited(<<d>>, 4) : d \in IntegerDirectives \cup Lengths \cup Floats}
  \cup {Limited(f, count) : f \in Few, count \in {0, 1, 5, 9, 14}}
  \cup {Unlimited(e, f) : e \in {"printf", "sprintf", "fctprintf"}, f \in Few}
  \cup {[Limited(f, 0) EXCEPT !.null = TRUE] : f \in Lines}

(* The fixed format of every double. *)
MCFixed ==
  {[entry |-> "printf", maxlen |-> MCSizeMax, null |-> FALSE, format |-> <<d>>] :
     d \in {Directive("f", {}, 0, p, "", v) : p \in {<<0>>, <<1>>, <<>>},
              v \in {v \in Doubles : ~v.negative /\ v.num <= MAX_FLOAT * v.den}}}

==============================================================================
