-------------------------- MODULE AsconPermutation --------------------------
(***************************************************************************)
(* The Ascon permutation (src/ascon-p, src/common/round_constants.c): a    *)
(* round of the portable code, of the 64-bit builds, and of the 32-bit     *)
(* builds, which hold the even and the odd bits of a word in two           *)
(* registers.                                                              *)
(*                                                                         *)
(* A round of a RISC-V build works on a register file.  The S-box is a     *)
(* straight line of instructions that leaves its outputs in other          *)
(* registers than its inputs, and the linear layer moves each word back    *)
(* into its place, one destination after the other.                        *)
(***************************************************************************)
EXTENDS AsconWord

(* struct state_t: five words. *)
State == [0..4 -> Word]

(* Instructions on registers with the bits R. *)
AND(x, y) == x \cap y
OR(x, y)  == x \cup y
NOT(R, x) == R \ x
ANDN(R, x, y) == IF TARGET_ARCH \in HAVE_ZBKB THEN x \ y ELSE AND(x, NOT(R, y))
ORN(R, x, y)  == IF TARGET_ARCH \in HAVE_ZBKB THEN x \cup (R \ y) ELSE OR(NOT(R, y), x)

(* x >> n | x << (-n & (bits - 1)), and the instructions ror and rori. *)
ROR(x, n)  == {(i - n) % (8 * W) : i \in x}
HROR(x, n) == {(i - n) % (4 * W) : i \in x}

ascon_round_constants == <<240, 225, 210, 195, 180, 165, 150, 135,
                           120, 105, 90, 75>>

(* As pairs of 32-bit integers, low half first. *)
ascon_round_constants_bi == <<12, 12,  9, 12,  12, 9,  9, 9,
                               6, 12,  3, 12,   6, 9,  3, 9,
                              12,  6,  9,  6,  12, 3,  9, 3>>

(* The constant of round i as a word: constants fit the lowest byte. *)
RoundConstant(i) ==
  IF TARGET_ARCH \in BI32
    THEN Pair(ByteOf(ascon_round_constants_bi[2 * i + 2]),
              ByteOf(ascon_round_constants_bi[2 * i + 1]))
    ELSE ByteOf(ascon_round_constants[i + 1])

------------------------------------------------------------------------------

RegNames == {"x0", "x1", "x2", "x3", "x4", "x3_tmp"}
Registers(V) == [RegNames -> V]

(* RV_S_BOX: the instructions in order, one definition for each new         *)
(* content of a register.                                                   *)
RV_S_BOX(R, x0, x1, x2, x3, x4) ==
  LET t0  == XOR(x1, x2)
      t1  == XOR(x0, x4)
      t2  == XOR(x3, x4)
      r4  == XOR(ORN(R, x3, x4), t0)
      r3  == XOR(OR(XOR(x3, x1), t0), t1)
      r2  == XOR(OR(XOR(x2, t1), x1), t2)
      r1  == XOR(ANDN(R, x1, t1), t2)
      r0  == OR(x0, t2)
      out == XOR(r0, t0)
  IN  [n \in RegNames |-> CASE n = "x0" -> r0 [] n = "x1" -> r1
                            [] n = "x2" -> r2 [] n = "x3" -> r3
                            [] n = "x4" -> r4 [] n = "x3_tmp" -> out]

(* Register dst becomes f of register src.  (A function, like the others    *)
(* below: TLC evaluates an argument of a function once.)                    *)
Into(V, dst, src, f) == [r \in Registers(V) |-> [r EXCEPT ![dst] = f[r[src]]]]

(* RV_LINEAR of the 64-bit builds. *)
RV_LINEAR(r0, r1) ==
  [src \in Word |-> XOR(src, XOR(ROR(src, r0), ROR(src, r1)))]

LinearLayer ==
  [r \in Registers(Word) |->
    Into(Word, "x3", "x3_tmp", RV_LINEAR(10, 17))[
      Into(Word, "x1", "x3", RV_LINEAR(39, 61))[
        Into(Word, "x4", "x1", RV_LINEAR(7, 41))[
          Into(Word, "x2", "x4", RV_LINEAR(1, 6))[
            Into(Word, "x0", "x2", RV_LINEAR(19, 28))[r]]]]]]

(* The registers written back. *)
StateOf ==
  [r \in Registers(Word) |->
    [i \in 0..4 |-> r[CASE i = 0 -> "x0" [] i = 1 -> "x1" [] i = 2 -> "x2"
                        [] i = 3 -> "x3" [] i = 4 -> "x4"]]]

ROUND(s, C) ==
  StateOf[LinearLayer[RV_S_BOX(Bits, s[0], s[1], XOR(s[2], C), s[3], s[4])]]

------------------------------------------------------------------------------
(* The 32-bit builds: x0_lo, x0_hi ..  A word x of the state in memory has  *)
(* its even bits in Lo(x), its odd ones in Hi(x).                           *)

Halves == [lo : Half, hi : Half]

(* By an even count the halves rotate; by an odd one they also change places. *)
RV_ROR64(h, n) ==
  IF n % 2 = 0 THEN [lo |-> HROR(h.lo, n \div 2), hi |-> HROR(h.hi, n \div 2)]
               ELSE [lo |-> HROR(h.hi, (n - 1) \div 2),
                     hi |-> HROR(h.lo, (n + 1) \div 2)]

HXOR(g, h) == [lo |-> XOR(g.lo, h.lo), hi |-> XOR(g.hi, h.hi)]

(* RV_LINEAR of these builds: by r1, then by r0, where the 64-bit builds    *)
(* rotate by r0 and by r0 + r1.                                             *)
RV_LINEAR_BI(r0, r1) ==
  [src \in Halves |-> HXOR(src, RV_ROR64(HXOR(src, RV_ROR64(src, r1)), r0))]

LinearLayerBI ==
  [r \in Registers(Halves) |->
    Into(Halves, "x3", "x3_tmp", RV_LINEAR_BI(10, 17 - 10))[
      Into(Halves, "x1", "x3", RV_LINEAR_BI(39, 61 - 39))[
        Into(Halves, "x4", "x1", RV_LINEAR_BI(7, 41 - 7))[
          Into(Halves, "x2", "x4", RV_LINEAR_BI(1, 6 - 1))[
            Into(Halves, "x0", "x2", RV_LINEAR_BI(19, 28 - 19))[r]]]]]]

(* Mutant of SBoxBI: the halves of the round constant exchanged. *)
SBoxBI_Swapped(s, C) ==
  LET lo == RV_S_BOX(HalfBits, Lo(s[0]), Lo(s[1]), XOR(Lo(s[2]), Hi(C)),
                     Lo(s[3]), Lo(s[4]))
      hi == RV_S_BOX(HalfBits, Hi(s[0]), Hi(s[1]), XOR(Hi(s[2]), Lo(C)),
                     Hi(s[3]), Hi(s[4]))
  IN  [n \in RegNames |-> [lo |-> lo[n], hi |-> hi[n]]]

(* The S-box on the low and on the high registers. *)
SBoxBI(s, C) ==
  LET lo == RV_S_BOX(HalfBits, Lo(s[0]), Lo(s[1]), XOR(Lo(s[2]), Lo(C)),
                     Lo(s[3]), Lo(s[4]))
      hi == RV_S_BOX(HalfBits, Hi(s[0]), Hi(s[1]), XOR(Hi(s[2]), Hi(C)),
                     Hi(s[3]), Hi(s[4]))
  IN  [n \in RegNames |-> [lo |-> lo[n], hi |-> hi[n]]]

StateOfBI ==
  [r \in Registers(Halves) |->
    [i \in 0..4 |->
      LET h == r[CASE i = 0 -> "x0" [] i = 1 -> "x1" [] i = 2 -> "x2"
                   [] i = 3 -> "x3" [] i = 4 -> "x4"]
      IN  Pair(h.hi, h.lo)]]

(* One turn of the loop of Pn. *)
ROUND_BI(s, C) == StateOfBI[LinearLayerBI[SBoxBI(s, C)]]

(* The word that two halves stand for, and the word that a word of the      *)
(* state of this build stands for.                                          *)
Merge(lo, hi) == {i \in Bits : (i \div 2) \in (IF i % 2 = 0 THEN lo ELSE hi)}
Standard(x)   == IF TARGET_ARCH \in BI32 THEN Merge(Lo(x), Hi(x)) ELSE x
StandardState(s) == [i \in 0..4 |-> Standard(s[i])]

------------------------------------------------------------------------------

(* The S-box layer of the portable round, between two affine layers. *)
GenericSBox(R, x0, x1, x2, x3, x4) ==
  LET y0 == XOR(x0, x4)
      y4 == XOR(x4, x3)
      y2 == XOR(x2, x1)
      t0 == XOR(y0, AND(NOT(R, x1), y2))
      t1 == XOR(x1, AND(NOT(R, y2), x3))
      t2 == XOR(y2, AND(NOT(R, x3), y4))
      t3 == XOR(x3, AND(NOT(R, y4), y0))
      t4 == XOR(y4, AND(NOT(R, y0), x1))
  IN  [t0 |-> XOR(t0, t4), t1 |-> XOR(t1, t0), t2 |-> NOT(R, t2),
       t3 |-> XOR(t3, t2), t4 |-> t4]

(* The linear layer of the portable round. *)
GenericLinear ==
  [t \in [{"t0", "t1", "t2", "t3", "t4"} -> Word] |->
    [i \in 0..4 |->
      CASE i = 0 -> XOR(XOR(t.t0, ROR(t.t0, 19)), ROR(t.t0, 28))
        [] i = 1 -> XOR(XOR(t.t1, ROR(t.t1, 61)), ROR(t.t1, 39))
        [] i = 2 -> XOR(XOR(t.t2, ROR(t.t2, 1)), ROR(t.t2, 6))
        [] i = 3 -> XOR(XOR(t.t3, ROR(t.t3, 10)), ROR(t.t3, 17))
        [] i = 4 -> XOR(XOR(t.t4, ROR(t.t4, 7)), ROR(t.t4, 41))]]

GenericROUND(s, C) ==
  GenericLinear[GenericSBox(Bits, s[0], s[1], XOR(s[2], C), s[3], s[4])]

------------------------------------------------------------------------------

(* The round with constant i, as a function of the state. *)
Round(i) ==
  [s \in State |-> CASE TARGET_ARCH \in BI32 -> ROUND_BI(s, RoundConstant(i))
                     [] TARGET_ARCH \in {"rv64", "rv64_zbkb"}
                          -> ROUND(s, RoundConstant(i))
                     [] TARGET_ARCH = "generic"
                          -> GenericROUND(s, RoundConstant(i))]

(* Mutant of P6: each round constant is that of the round before. *)
P6_Early(s) == Round(10)[Round(9)[Round(8)[Round(7)[Round(6)[Round(5)[s]]]]]]

P6(s) == Round(11)[Round(10)[Round(9)[Round(8)[Round(7)[Round(6)[s]]]]]]

P8(s) == P6(Round(5)[Round(4)[s]])

P12(s) == P8(Round(3)[Round(2)[Round(1)[Round(0)[s]]]])

==============================================================================
