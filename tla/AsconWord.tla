------------------------------ MODULE AsconWord ------------------------------
(***************************************************************************)
(* The words of the Ascon state and their exchange with memory             *)
(* (src/ascon/word.h, src/ascon/interleaving.h), in every build.           *)
(*                                                                         *)
(* A register or a word is the set of the positions of its one bits, a     *)
(* byte likewise, so exclusive or is symmetric difference and every        *)
(* operator below is exact to the bit.  A C array is a function on 0..n-1, *)
(* and a pointer into it is an index.  The code's words have 8 bytes; W is *)
(* a parameter so that a run can visit every length of a message around    *)
(* every word and block boundary with short messages.                      *)
(***************************************************************************)
EXTENDS Integers

CONSTANTS W,            \* bytes of a word; 8 in the code
          TARGET_ARCH   \* as given to CMake, or "generic" for the portable code

ASSUME WAssumption == W \in {2, 4, 8}
ASSUME ArchAssumption ==
  TARGET_ARCH \in {"rv32", "rv32_zbkb", "rv64", "rv64_zbkb", "generic"}

(* The builds with words interleaved, and with bit manipulation. *)
BI32      == {"rv32", "rv32_zbkb"}
HAVE_ZBKB == {"rv32_zbkb", "rv64_zbkb"}

Bits     == 0..(8 * W - 1)
HalfBits == 0..(4 * W - 1)
Word     == SUBSET Bits
Half     == SUBSET HalfBits
Byte     == SUBSET (0..7)
Array(n) == [0..(n - 1) -> Byte]

(* x ^ y *)
XOR(x, y) == (x \ y) \cup (y \ x)

(* The byte of an integer constant of the code. *)
ByteOf(v) ==
  {b \in 0..7 : (v \div <<1, 2, 4, 8, 16, 32, 64, 128>>[b + 1]) % 2 = 1}

(* (uint64_t)hi << 32 | lo, and its halves. *)
Pair(hi, lo) == lo \cup {i + 4 * W : i \in hi}
Lo(x) == {i \in HalfBits : i \in x}
Hi(x) == {i \in HalfBits : i + 4 * W \in x}

------------------------------------------------------------------------------
(* Byte order and interleaving.  A half has W \div 2 bytes. *)

U64BIG ==
  [x \in Word |-> {i \in Bits : 8 * (W - 1 - (i \div 8)) + (i % 8) \in x}]

rev8(x)  == {i \in HalfBits : 8 * (W \div 2 - 1 - (i \div 8)) + (i % 8) \in x}
zip(x)   == {i \in HalfBits : (i \div 2) + (IF i % 2 = 0 THEN 0 ELSE 2 * W) \in x}
unzip(x) == {i \in HalfBits : IF i < 2 * W THEN 2 * i \in x
                                           ELSE 2 * (i - 2 * W) + 1 \in x}
pack(x, y) == {i \in HalfBits : IF i < 2 * W THEN i \in x ELSE i - 2 * W \in y}
srli16(x)  == {i \in HalfBits : i < 2 * W /\ i + 2 * W \in x}

(* deinterleave32 and interleave32 with zip and unzip: the code's assembly,  *)
(* two registers at a time.                                                  *)
zbkb_deinterleave32(in) ==
  LET lo == unzip(rev8(Hi(in)))
      hi == unzip(rev8(Lo(in)))
  IN  Pair(pack(srli16(lo), srli16(hi)), pack(lo, hi))

zbkb_interleave32(in) ==
  LET lo == Lo(in)
      hi == Hi(in)
  IN  Pair(rev8(zip(pack(lo, hi))), rev8(zip(pack(srli16(lo), srli16(hi)))))

(* t = (x ^ (x >> n)) & mask, x ^= t ^ (t << n): exchange the neighbouring  *)
(* blocks of n bits that mask names, the second of every four.              *)
Exchange(x, n) ==
  LET t == {i \in HalfBits : (i \div n) % 4 = 1 /\ (i \in x) # (i + n \in x)}
  IN  XOR(x, XOR(t, {i \in HalfBits : i - n \in t}))

(* Blocks of 8 bits are the largest in a half of 32 bits. *)
generic_deinterleave16(x) ==
  LET x2 == Exchange(Exchange(x, 1), 2)
      x4 == IF W >= 4 THEN Exchange(x2, 4) ELSE x2
  IN  IF W = 8 THEN Exchange(x4, 8) ELSE x4

generic_interleave16(x) ==
  LET x8 == IF W = 8 THEN Exchange(x, 8) ELSE x
      x4 == IF W >= 4 THEN Exchange(x8, 4) ELSE x8
  IN  Exchange(Exchange(x4, 2), 1)

generic_deinterleave32(in) ==
  LET t0 == generic_deinterleave16(Lo(U64BIG[in]))
      t1 == generic_deinterleave16(Hi(U64BIG[in]))
  IN  Pair(pack(srli16(t0), srli16(t1)), pack(t0, t1))

generic_interleave32(in) ==
  LET lo == generic_interleave16(pack(Lo(in), Hi(in)))
      hi == generic_interleave16(pack(srli16(Lo(in)), srli16(Hi(in))))
  IN  U64BIG[Pair(hi, lo)]

inbound_word(x) == CASE TARGET_ARCH \notin BI32   -> U64BIG[x]
                     [] TARGET_ARCH = "rv32_zbkb" -> zbkb_deinterleave32(x)
                     [] TARGET_ARCH = "rv32"      -> generic_deinterleave32(x)

outbound_word(x) == CASE TARGET_ARCH \notin BI32   -> U64BIG[x]
                      [] TARGET_ARCH = "rv32_zbkb" -> zbkb_interleave32(x)
                      [] TARGET_ARCH = "rv32"      -> generic_interleave32(x)

------------------------------------------------------------------------------

(* A constant the code writes as a 64-bit literal with bytes v[1], v[2] ..  *)
(* from the most significant one; shorter words keep the leading bytes of   *)
(* the literal, or of each of its halves where words are interleaved.       *)
Literal(v) == {i \in Bits : (i % 8) \in ByteOf(v[W - (i \div 8)])}
BILiteral(v) ==
  {i \in Bits : LET k == (W \div 2) - ((i % (4 * W)) \div 8)
                IN  (i % 8) \in ByteOf(v[IF i < 4 * W THEN k + 4 ELSE k])}

(* The padding bit at the top of byte i: 0x80 << (56 - 8 * i), or, with     *)
(* words interleaved, 0x08 << (28 - 4 * i) in the odd half.                 *)
PAD(i) == {IF TARGET_ARCH \in BI32 THEN 8 * W - 1 - 4 * i ELSE 8 * (W - i) - 1}

(* The first n bytes at p, in a zeroed word; LOAD_64 is LOAD_N with n = 8.  *)
LOAD_N(bytes, p, n) ==
  inbound_word({i \in Bits : i \div 8 < n /\ (i % 8) \in bytes[p + (i \div 8)]})

(* Byte j of a word in memory order. *)
OutByte(x, j) == {b \in 0..7 : 8 * j + b \in x}

(* memcpy of the first n bytes to p; STORE_64 with n = 8. *)
STORE_N(bytes, p, x, n) ==
  LET out == outbound_word(x)
  IN  [a \in DOMAIN bytes |->
        IF a \in p..(p + n - 1) THEN OutByte(out, a - p) ELSE bytes[a]]

(* Mutant of CLEAR_N: one byte too many. *)
CLEAR_N_Further(x, n) == {i \in x : i < 8 * (W - n - 1)}

(* Mutant of CLEAR_N: the mask of bytes on both halves of interleaved words. *)
CLEAR_N_Bytes(x, n) ==
  {i \in x : IF TARGET_ARCH \in BI32 THEN i % (4 * W) < 4 * W - 8 * n ELSE i < 8 * (W - n)}

(* Clear the first n bytes: x &= ~SETBYTE(0xff, i) for each i < n, or, with  *)
(* words interleaved, the first 4 * n bits of each half.                    *)
CLEAR_N(x, n) ==
  {i \in x : IF TARGET_ARCH \in BI32 THEN i % (4 * W) < 4 * W - 4 * n ELSE i < 8 * (W - n)}

==============================================================================
