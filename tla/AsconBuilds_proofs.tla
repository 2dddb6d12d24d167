-------------------------- MODULE AsconBuilds_proofs --------------------------
(***************************************************************************)
(* Every build does what the portable code does: the permutation, the      *)
(* exchange of words with memory, and each step of a call.                 *)
(***************************************************************************)
EXTENDS AsconBuilds, AsconAead_proofs

LEMMA PortableGenericRound ==
  \A s, C : Portable!GenericROUND(s, C) = GenericROUND(s, C)
<1>1. /\ \A a, b : Portable!XOR(a, b) = XOR(a, b) /\ Portable!AND(a, b) = AND(a, b)
                   /\ Portable!NOT(a, b) = NOT(a, b)
      /\ \A a, n : Portable!ROR(a, n) = ROR(a, n)
      /\ Portable!Bits = Bits /\ Portable!Word = Word
  BY DEF Portable!XOR, XOR, Portable!AND, AND, Portable!NOT, NOT, Portable!ROR, ROR,
     Portable!Bits, Bits, Portable!Word, Word
<1>2. \A R, x0, x1, x2, x3, x4 :
        Portable!GenericSBox(R, x0, x1, x2, x3, x4) = GenericSBox(R, x0, x1, x2, x3, x4)
  BY <1>1 DEF Portable!GenericSBox, GenericSBox
<1>3. Portable!GenericLinear = GenericLinear
  <2> DEFINE X(u, m, n) == Portable!XOR(Portable!XOR(u, Portable!ROR(u, m)),
                                        Portable!ROR(u, n))
             Y(u, m, n) == XOR(XOR(u, ROR(u, m)), ROR(u, n))
             f(t, i) == CASE i = 0 -> X(t.t0, 19, 28) [] i = 1 -> X(t.t1, 61, 39)
                          [] i = 2 -> X(t.t2, 1, 6) [] i = 3 -> X(t.t3, 10, 17)
                          [] i = 4 -> X(t.t4, 7, 41)
             g(t, i) == CASE i = 0 -> Y(t.t0, 19, 28) [] i = 1 -> Y(t.t1, 61, 39)
                          [] i = 2 -> Y(t.t2, 1, 6) [] i = 3 -> Y(t.t3, 10, 17)
                          [] i = 4 -> Y(t.t4, 7, 41)
             D == [{"t0", "t1", "t2", "t3", "t4"} -> Word]
  <2>1. /\ Portable!GenericLinear = [t \in D |-> [i \in 0..4 |-> f(t, i)]]
        /\ GenericLinear = [t \in D |-> [i \in 0..4 |-> g(t, i)]]
    BY <1>1, Zenon DEF Portable!GenericLinear, GenericLinear
  <2>2. \A u, m, n : X(u, m, n) = Y(u, m, n)
    BY <1>1, Zenon
  <2> HIDE DEF X, Y
  <2>3. ASSUME NEW t PROVE \A i \in 0..4 : f(t, i) = g(t, i)
    <3>1. /\ 1 # 0 /\ 2 # 0 /\ 3 # 0 /\ 4 # 0 /\ 2 # 1 /\ 3 # 1 /\ 4 # 1 /\ 3 # 2
          /\ 4 # 2 /\ 4 # 3
      OBVIOUS
    <3>2. /\ f(t, 0) = g(t, 0) /\ f(t, 1) = g(t, 1) /\ f(t, 2) = g(t, 2)
          /\ f(t, 3) = g(t, 3) /\ f(t, 4) = g(t, 4)
      BY <2>2, <3>1, Zenon
    <3> HIDE DEF f, g
    <3>3. \A i \in 0..4 : i = 0 \/ i = 1 \/ i = 2 \/ i = 3 \/ i = 4
      OBVIOUS
    <3> QED BY <3>2, <3>3
  <2> HIDE DEF f, g, D
  <2> QED BY <2>1, <2>3
<1> TAKE s, C
<1>4. Portable!GenericSBox(Portable!Bits, s[0], s[1], Portable!XOR(s[2], C), s[3], s[4])
        = GenericSBox(Bits, s[0], s[1], XOR(s[2], C), s[3], s[4])
  BY <1>1, <1>2, Zenon
<1> QED BY <1>3, <1>4, Zenon DEF Portable!GenericROUND, GenericROUND

LEMMA PortableOps ==
  /\ Portable!State = State
  /\ \A s, C : Portable!GenericROUND(s, C) = GenericROUND(s, C)
  /\ \A i : Portable!RoundConstant(i) = ByteOf(ascon_round_constants[i + 1])
<1>1. Portable!State = State
  BY DEF Portable!State, State, Portable!Word, Word, Portable!Bits, Bits
<1>2. \A s, C : Portable!GenericROUND(s, C) = GenericROUND(s, C)
  BY PortableGenericRound
<1>3. \A i : Portable!RoundConstant(i) = ByteOf(ascon_round_constants[i + 1])
  BY DEF Portable!RoundConstant, Portable!BI32, Portable!ByteOf, ByteOf,
     Portable!ascon_round_constants, ascon_round_constants
<1> QED BY <1>1, <1>2, <1>3

LEMMA PortableRound ==
  ASSUME NEW i \in 0..11, NEW s \in State
  PROVE  Portable!Round(i)[s] = GenericROUND(s, ByteOf(ascon_round_constants[i + 1]))
<1>1. "generic" \notin Portable!BI32 /\ "generic" \notin {"rv64", "rv64_zbkb"}
  BY DEF Portable!BI32
<1>2. Portable!Round(i)[s] = Portable!GenericROUND(s, Portable!RoundConstant(i))
  BY <1>1, PortableOps, Zenon DEF Portable!Round
<1> QED BY <1>2, PortableOps

LEMMA RoundStep ==
  ASSUME NEW i \in 0..11, NEW s \in State
  PROVE  /\ Round(i)[s] \in State
         /\ StandardState(s) \in State
         /\ StandardState(Round(i)[s]) = Portable!Round(i)[StandardState(s)]
  BY RoundType, BuildsAgree, StandardValue, PortableRound

(* In every build the permutations of 6, 8 and 12 rounds take the state it  *)
(* represents to what the portable permutation makes of it.                 *)
THEOREM PermutationsAgree ==
  ASSUME NEW s \in State
  PROVE  /\ StandardState(P6(s)) = Portable!P6(StandardState(s))
         /\ StandardState(P8(s)) = Portable!P8(StandardState(s))
         /\ StandardState(P12(s)) = Portable!P12(StandardState(s))
<1>0. /\ 0 \in 0..11 /\ 1 \in 0..11 /\ 2 \in 0..11 /\ 3 \in 0..11 /\ 4 \in 0..11 /\ 5 \in 0..11
      /\ 6 \in 0..11 /\ 7 \in 0..11 /\ 8 \in 0..11 /\ 9 \in 0..11 /\ 10 \in 0..11 /\ 11 \in 0..11
  OBVIOUS
<1> DEFINE Good(i) == \A t \in State :
                        /\ Round(i)[t] \in State
                        /\ StandardState(Round(i)[t]) = Portable!Round(i)[StandardState(t)]
<1>1. /\ Good(0) /\ Good(1) /\ Good(2) /\ Good(3) /\ Good(4) /\ Good(5)
      /\ Good(6) /\ Good(7) /\ Good(8) /\ Good(9) /\ Good(10) /\ Good(11)
  BY <1>0, RoundStep, Zenon
<1>2. ASSUME NEW t \in State
      PROVE  /\ P6(t) \in State
             /\ StandardState(P6(t)) = Portable!P6(StandardState(t))
  <2> DEFINE u == Round(8)[Round(7)[Round(6)[t]]]
             v == Portable!Round(8)[Portable!Round(7)[Portable!Round(6)[StandardState(t)]]]
  <2>1. u \in State /\ StandardState(u) = v
    BY <1>1
  <2>2. /\ P6(t) = Round(11)[Round(10)[Round(9)[u]]]
        /\ Portable!P6(StandardState(t))
             = Portable!Round(11)[Portable!Round(10)[Portable!Round(9)[v]]]
    BY DEF P6, Portable!P6
  <2> HIDE DEF u, v
  <2> QED BY <1>1, <2>1, <2>2
<1>3. ASSUME NEW t \in State
      PROVE  /\ P8(t) \in State
             /\ StandardState(P8(t)) = Portable!P8(StandardState(t))
  BY <1>1, <1>2 DEF P8, Portable!P8
<1>4. ASSUME NEW t \in State
      PROVE  StandardState(P12(t)) = Portable!P12(StandardState(t))
  BY <1>1, <1>3 DEF P12, Portable!P12
<1> QED BY <1>2, <1>3, <1>4

------------------------------------------------------------------------------
(* Words and memory: what the portable code does to the words that a build  *)
(* represents.                                                              *)

LEMMA PortableNames ==
  /\ Portable!Bits = Bits /\ Portable!Word = Word /\ Portable!Rate = Rate
  /\ Portable!TagLen = TagLen /\ Portable!Addr = Addr
  /\ \A a, b : Portable!XOR(a, b) = XOR(a, b) /\ Portable!Region(a, b) = Region(a, b)
  /\ \A a, b : Portable!OutByte(a, b) = OutByte(a, b)
  /\ \A a \in Word : Portable!inbound_word(a) = U64BIG[a]
  /\ \A a \in Word : Portable!outbound_word(a) = U64BIG[a]
<1>1. /\ Portable!Bits = Bits /\ Portable!Word = Word /\ Portable!Rate = Rate
      /\ Portable!TagLen = TagLen /\ Portable!Addr = Addr
      /\ \A a, b : Portable!XOR(a, b) = XOR(a, b) /\ Portable!Region(a, b) = Region(a, b)
      /\ \A a, b : Portable!OutByte(a, b) = OutByte(a, b)
  BY DEF Portable!Bits, Bits, Portable!Word, Word, Portable!Rate, Rate, Portable!TagLen,
     TagLen, Portable!Addr, Addr, Portable!XOR, XOR, Portable!Region, Region,
     Portable!OutByte, OutByte
<1>2. Portable!U64BIG = U64BIG
  BY <1>1 DEF Portable!U64BIG, U64BIG
<1>3. /\ "generic" \notin Portable!BI32 /\ "generic" # "rv32" /\ "generic" # "rv32_zbkb"
  BY DEF Portable!BI32
<1>4. \A a : /\ Portable!inbound_word(a) = Portable!U64BIG[a]
             /\ Portable!outbound_word(a) = Portable!U64BIG[a]
  BY <1>3 DEF Portable!inbound_word, Portable!outbound_word
<1> QED BY <1>1, <1>2, <1>4

LEMMA PortableLoad ==
  \A bytes, p, n : Portable!LOAD_N(bytes, p, n) = Standard(LOAD_N(bytes, p, n))
<1> TAKE bytes, p, n
<1> DEFINE a == {i \in Bits : i \div 8 < n /\ (i % 8) \in bytes[p + (i \div 8)]}
<1>1. a \in Word
  BY DEF Word
<1>2. Portable!LOAD_N(bytes, p, n) = Portable!inbound_word(a)
  BY PortableNames, Zenon DEF Portable!LOAD_N
<1>3. LOAD_N(bytes, p, n) = inbound_word(a)
  BY DEF LOAD_N
<1> HIDE DEF a
<1> QED BY <1>1, <1>2, <1>3, PortableNames, StandardExchange

LEMMA PortableStore ==
  ASSUME NEW w \in Word
  PROVE  \A bytes, p, n : Portable!STORE_N(bytes, p, Standard(w), n) = STORE_N(bytes, p, w, n)
<1> TAKE bytes, p, n
<1>1. Portable!outbound_word(Standard(w)) = outbound_word(w)
  BY PortableNames, StandardExchange, StandardType
<1>2. \A u, j : Portable!OutByte(u, j) = OutByte(u, j)
  BY PortableNames
<1> QED BY <1>1, <1>2, Zenon DEF Portable!STORE_N, STORE_N

LEMMA PortablePartial ==
  /\ \A n \in 0..(W - 1) : Portable!PAD(n) = Standard(PAD(n))
  /\ \A n \in 0..W : \A w \in Word :
       Portable!CLEAR_N(Standard(w), n) = Standard(CLEAR_N(w, n))
<1>1. "generic" \notin Portable!BI32
  BY DEF Portable!BI32
<1>2. \A n : Portable!PAD(n) = {8 * (W - n) - 1}
  BY <1>1 DEF Portable!PAD
<1>3. \A n, w : Portable!CLEAR_N(w, n) = {i \in w : i < 8 * (W - n)}
  BY <1>1 DEF Portable!CLEAR_N
<1>4. \A n \in 0..W : \A w \in Word :
        Standard(CLEAR_N(w, n)) = {i \in Standard(w) : i < 8 * (W - n)}
  BY StandardClear
<1> QED BY <1>2, <1>3, <1>4, StandardBits

LEMMA PortableInitialValue ==
  Portable!ASCON_IV(RateWords) = Standard(ASCON_IV(RateWords))
<1>1. "generic" \notin Portable!BI32
  BY DEF Portable!BI32
<1>2. \A v : Portable!Literal(v) = Literal(v)
  BY PortableNames DEF Portable!Literal, Literal, Portable!ByteOf, ByteOf
<1>3. CASE RateWords = 1
  <2>1. Portable!ASCON_IV(1) = Literal(<<128, 64, 12, 6, 0, 0, 0, 0>>)
    BY <1>1, <1>2 DEF Portable!ASCON_IV
  <2>2. CASE TARGET_ARCH \in BI32
    BY <1>3, <2>1, <2>2, InitialValue128 DEF ASCON_IV
  <2>3. CASE TARGET_ARCH \notin BI32
    BY <1>3, <2>1, <2>3 DEF ASCON_IV, Standard
  <2> QED BY <2>2, <2>3
<1>4. CASE RateWords = 2
  <2>1. Portable!ASCON_IV(2) = Literal(<<128, 128, 12, 8, 0, 0, 0, 0>>)
    BY <1>1, <1>2 DEF Portable!ASCON_IV
  <2>2. CASE TARGET_ARCH \in BI32
    BY <1>4, <2>1, <2>2, InitialValue128a DEF ASCON_IV
  <2>3. CASE TARGET_ARCH \notin BI32
    BY <1>4, <2>1, <2>3 DEF ASCON_IV, Standard
  <2> QED BY <2>2, <2>3
<1> QED BY <1>3, <1>4, RateAssumption

------------------------------------------------------------------------------
(* The state: each operation of ascon_init, ascon_assoc_data, the duplex    *)
(* and ascon_finalize commutes with reading the state as the portable one.  *)

LEMMA PortableAddWord ==
  ASSUME NEW s \in State, NEW i \in 0..4, NEW w \in Word
  PROVE  Portable!AddWord(StandardState(s), i, Standard(w)) = StandardState(AddWord(s, i, w))
<1> DEFINE p == StandardState(s)
           a == AddWord(s, i, w)
<1>1. p \in State /\ \A j \in 0..4 : p[j] = Standard(s[j])
  BY StandardValue
<1>2. a \in State
  BY AddWordType
<1>3. StandardState(a) = [j \in 0..4 |-> Standard(a[j])]
  BY DEF StandardState
<1>4. \A j \in 0..4 : a[j] = IF j = i THEN XOR(s[i], w) ELSE s[j]
  BY DEF AddWord, State
<1>5. Portable!AddWord(p, i, Standard(w)) = [p EXCEPT ![i] = XOR(@, Standard(w))]
  BY PortableNames, Zenon DEF Portable!AddWord
<1>6. Standard(XOR(s[i], w)) = XOR(p[i], Standard(w))
  BY <1>1, StandardXor
<1> HIDE DEF p, a
<1>7. [p EXCEPT ![i] = XOR(@, Standard(w))] = [j \in 0..4 |-> Standard(a[j])]
  BY <1>1, <1>4, <1>6 DEF State
<1> QED BY <1>3, <1>5, <1>7 DEF p, a

LEMMA PortablePermute ==
  ASSUME NEW s \in State
  PROVE  /\ Portable!P_A(StandardState(s)) = StandardState(P_A(s))
         /\ Portable!P_B(StandardState(s)) = StandardState(P_B(s))
  BY PermutationsAgree DEF Portable!P_A, P_A, Portable!P_B, P_B

LEMMA PortableKey ==
  \A c, i : KeyWord(c, i) \in Word /\ Portable!KeyWord(c, i) = Standard(KeyWord(c, i))
  BY PortableLoad, LoadType DEF Portable!KeyWord, KeyWord

LEMMA PortableInitialState ==
  \A c : Portable!InitialState(c) = StandardState(InitialState(c))
<1> TAKE c
<1> DEFINE f(i) == CASE i = 0 -> ASCON_IV(RateWords)
                     [] i = 1 -> KeyWord(c, 0)
                     [] i = 2 -> KeyWord(c, 1)
                     [] i = 3 -> LOAD_N(c.nonce, 0, W)
                     [] i = 4 -> LOAD_N(c.nonce, W, W)
           g(i) == CASE i = 0 -> Portable!ASCON_IV(RateWords)
                     [] i = 1 -> Portable!KeyWord(c, 0)
                     [] i = 2 -> Portable!KeyWord(c, 1)
                     [] i = 3 -> Portable!LOAD_N(c.nonce, 0, W)
                     [] i = 4 -> Portable!LOAD_N(c.nonce, W, W)
<1>1. /\ InitialState(c) = [i \in 0..4 |-> f(i)]
      /\ Portable!InitialState(c) = [i \in 0..4 |-> g(i)]
  BY DEF InitialState, Portable!InitialState
<1>2. /\ 0 # 1 /\ 0 # 2 /\ 0 # 3 /\ 0 # 4 /\ 1 # 2 /\ 1 # 3 /\ 1 # 4 /\ 2 # 3 /\ 2 # 4 /\ 3 # 4
  OBVIOUS
<1>3. /\ g(0) = Standard(f(0)) /\ g(1) = Standard(f(1)) /\ g(2) = Standard(f(2))
      /\ g(3) = Standard(f(3)) /\ g(4) = Standard(f(4))
  BY <1>2, PortableInitialValue, PortableKey, PortableLoad
<1> HIDE DEF f, g
<1>4. \A i \in 0..4 : i = 0 \/ i = 1 \/ i = 2 \/ i = 3 \/ i = 4
  OBVIOUS
<1>5. \A i \in 0..4 : g(i) = Standard(f(i))
  BY <1>3, <1>4
<1> QED BY <1>1, <1>5 DEF StandardState

LEMMA PortableDomain ==
  ASSUME NEW s \in State
  PROVE  /\ SeparateDomain(s) \in State
         /\ Portable!SeparateDomain(StandardState(s)) = StandardState(SeparateDomain(s))
<1>1. {0} \in Word
  BY WAssumption DEF Word, Bits
<1>2. Portable!AddWord(StandardState(s), 4, Standard({0})) = StandardState(AddWord(s, 4, {0}))
  BY <1>1, PortableAddWord
<1>3. Standard({0}) = {0}
  BY StandardBits
<1>4. SeparateDomain(s) = AddWord(s, 4, {0}) /\ SeparateDomain(s) \in State
  BY <1>1, AddWordType DEF SeparateDomain
<1>5. Portable!SeparateDomain(StandardState(s))
        = Portable!AddWord(StandardState(s), 4, {0})
  BY DEF Portable!SeparateDomain
<1> QED BY <1>2, <1>3, <1>4, <1>5

LEMMA PortableAbsorbWord ==
  ASSUME NEW s \in State, NEW i \in 0..4, NEW at, NEW n
  PROVE  /\ AbsorbWord(s, i, at, n) \in State
         /\ Portable!AbsorbWord(StandardState(s), i, at, n) = StandardState(AbsorbWord(s, i, at, n))
<1> DEFINE w == LOAD_N(call.ad, at, n)
<1>1. w \in Word /\ Portable!LOAD_N(call.ad, at, n) = Standard(w)
  BY LoadType, PortableLoad
<1>2. /\ AbsorbWord(s, i, at, n) = AddWord(s, i, w)
      /\ Portable!AbsorbWord(StandardState(s), i, at, n)
           = Portable!AddWord(StandardState(s), i, Standard(w))
  BY <1>1 DEF AbsorbWord, Portable!AbsorbWord
<1> HIDE DEF w
<1> QED BY <1>1, <1>2, AddWordType, PortableAddWord

LEMMA PortablePad ==
  ASSUME NEW s \in State, NEW i \in 0..4, NEW n \in 0..(W - 1)
  PROVE  /\ AddWord(s, i, PAD(n)) \in State
         /\ Portable!AddWord(StandardState(s), i, Portable!PAD(n))
              = StandardState(AddWord(s, i, PAD(n)))
  BY PadType, AddWordType, PortablePartial, PortableAddWord

LEMMA PortableAbsorb ==
  ASSUME NEW s \in State, NEW at, NEW n \in Nat, n < Rate
  PROVE  /\ AbsorbRate(s, at) \in State /\ AbsorbRest(s, at, n) \in State
         /\ Portable!AbsorbRate(StandardState(s), at) = StandardState(AbsorbRate(s, at))
         /\ Portable!AbsorbRest(StandardState(s), at, n) = StandardState(AbsorbRest(s, at, n))
<1>0. 0 \in 0..4 /\ 1 \in 0..4
  OBVIOUS
<1> DEFINE a == AbsorbWord(s, 0, at, W)
<1>1. a \in State /\ Portable!AbsorbWord(StandardState(s), 0, at, W) = StandardState(a)
  BY <1>0, PortableAbsorbWord
<1> HIDE DEF a
<1>2. \A t \in State : \A p, k :
        /\ AbsorbWord(t, 0, p, k) \in State /\ AbsorbWord(t, 1, p, k) \in State
        /\ Portable!AbsorbWord(StandardState(t), 0, p, k) = StandardState(AbsorbWord(t, 0, p, k))
        /\ Portable!AbsorbWord(StandardState(t), 1, p, k) = StandardState(AbsorbWord(t, 1, p, k))
  BY <1>0, PortableAbsorbWord
<1>3. /\ AbsorbRate(s, at) \in State
      /\ Portable!AbsorbRate(StandardState(s), at) = StandardState(AbsorbRate(s, at))
  <2>1. AbsorbRate(s, at) = IF RateWords = 2 THEN AbsorbWord(a, 1, at + W, W) ELSE a
    BY DEF AbsorbRate, a
  <2>2. Portable!AbsorbRate(StandardState(s), at)
          = IF RateWords = 2 THEN Portable!AbsorbWord(StandardState(a), 1, at + W, W)
                             ELSE StandardState(a)
    BY <1>1 DEF Portable!AbsorbRate
  <2> QED BY <1>1, <1>2, <2>1, <2>2
<1>4. CASE RateWords = 2 /\ n >= W
  <2>1. n - W \in 0..(W - 1)
    BY <1>4, WAssumption DEF Rate
  <2> DEFINE b == AddWord(a, 1, PAD(n - W))
  <2>2. /\ b \in State
        /\ Portable!AddWord(StandardState(a), 1, Portable!PAD(n - W)) = StandardState(b)
    BY <1>0, <1>1, <2>1, PortablePad
  <2>3. AbsorbRest(s, at, n) = AbsorbWord(b, 1, at + W, n - W)
    BY <1>4 DEF AbsorbRest, a
  <2> HIDE DEF b
  <2>4. Portable!AbsorbRest(StandardState(s), at, n)
          = Portable!AbsorbWord(StandardState(b), 1, at + W, n - W)
    BY <1>1, <1>4, <2>2 DEF Portable!AbsorbRest
  <2> QED BY <1>2, <1>3, <2>2, <2>3, <2>4
<1>5. CASE ~(RateWords = 2 /\ n >= W)
  <2>1. n \in 0..(W - 1)
    BY <1>5, WAssumption, RateAssumption DEF Rate
  <2> DEFINE b == AddWord(s, 0, PAD(n))
  <2>2. /\ b \in State
        /\ Portable!AddWord(StandardState(s), 0, Portable!PAD(n)) = StandardState(b)
    BY <1>0, <2>1, PortablePad
  <2>3. AbsorbRest(s, at, n) = AbsorbWord(b, 0, at, n)
    BY <1>5 DEF AbsorbRest
  <2> HIDE DEF b
  <2>4. Portable!AbsorbRest(StandardState(s), at, n)
          = Portable!AbsorbWord(StandardState(b), 0, at, n)
    BY <1>5, <2>2 DEF Portable!AbsorbRest
  <2> QED BY <1>2, <1>3, <2>2, <2>3, <2>4
<1> QED BY <1>4, <1>5

LEMMA PortableFinalize ==
  ASSUME NEW s \in State
  PROVE  /\ Finalize(s) \in State
         /\ Portable!Finalize(StandardState(s)) = StandardState(Finalize(s))
<1> DEFINE k0 == KeyWord(call, 0)
           k1 == KeyWord(call, 1)
           a == AddWord(s, RateWords, k0)
           b == AddWord(a, RateWords + 1, k1)
           c == P_A(b)
           d == AddWord(c, 3, k0)
           e == AddWord(d, 4, k1)
<1>1. /\ k0 \in Word /\ Portable!KeyWord(call, 0) = Standard(k0)
      /\ k1 \in Word /\ Portable!KeyWord(call, 1) = Standard(k1)
  BY PortableKey
<1>2. RateWords \in 0..4 /\ RateWords + 1 \in 0..4 /\ 3 \in 0..4 /\ 4 \in 0..4
  BY RateAssumption
<1>3. Finalize(s) = e
  BY DEF Finalize
<1> HIDE DEF k0, k1
<1>4. /\ a \in State
      /\ Portable!AddWord(StandardState(s), RateWords, Standard(k0)) = StandardState(a)
  BY <1>1, <1>2, AddWordType, PortableAddWord
<1> HIDE DEF a
<1>5. /\ b \in State
      /\ Portable!AddWord(StandardState(a), RateWords + 1, Standard(k1)) = StandardState(b)
  BY <1>1, <1>2, <1>4, AddWordType, PortableAddWord
<1> HIDE DEF b
<1>6. c \in State /\ Portable!P_A(StandardState(b)) = StandardState(c)
  BY <1>5, PBType, PortablePermute
<1> HIDE DEF c
<1>7. /\ d \in State
      /\ Portable!AddWord(StandardState(c), 3, Standard(k0)) = StandardState(d)
  BY <1>1, <1>2, <1>6, AddWordType, PortableAddWord
<1> HIDE DEF d
<1>8. /\ e \in State
      /\ Portable!AddWord(StandardState(d), 4, Standard(k1)) = StandardState(e)
  BY <1>1, <1>2, <1>7, AddWordType, PortableAddWord
<1> HIDE DEF e
<1>9. Portable!Finalize(StandardState(s)) = StandardState(e)
  BY <1>1, <1>4, <1>5, <1>6, <1>7, <1>8, Zenon DEF Portable!Finalize
<1> QED BY <1>3, <1>8, <1>9

LEMMA PortableTag ==
  ASSUME NEW s \in State
  PROVE  /\ \A m, p : Portable!StoreTag(m, p, StandardState(s)) = StoreTag(m, p, s)
         /\ \A m, p, t : Portable!TagVerdict(m, p, t) = TagVerdict(m, p, t)
<1>1. /\ s[3] \in Word /\ StandardState(s)[3] = Standard(s[3])
      /\ s[4] \in Word /\ StandardState(s)[4] = Standard(s[4])
  BY StandardValue DEF State
<1>2. \A m, p : Portable!StoreTag(m, p, StandardState(s)) = StoreTag(m, p, s)
  BY <1>1, PortableStore DEF Portable!StoreTag, StoreTag
<1>3. \A m, p, t : Portable!TagVerdict(m, p, t) = TagVerdict(m, p, t)
  <2>1. \A m, p, t : Portable!Differences(m, p, t) = Differences(m, p, t)
    <3>1. \A b : Portable!ValueOf(b) = ValueOf(b)
      BY Zenon DEF Portable!ValueOf, ValueOf
    <3> TAKE m, p, t
    <3> DEFINE e == {b \in 0..7 : \E i \in 0..(Portable!TagLen - 1) :
                                    b \in Portable!XOR(m[p + i], t[i])}
               d == {b \in 0..7 : \E i \in 0..(TagLen - 1) : b \in XOR(m[p + i], t[i])}
    <3>2. e = d
      BY PortableNames
    <3>3. Portable!Differences(m, p, t) = Portable!ValueOf(e) /\ Differences(m, p, t) = ValueOf(d)
      BY DEF Portable!Differences, Differences
    <3> HIDE DEF e, d
    <3> QED BY <3>1, <3>2, <3>3
  <2> QED BY <2>1, Zenon DEF Portable!TagVerdict, TagVerdict
<1> QED BY <1>2, <1>3

------------------------------------------------------------------------------
(* The text: state and memory.                                              *)

Portably(s) == [x |-> StandardState(s.x), mem |-> s.mem]

LEMMA PortableWord ==
  ASSUME NEW s, s.x \in State, NEW i \in 0..1, NEW at, NEW n \in 0..W
  PROVE  /\ EncryptWord(s, i, at, n).x \in State /\ DecryptWord(s, i, at, n).x \in State
         /\ Portable!EncryptWord(Portably(s), i, at, n) = Portably(EncryptWord(s, i, at, n))
         /\ Portable!DecryptWord(Portably(s), i, at, n) = Portably(DecryptWord(s, i, at, n))
<1> DEFINE q == StandardState(s.x)
           w == LOAD_N(s.mem, call.src + at, n)
           v == Portable!LOAD_N(s.mem, call.src + at, n)
           y == XOR(s.x[i], w)
           z == XOR(q[i], v)
           c == XOR(CLEAR_N(y, n), w)
           d == XOR(Portable!CLEAR_N(z, n), v)
           e == [s.x EXCEPT ![i] = y]
           f == [s.x EXCEPT ![i] = c]
<1>0. i \in 0..4
  OBVIOUS
<1>1. w \in Word /\ v = Standard(w)
  BY LoadType, PortableLoad
<1>2. q \in State /\ (\A j \in 0..4 : q[j] = Standard(s.x[j]) /\ s.x[j] \in Word)
  BY StandardValue DEF State
<1>3. EncryptWord(s, i, at, n) = [x |-> e, mem |-> STORE_N(s.mem, call.dst + at, y, n)]
  BY DEF EncryptWord
<1>4. DecryptWord(s, i, at, n) = [x |-> f, mem |-> STORE_N(s.mem, call.dst + at, y, n)]
  BY DEF DecryptWord
<1>5. Portable!EncryptWord(Portably(s), i, at, n)
        = [x |-> [q EXCEPT ![i] = z], mem |-> Portable!STORE_N(s.mem, call.dst + at, z, n)]
  BY PortableNames DEF Portable!EncryptWord, Portably
<1>6. Portable!DecryptWord(Portably(s), i, at, n)
        = [x |-> [q EXCEPT ![i] = d], mem |-> Portable!STORE_N(s.mem, call.dst + at, z, n)]
  BY PortableNames DEF Portable!DecryptWord, Portably
<1> HIDE DEF w, v, q
<1>7. y \in Word /\ z = Standard(y)
  BY <1>0, <1>1, <1>2, XorType, StandardXor
<1> HIDE DEF y, z
<1>8. c \in Word /\ d = Standard(c)
  <2>1. CLEAR_N(y, n) \in Word /\ Portable!CLEAR_N(z, n) = Standard(CLEAR_N(y, n))
    BY <1>7, ClearType, PortablePartial
  <2> QED BY <1>1, <2>1, XorType, StandardXor
<1> HIDE DEF c, d
<1>9. ASSUME NEW u \in Word
      PROVE  /\ [s.x EXCEPT ![i] = u] \in State
             /\ StandardState([s.x EXCEPT ![i] = u]) = [q EXCEPT ![i] = Standard(u)]
  <2> DEFINE g == [s.x EXCEPT ![i] = u]
  <2>1. g \in State /\ \A j \in 0..4 : g[j] = IF j = i THEN u ELSE s.x[j]
    BY <1>0 DEF State
  <2> HIDE DEF g
  <2>2. StandardState(g) = [j \in 0..4 |-> Standard(g[j])]
    BY DEF StandardState
  <2>3. [q EXCEPT ![i] = Standard(u)] = [j \in 0..4 |-> Standard(g[j])]
    BY <1>0, <1>2, <2>1 DEF State
  <2>4. g \in State /\ StandardState(g) = [q EXCEPT ![i] = Standard(u)]
    BY <2>1, <2>2, <2>3
  <2> QED BY <2>4 DEF g
<1>10. /\ e \in State /\ StandardState(e) = [q EXCEPT ![i] = z]
       /\ f \in State /\ StandardState(f) = [q EXCEPT ![i] = d]
  BY <1>7, <1>8, <1>9
<1>11. Portable!STORE_N(s.mem, call.dst + at, z, n) = STORE_N(s.mem, call.dst + at, y, n)
  BY <1>7, PortableStore
<1> HIDE DEF e, f
<1> DEFINE m == STORE_N(s.mem, call.dst + at, y, n)
<1> HIDE DEF m
<1>12. /\ EncryptWord(s, i, at, n) = [x |-> e, mem |-> m]
       /\ DecryptWord(s, i, at, n) = [x |-> f, mem |-> m]
  BY <1>3, <1>4 DEF m
<1>13. /\ Portable!EncryptWord(Portably(s), i, at, n) = [x |-> StandardState(e), mem |-> m]
       /\ Portable!DecryptWord(Portably(s), i, at, n) = [x |-> StandardState(f), mem |-> m]
  BY <1>5, <1>6, <1>10, <1>11 DEF m
<1> DEFINE E == EncryptWord(s, i, at, n)
           D == DecryptWord(s, i, at, n)
<1>14. /\ E.x = e /\ E.mem = m
       /\ D.x = f /\ D.mem = m
  BY <1>12
<1>15. /\ Portably(E) = [x |-> StandardState(e), mem |-> m]
       /\ Portably(D) = [x |-> StandardState(f), mem |-> m]
  BY <1>14 DEF Portably
<1>16. E.x \in State /\ D.x \in State
  BY <1>10, <1>14
<1> QED BY <1>13, <1>15, <1>16

LEMMA PortablePadded ==
  ASSUME NEW s, s.x \in State, NEW i \in 0..1, NEW n \in 0..(W - 1)
  PROVE  /\ Padded(s, i, n).x \in State
         /\ Portable!Padded(Portably(s), i, n) = Portably(Padded(s, i, n))
<1>1. i \in 0..4
  OBVIOUS
<1> DEFINE a == AddWord(s.x, i, PAD(n))
<1>2. /\ a \in State
      /\ Portable!AddWord(StandardState(s.x), i, Portable!PAD(n)) = StandardState(a)
  BY <1>1, PortablePad
<1> HIDE DEF a
<1>3. Padded(s, i, n) = [x |-> a, mem |-> s.mem]
  BY DEF Padded, a
<1>4. Portable!Padded(Portably(s), i, n) = [x |-> StandardState(a), mem |-> s.mem]
  BY <1>2 DEF Portable!Padded, Portably
<1> QED BY <1>2, <1>3, <1>4 DEF Portably

LEMMA PortableRate ==
  ASSUME NEW s, s.x \in State, NEW at
  PROVE  /\ EncryptRate(s, at).x \in State /\ DecryptRate(s, at).x \in State
         /\ Portable!EncryptRate(Portably(s), at) = Portably(EncryptRate(s, at))
         /\ Portable!DecryptRate(Portably(s), at) = Portably(DecryptRate(s, at))
<1>0. 0 \in 0..1 /\ 1 \in 0..1 /\ W \in 0..W
  BY WAssumption
<1> DEFINE a == EncryptWord(s, 0, at, W)
           b == DecryptWord(s, 0, at, W)
<1>1. /\ a.x \in State /\ Portable!EncryptWord(Portably(s), 0, at, W) = Portably(a)
      /\ b.x \in State /\ Portable!DecryptWord(Portably(s), 0, at, W) = Portably(b)
  BY <1>0, PortableWord
<1>2. /\ EncryptRate(s, at) = IF RateWords = 2 THEN EncryptWord(a, 1, at + W, W) ELSE a
      /\ DecryptRate(s, at) = IF RateWords = 2 THEN DecryptWord(b, 1, at + W, W) ELSE b
  BY DEF EncryptRate, DecryptRate
<1> HIDE DEF a, b
<1>3. /\ Portable!EncryptRate(Portably(s), at)
           = IF RateWords = 2 THEN Portable!EncryptWord(Portably(a), 1, at + W, W)
                              ELSE Portably(a)
      /\ Portable!DecryptRate(Portably(s), at)
           = IF RateWords = 2 THEN Portable!DecryptWord(Portably(b), 1, at + W, W)
                              ELSE Portably(b)
  BY <1>1 DEF Portable!EncryptRate, Portable!DecryptRate
<1>4. /\ EncryptWord(a, 1, at + W, W).x \in State
      /\ Portable!EncryptWord(Portably(a), 1, at + W, W)
           = Portably(EncryptWord(a, 1, at + W, W))
  BY <1>0, <1>1, PortableWord
<1>5. /\ DecryptWord(b, 1, at + W, W).x \in State
      /\ Portable!DecryptWord(Portably(b), 1, at + W, W)
           = Portably(DecryptWord(b, 1, at + W, W))
  BY <1>0, <1>1, PortableWord
<1> QED BY <1>1, <1>2, <1>3, <1>4, <1>5

LEMMA PortableRest ==
  ASSUME NEW s, s.x \in State, NEW at, NEW n \in Nat, n < Rate
  PROVE  /\ EncryptRest(s, at, n).x \in State /\ DecryptRest(s, at, n).x \in State
         /\ Portable!EncryptRest(Portably(s), at, n) = Portably(EncryptRest(s, at, n))
         /\ Portable!DecryptRest(Portably(s), at, n) = Portably(DecryptRest(s, at, n))
<1>0. 0 \in 0..1 /\ 1 \in 0..1 /\ W \in 0..W
  BY WAssumption
<1>1. CASE RateWords = 2 /\ n >= W
  <2>0. n - W \in 0..(W - 1) /\ n - W \in 0..W
    BY <1>1, WAssumption DEF Rate
  <2> DEFINE a == EncryptWord(s, 0, at, W)
             b == DecryptWord(s, 0, at, W)
             c == Padded(a, 1, n - W)
             d == Padded(b, 1, n - W)
  <2>1. /\ a.x \in State /\ Portable!EncryptWord(Portably(s), 0, at, W) = Portably(a)
        /\ b.x \in State /\ Portable!DecryptWord(Portably(s), 0, at, W) = Portably(b)
    BY <1>0, PortableWord
  <2>2. /\ EncryptRest(s, at, n) = EncryptWord(c, 1, at + W, n - W)
        /\ DecryptRest(s, at, n) = DecryptWord(d, 1, at + W, n - W)
    BY <1>1 DEF EncryptRest, DecryptRest
  <2> HIDE DEF a, b
  <2>3. /\ c.x \in State /\ Portable!Padded(Portably(a), 1, n - W) = Portably(c)
        /\ d.x \in State /\ Portable!Padded(Portably(b), 1, n - W) = Portably(d)
    BY <1>0, <2>0, <2>1, PortablePadded
  <2> HIDE DEF c, d
  <2>4. /\ Portable!EncryptRest(Portably(s), at, n)
             = Portable!EncryptWord(Portably(c), 1, at + W, n - W)
        /\ Portable!DecryptRest(Portably(s), at, n)
             = Portable!DecryptWord(Portably(d), 1, at + W, n - W)
    BY <1>1, <2>1, <2>3 DEF Portable!EncryptRest, Portable!DecryptRest
  <2> QED BY <1>0, <2>0, <2>2, <2>3, <2>4, PortableWord
<1>2. CASE ~(RateWords = 2 /\ n >= W)
  <2>0. n \in 0..(W - 1) /\ n \in 0..W
    BY <1>2, WAssumption, RateAssumption DEF Rate
  <2> DEFINE c == Padded(s, 0, n)
  <2>2. /\ EncryptRest(s, at, n) = EncryptWord(c, 0, at, n)
        /\ DecryptRest(s, at, n) = DecryptWord(c, 0, at, n)
    BY <1>2 DEF EncryptRest, DecryptRest
  <2>3. c.x \in State /\ Portable!Padded(Portably(s), 0, n) = Portably(c)
    BY <1>0, <2>0, PortablePadded
  <2> HIDE DEF c
  <2>4. /\ Portable!EncryptRest(Portably(s), at, n)
             = Portable!EncryptWord(Portably(c), 0, at, n)
        /\ Portable!DecryptRest(Portably(s), at, n)
             = Portable!DecryptWord(Portably(c), 0, at, n)
    BY <1>2, <2>3 DEF Portable!EncryptRest, Portable!DecryptRest
  <2> QED BY <1>0, <2>0, <2>2, <2>3, <2>4, PortableWord
<1> QED BY <1>1, <1>2

------------------------------------------------------------------------------
(* The callers and their channel are the same whatever the build: their     *)
(* definitions, written out, are.                                           *)

LEMMA PortableIsCall == \A c : Portable!IsCall(c) <=> IsCall(c)
  BY DEF Portable!IsCall, IsCall, Portable!Array, Array, Portable!Byte, Byte,
     Portable!TagLen, TagLen

LEMMA PortableEntries ==
  /\ Portable!FirstEntries = FirstEntries
  /\ \A m, e : Portable!NextEntries(m, e) = NextEntries(m, e)
<1> USE DEF Portable!Fitting, Fitting, Portable!IsCall, IsCall, Portable!Array, Array,
            Portable!Byte, Byte, Portable!TagLen, TagLen, Portable!Addr, Addr,
            Portable!EncryptEntry, EncryptEntry, Portable!DecryptEntry, DecryptEntry,
            Portable!MakeCall, MakeCall, Portable!Write, Write, Portable!Region, Region,
            Portable!Length, Length, Portable!Cardinality, Cardinality
<1>1. Portable!FirstEntries = FirstEntries
  BY DEF Portable!FirstEntries, FirstEntries
<1>2. \A m, e : Portable!NextEntries(m, e) = NextEntries(m, e)
  BY DEF Portable!NextEntries, NextEntries, Portable!Alterations, Alterations,
     Portable!Flip, Flip, Portable!XOR, XOR, Portable!Chop, Chop, Portable!Slice, Slice,
     Portable!Extend, Extend, Portable!Prepend, Prepend, Portable!InPlace, InPlace
<1> QED BY <1>1, <1>2, Zenon

LEMMA PortableTransaction ==
  \A c, before, after, r : Portable!Transaction(c, before, after, r)
                             = Transaction(c, before, after, r)
  BY DEF Portable!Transaction, Transaction, Portable!Slice, Slice, Portable!TagLen, TagLen

------------------------------------------------------------------------------
(* The steps.                                                               *)

(* What the steps need of the state: the counters within the lengths keep   *)
(* the number of bytes that are left below a block.                         *)
Shape ==
  /\ x \in State
  /\ IsCall(call)
  /\ absorbed \in 0..call.adlen
  /\ pos \in 0..call.len

LEMMA HereValue == Portable!Here = Portably(Here) /\ (Shape => Here.x \in State)
  BY DEF Portable!Here, Here, Portably, Shape

LEMMA StepInitialise ==
  ASSUME Shape, Initialise
  PROVE  Portable!Initialise /\ Shape'
<1> DEFINE k0 == KeyWord(call, 0)
           k1 == KeyWord(call, 1)
           a == P_A(InitialState(call))
           b == AddWord(a, 3, k0)
           c == AddWord(b, 4, k1)
<1>0. 3 \in 0..4 /\ 4 \in 0..4
  OBVIOUS
<1>1. a \in State /\ Portable!P_A(Portable!InitialState(call)) = StandardState(a)
  BY InitialStateType, PortableInitialState, PBType, PortablePermute
<1>2. x' = c
  BY DEF Initialise
<1>3. /\ k0 \in Word /\ Portable!KeyWord(call, 0) = Standard(k0)
      /\ k1 \in Word /\ Portable!KeyWord(call, 1) = Standard(k1)
  BY PortableKey
<1> HIDE DEF a, k0, k1
<1>4. b \in State /\ Portable!AddWord(StandardState(a), 3, Standard(k0)) = StandardState(b)
  BY <1>0, <1>1, <1>3, AddWordType, PortableAddWord
<1> HIDE DEF b
<1>5. c \in State /\ Portable!AddWord(StandardState(b), 4, Standard(k1)) = StandardState(c)
  BY <1>0, <1>3, <1>4, AddWordType, PortableAddWord
<1> HIDE DEF c
<1>6. StandardState(x)' = Portable!AddWord(Portable!AddWord(
                            Portable!P_A(Portable!InitialState(call)), 3,
                            Portable!KeyWord(call, 0)), 4, Portable!KeyWord(call, 1))
  BY <1>1, <1>2, <1>3, <1>4, <1>5
<1>7. Portable!Initialise
  BY <1>6 DEF Initialise, Portable!Initialise
<1>8. Shape'
  BY <1>2, <1>5 DEF Initialise, Shape
<1> QED BY <1>7, <1>8

LEMMA StepAbsorb ==
  ASSUME Shape, AbsorbBlock \/ AbsorbLast \/ AbsorbNothing
  PROVE  (Portable!AbsorbBlock \/ Portable!AbsorbLast \/ Portable!AbsorbNothing) /\ Shape'
<1>0. /\ x \in State /\ call.adlen \in Nat /\ absorbed \in Nat
      /\ Rate \in Nat /\ 0 < Rate /\ Portable!Rate = Rate
  BY WAssumption, RateAssumption, PortableNames DEF Shape, IsCall, Rate
<1>1. CASE AbsorbBlock
  <2> DEFINE a == AbsorbRate(x, absorbed)
             b == P_B(a)
  <2>1. a \in State /\ Portable!AbsorbRate(StandardState(x), absorbed) = StandardState(a)
    BY <1>0, PortableAbsorb
  <2>2. x' = b
    BY <1>1 DEF AbsorbBlock
  <2> HIDE DEF a
  <2>3. b \in State /\ Portable!P_B(StandardState(a)) = StandardState(b)
    BY <2>1, PBType, PortablePermute
  <2> HIDE DEF b
  <2>4. StandardState(x)' = Portable!P_B(Portable!AbsorbRate(StandardState(x), absorbed))
    BY <2>1, <2>2, <2>3
  <2>5. Portable!AbsorbBlock
    BY <1>0, <1>1, <2>4 DEF AbsorbBlock, Portable!AbsorbBlock
  <2>6. Shape'
    BY <1>0, <1>1, <2>2, <2>3 DEF AbsorbBlock, Shape
  <2> QED BY <2>5, <2>6
<1>2. CASE AbsorbLast
  <2> DEFINE n == call.adlen - absorbed
             a == AbsorbRest(x, absorbed, n)
             b == P_B(a)
             c == SeparateDomain(b)
  <2>0. n \in Nat /\ n < Rate
    BY <1>0, <1>2 DEF AbsorbLast, Shape
  <2>2. x' = c
    BY <1>2 DEF AbsorbLast
  <2> HIDE DEF n
  <2>1. a \in State /\ Portable!AbsorbRest(StandardState(x), absorbed, n) = StandardState(a)
    BY <1>0, <2>0, PortableAbsorb
  <2> HIDE DEF a
  <2>3. b \in State /\ Portable!P_B(StandardState(a)) = StandardState(b)
    BY <2>1, PBType, PortablePermute
  <2> HIDE DEF b
  <2>4. c \in State /\ Portable!SeparateDomain(StandardState(b)) = StandardState(c)
    BY <2>3, PortableDomain
  <2> HIDE DEF c
  <2>5. StandardState(x)'
          = Portable!SeparateDomain(Portable!P_B(
              Portable!AbsorbRest(StandardState(x), absorbed, n)))
    BY <2>1, <2>2, <2>3, <2>4
  <2>6. Portable!AbsorbLast
    BY <1>0, <1>2, <2>5 DEF AbsorbLast, Portable!AbsorbLast, n
  <2>7. Shape'
    BY <1>0, <1>2, <2>2, <2>4 DEF AbsorbLast, Shape
  <2> QED BY <2>6, <2>7
<1>3. CASE AbsorbNothing
  <2> DEFINE c == SeparateDomain(x)
  <2>1. c \in State /\ Portable!SeparateDomain(StandardState(x)) = StandardState(c)
    BY <1>0, PortableDomain
  <2>2. x' = c
    BY <1>3 DEF AbsorbNothing
  <2> HIDE DEF c
  <2>3. StandardState(x)' = Portable!SeparateDomain(StandardState(x))
    BY <2>1, <2>2
  <2>4. Portable!AbsorbNothing
    BY <1>3, <2>3 DEF AbsorbNothing, Portable!AbsorbNothing
  <2>5. Shape'
    BY <1>3, <2>1, <2>2 DEF AbsorbNothing, Shape
  <2> QED BY <2>4, <2>5
<1> QED BY <1>1, <1>2, <1>3

LEMMA StepBlock ==
  ASSUME Shape, EncryptBlock \/ DecryptBlock
  PROVE  (Portable!EncryptBlock \/ Portable!DecryptBlock) /\ Shape'
<1>0. /\ Here.x \in State /\ call.len \in Nat /\ pos \in Nat
      /\ Rate \in Nat /\ 0 < Rate /\ Portable!Rate = Rate /\ Portable!Here = Portably(Here)
  BY WAssumption, RateAssumption, PortableNames, HereValue DEF Shape, IsCall, Rate
<1> DEFINE e == EncryptRate(Here, pos)
           d == DecryptRate(Here, pos)
<1>1. /\ e.x \in State /\ Portable!EncryptRate(Portably(Here), pos) = Portably(e)
      /\ d.x \in State /\ Portable!DecryptRate(Portably(Here), pos) = Portably(d)
  BY <1>0, PortableRate
<1>2. /\ P_B(e.x) \in State /\ Portable!P_B(StandardState(e.x)) = StandardState(P_B(e.x))
      /\ P_B(d.x) \in State /\ Portable!P_B(StandardState(d.x)) = StandardState(P_B(d.x))
  BY <1>1, PBType, PortablePermute
<1>3. \A s : Portably(s).x = StandardState(s.x) /\ Portably(s).mem = s.mem
  BY DEF Portably
<1>4. CASE EncryptBlock
  <2>1. x' = P_B(e.x) /\ mem' = e.mem
    BY <1>4 DEF EncryptBlock
  <2> HIDE DEF e
  <2>2. /\ StandardState(x)' = Portable!P_B(Portable!EncryptRate(Portable!Here, pos).x)
        /\ mem' = Portable!EncryptRate(Portable!Here, pos).mem
    BY <1>0, <1>1, <1>2, <1>3, <2>1
  <2>3. Portable!EncryptBlock
    BY <1>0, <1>4, <2>2 DEF EncryptBlock, Portable!EncryptBlock
  <2>4. Shape'
    BY <1>0, <1>2, <1>4, <2>1 DEF EncryptBlock, Shape
  <2> QED BY <2>3, <2>4
<1>5. CASE DecryptBlock
  <2>1. x' = P_B(d.x) /\ mem' = d.mem
    BY <1>5 DEF DecryptBlock
  <2> HIDE DEF d
  <2>2. /\ StandardState(x)' = Portable!P_B(Portable!DecryptRate(Portable!Here, pos).x)
        /\ mem' = Portable!DecryptRate(Portable!Here, pos).mem
    BY <1>0, <1>1, <1>2, <1>3, <2>1
  <2>3. Portable!DecryptBlock
    BY <1>0, <1>5, <2>2 DEF DecryptBlock, Portable!DecryptBlock
  <2>4. Shape'
    BY <1>0, <1>2, <1>5, <2>1 DEF DecryptBlock, Shape
  <2> QED BY <2>3, <2>4
<1> QED BY <1>4, <1>5

LEMMA StepLast ==
  ASSUME Shape, EncryptLast \/ DecryptLast
  PROVE  (Portable!EncryptLast \/ Portable!DecryptLast) /\ Shape'
<1> DEFINE n == call.len - pos
           e == EncryptRest(Here, pos, n)
           d == DecryptRest(Here, pos, n)
<1>0. /\ Here.x \in State /\ call.len \in Nat /\ pos \in Nat
      /\ Portable!Rate = Rate /\ Portable!Here = Portably(Here)
  BY PortableNames, HereValue DEF Shape, IsCall
<1>1. n \in Nat /\ n < Rate
  BY <1>0 DEF EncryptLast, DecryptLast, Shape
<1>2. /\ EncryptLast => x' = e.x /\ mem' = e.mem
      /\ DecryptLast => x' = d.x /\ mem' = d.mem
  BY DEF EncryptLast, DecryptLast
<1> HIDE DEF n
<1>3. /\ e.x \in State /\ Portable!EncryptRest(Portably(Here), pos, n) = Portably(e)
      /\ d.x \in State /\ Portable!DecryptRest(Portably(Here), pos, n) = Portably(d)
  BY <1>0, <1>1, PortableRest
<1>4. \A s : Portably(s).x = StandardState(s.x) /\ Portably(s).mem = s.mem
  BY DEF Portably
<1> HIDE DEF e, d
<1>5. CASE EncryptLast
  <2>1. /\ StandardState(x)' = Portable!EncryptRest(Portable!Here, pos, n).x
        /\ mem' = Portable!EncryptRest(Portable!Here, pos, n).mem
    BY <1>0, <1>2, <1>3, <1>4, <1>5
  <2>2. Portable!EncryptLast
    BY <1>0, <1>5, <2>1 DEF EncryptLast, Portable!EncryptLast, n
  <2>3. Shape'
    BY <1>0, <1>2, <1>3, <1>5 DEF EncryptLast, Shape
  <2> QED BY <2>2, <2>3
<1>6. CASE DecryptLast
  <2>1. /\ StandardState(x)' = Portable!DecryptRest(Portable!Here, pos, n).x
        /\ mem' = Portable!DecryptRest(Portable!Here, pos, n).mem
    BY <1>0, <1>2, <1>3, <1>4, <1>6
  <2>2. Portable!DecryptLast
    BY <1>0, <1>6, <2>1 DEF DecryptLast, Portable!DecryptLast, n
  <2>3. Shape'
    BY <1>0, <1>2, <1>3, <1>6 DEF DecryptLast, Shape
  <2> QED BY <2>2, <2>3
<1> QED BY <1>5, <1>6

LEMMA StepTag ==
  ASSUME Shape, EncryptTag \/ DecryptTag
  PROVE  (Portable!EncryptTag \/ Portable!DecryptTag) /\ Shape'
<1>0. x \in State /\ Portable!TagLen = TagLen
  BY PortableNames DEF Shape
<1>1. Finalize(x) \in State /\ Portable!Finalize(StandardState(x)) = StandardState(Finalize(x))
  BY <1>0, PortableFinalize
<1>2. x' = Finalize(x)
  BY DEF EncryptTag, DecryptTag
<1>3. x' \in State /\ StandardState(x)' = Portable!Finalize(StandardState(x))
  BY <1>1, <1>2
<1>4. \A m, p : Portable!StoreTag(m, p, StandardState(x')) = StoreTag(m, p, x')
  BY <1>3, PortableTag
<1>5. \A m, p, t : Portable!TagVerdict(m, p, t) = TagVerdict(m, p, t)
  BY <1>0, PortableTag
<1>6. CASE EncryptTag
  <2>1. mem' = Portable!StoreTag(mem, call.tag, StandardState(x'))
    BY <1>4, <1>6 DEF EncryptTag
  <2>2. Portable!EncryptTag
    BY <1>3, <1>6, <2>1 DEF EncryptTag, Portable!EncryptTag
  <2>3. Shape'
    BY <1>3, <1>6 DEF EncryptTag, Shape
  <2> QED BY <2>2, <2>3
<1>7. CASE DecryptTag
  <2> DEFINE z == [i \in 0..(TagLen - 1) |-> {}]
             t == StoreTag(z, 0, x')
  <2>1. ret' = TagVerdict(mem, call.tag, t)
    BY <1>7 DEF DecryptTag
  <2>2. Portable!StoreTag([i \in 0..(Portable!TagLen - 1) |-> {}], 0, StandardState(x')) = t
    BY <1>0, <1>4
  <2> HIDE DEF t
  <2>3. ret' = Portable!TagVerdict(mem, call.tag,
                 Portable!StoreTag([i \in 0..(Portable!TagLen - 1) |-> {}], 0,
                                   StandardState(x')))
    BY <1>5, <2>1, <2>2
  <2>4. Portable!DecryptTag
    BY <1>3, <1>7, <2>3 DEF DecryptTag, Portable!DecryptTag
  <2>5. Shape'
    BY <1>3, <1>7 DEF DecryptTag, Shape
  <2> QED BY <2>4, <2>5
<1> QED BY <1>6, <1>7

LEMMA StepCall ==
  ASSUME Shape, CallStep
  PROVE  Portable!CallStep /\ Shape'
  BY StepInitialise, StepAbsorb, StepBlock, StepLast, StepTag
     DEF CallStep, Portable!CallStep

LEMMA StepSession ==
  ASSUME Shape, [SessionNext]_sessionVars
  PROVE  [Portable!SessionNext]_Portable!sessionVars /\ Shape'
<1>1. CASE Work
  <2>1. CallStep
    BY <1>1 DEF Work
  <2>2. Portable!CallStep /\ Shape'
    BY <2>1, StepCall
  <2>3. Portable!Transaction(call, entryMem, mem', ret') = Transaction(call, entryMem, mem', ret')
    BY PortableTransaction
  <2>4. Portable!Work
    BY <1>1, <2>2, <2>3 DEF Work, Portable!Work
  <2> QED BY <2>2, <2>4 DEF Portable!SessionNext
<1>2. CASE EnterNext
  <2>1. PICK e \in log : \E n \in NextEntries(mem, e) : EnterCall(n.call, n.mem)
    BY <1>2 DEF EnterNext
  <2>2. PICK n \in NextEntries(mem, e) : EnterCall(n.call, n.mem)
    BY <2>1
  <2>3. n \in Portable!NextEntries(mem, e)
    BY <2>2, PortableEntries
  <2>4. Portable!EnterCall(n.call, n.mem)
    BY <2>2 DEF EnterCall, Portable!EnterCall
  <2>5. Portable!EnterNext
    BY <1>2, <2>1, <2>3, <2>4 DEF EnterNext, Portable!EnterNext
  <2>6. IsCall(n.call)
    BY <2>2 DEF NextEntries, Fitting
  <2>7. Shape'
    BY <2>2, <2>6 DEF EnterCall, Shape, IsCall
  <2> QED BY <2>5, <2>7 DEF Portable!SessionNext
<1>3. CASE Finished \/ UNCHANGED sessionVars
  <2>1. UNCHANGED sessionVars
    BY <1>3 DEF Finished
  <2>2. UNCHANGED Portable!sessionVars
    BY <2>1 DEF sessionVars, vars, Portable!sessionVars, Portable!vars
  <2>3. Shape'
    BY <2>1 DEF sessionVars, vars, Shape
  <2> QED BY <2>2, <2>3
<1> QED BY <1>1, <1>2, <1>3 DEF SessionNext

LEMMA FirstState == SessionInit => Portable!SessionInit /\ Shape
<1> SUFFICES ASSUME SessionInit PROVE Portable!SessionInit /\ Shape
  OBVIOUS
<1>1. {} \in Word /\ Standard({}) = {}
  BY StandardBits DEF Word
<1>2. x = [i \in 0..4 |-> {}] /\ x \in State
  BY <1>1 DEF SessionInit, State
<1>3. StandardState(x) = [i \in 0..4 |-> {}]
  BY <1>1, <1>2 DEF StandardState
<1>4. PICK n \in FirstEntries : call = n.call /\ mem = n.mem
  BY DEF SessionInit
<1>5. IsCall(call)
  BY <1>4 DEF FirstEntries, Fitting
<1>6. \E k \in Portable!FirstEntries : call = k.call /\ mem = k.mem
  BY <1>4, PortableEntries
<1>7. Portable!SessionInit
  BY <1>3, <1>6 DEF SessionInit, Portable!SessionInit
<1>8. Shape
  BY <1>2, <1>5 DEF SessionInit, Shape, IsCall
<1> QED BY <1>7, <1>8

(* In every build, with words of every size, at both rates, for all inputs, *)
(* layouts and numbers of calls, each step of ascon_encrypt and             *)
(* ascon_decrypt is a step of the portable code on the words that the state *)
(* represents, with the same memory, lengths and return value.              *)
THEOREM BuildsImplementPortable == SessionSpec => SameAsPortable
<1>1. SessionInit => Portable!SessionInit /\ Shape
  BY FirstState
<1>2. Shape /\ [SessionNext]_sessionVars
        => [Portable!SessionNext]_Portable!sessionVars /\ Shape'
  BY StepSession
<1> QED BY <1>1, <1>2, PTL DEF SessionSpec, SameAsPortable

==============================================================================
