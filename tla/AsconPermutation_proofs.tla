----------------------- MODULE AsconPermutation_proofs -----------------------
(***************************************************************************)
(* Facts about the word operators and the permutation, for every build and *)
(* words of every size.                                                    *)
(***************************************************************************)
EXTENDS AsconPermutation, TLAPS

(* Exclusive or stays within the words, and cancels. *)
LEMMA XorType == \A a, b \in Word : XOR(a, b) \in Word
  BY DEF XOR, Word

LEMMA XorCancel == \A a, b : XOR(XOR(a, b), b) = a
  BY DEF XOR

LEMMA XorLaws ==
  \A a, b, c : XOR(a, b) = XOR(b, a) /\ XOR(a, XOR(b, c)) = XOR(XOR(a, b), c)
  BY DEF XOR

(* A word is two halves. *)
LEMMA PairType ==
  \A hi, lo \in Half : /\ Pair(hi, lo) \in Word
                       /\ Lo(Pair(hi, lo)) = lo /\ Hi(Pair(hi, lo)) = hi
<1> TAKE hi, lo \in Half
<1>1. \A i \in HalfBits : i \in Bits /\ i + 4 * W \in Bits /\ i + 4 * W \notin HalfBits
  BY WAssumption DEF HalfBits, Bits
<1>2. Pair(hi, lo) \in Word
  BY <1>1 DEF Pair, Half, Word
<1>3. Lo(Pair(hi, lo)) = lo
  BY <1>1 DEF Pair, Half, Lo
<1>4. \A i, j \in HalfBits : i + 4 * W = j + 4 * W => i = j
  BY WAssumption DEF HalfBits
<1>5. Hi(Pair(hi, lo)) = hi
  BY <1>1, <1>4 DEF Pair, Half, Hi
<1> QED BY <1>2, <1>3, <1>5

LEMMA HalvesType == \A x : Lo(x) \in Half /\ Hi(x) \in Half
  BY DEF Lo, Hi, Half

(* Loads, clearing and padding yield words. *)
LEMMA InboundType == \A x \in Word : inbound_word(x) \in Word
<1> TAKE x \in Word
<1>1. U64BIG[x] \in Word
  BY DEF U64BIG, Word
<1>2. \A a, b, c, d : Pair(pack(a, b), pack(c, d)) \in Word
  BY PairType DEF pack, Half
<1>3. zbkb_deinterleave32(x) \in Word /\ generic_deinterleave32(x) \in Word
  BY <1>2 DEF zbkb_deinterleave32, generic_deinterleave32
<1> QED BY <1>1, <1>3, ArchAssumption DEF inbound_word, BI32

LEMMA LoadType == \A bytes, p, n : LOAD_N(bytes, p, n) \in Word
<1> TAKE bytes, p, n
<1> DEFINE x == {i \in Bits : i \div 8 < n /\ (i % 8) \in bytes[p + (i \div 8)]}
<1>1. x \in Word
  BY DEF Word
<1> HIDE DEF x
<1>2. inbound_word(x) \in Word
  BY <1>1, InboundType
<1> QED BY <1>2 DEF LOAD_N, x

LEMMA ClearType == \A n : \A a \in Word : CLEAR_N(a, n) \in Word
  BY DEF CLEAR_N, Word

LEMMA PadType == \A n \in 0..(W - 1) : PAD(n) \in Word
  BY WAssumption DEF PAD, Word, Bits

(* A store yields bytes, keeps the array's domain, and leaves what lies     *)
(* outside the n bytes at p alone.                                          *)
LEMMA StoreType ==
  ASSUME NEW D, NEW m \in [D -> Byte], NEW p, NEW w, NEW n
  PROVE  STORE_N(m, p, w, n) \in [D -> Byte]
  BY DEF STORE_N, OutByte, Byte

LEMMA StoreFrame ==
  ASSUME NEW D, NEW m \in [D -> Byte], NEW p, NEW w, NEW n,
         NEW a \in D, a \notin p..(p + n - 1)
  PROVE  STORE_N(m, p, w, n)[a] = m[a]
  BY DEF STORE_N

------------------------------------------------------------------------------
(* Rotation: which bits it sets, and that it is linear and composes.        *)

LEMMA RorMember ==
  ASSUME NEW a \in Word, NEW n \in Nat
  PROVE  /\ ROR(a, n) \in Word
         /\ \A k \in Bits : k \in ROR(a, n) <=> (k + n) % (8 * W) \in a
<1>1. \A i \in Bits : (i - n) % (8 * W) \in Bits /\ (((i - n) % (8 * W)) + n) % (8 * W) = i
  BY WAssumption DEF Bits
<1>2. \A k \in Bits : (k + n) % (8 * W) \in Bits /\ (((k + n) % (8 * W)) - n) % (8 * W) = k
  BY WAssumption DEF Bits
<1>3. ROR(a, n) \in Word
  BY <1>1 DEF ROR, Word
<1>4. ASSUME NEW k \in Bits PROVE k \in ROR(a, n) <=> (k + n) % (8 * W) \in a
  <2>1. ASSUME k \in ROR(a, n) PROVE (k + n) % (8 * W) \in a
    <3>1. PICK i \in a : k = (i - n) % (8 * W)
      BY <2>1 DEF ROR
    <3> QED BY <3>1, <1>1 DEF Word
  <2>2. ASSUME (k + n) % (8 * W) \in a PROVE k \in ROR(a, n)
    BY <2>2, <1>2 DEF ROR
  <2> QED BY <2>1, <2>2
<1> QED BY <1>3, <1>4

LEMMA HRorMember ==
  ASSUME NEW a \in Half, NEW n \in Nat
  PROVE  /\ HROR(a, n) \in Half
         /\ \A k \in HalfBits : k \in HROR(a, n) <=> (k + n) % (4 * W) \in a
<1>1. \A i \in HalfBits :
        (i - n) % (4 * W) \in HalfBits /\ (((i - n) % (4 * W)) + n) % (4 * W) = i
  BY WAssumption DEF HalfBits
<1>2. \A k \in HalfBits :
        (k + n) % (4 * W) \in HalfBits /\ (((k + n) % (4 * W)) - n) % (4 * W) = k
  BY WAssumption DEF HalfBits
<1>3. HROR(a, n) \in Half
  BY <1>1 DEF HROR, Half
<1>4. ASSUME NEW k \in HalfBits PROVE k \in HROR(a, n) <=> (k + n) % (4 * W) \in a
  <2>1. ASSUME k \in HROR(a, n) PROVE (k + n) % (4 * W) \in a
    <3>1. PICK i \in a : k = (i - n) % (4 * W)
      BY <2>1 DEF HROR
    <3> QED BY <3>1, <1>1 DEF Half
  <2>2. ASSUME (k + n) % (4 * W) \in a PROVE k \in HROR(a, n)
    BY <2>2, <1>2 DEF HROR
  <2> QED BY <2>1, <2>2
<1> QED BY <1>3, <1>4

LEMMA RorXor ==
  ASSUME NEW a \in Word, NEW b \in Word, NEW n \in Nat
  PROVE  ROR(XOR(a, b), n) = XOR(ROR(a, n), ROR(b, n))
<1>1. XOR(a, b) \in Word
  BY XorType
<1>2. ROR(XOR(a, b), n) \in Word /\ XOR(ROR(a, n), ROR(b, n)) \in Word
  BY <1>1, RorMember, XorType
<1>3. \A k \in Bits : k \in ROR(XOR(a, b), n) <=> k \in XOR(ROR(a, n), ROR(b, n))
  BY <1>1, RorMember DEF XOR
<1> QED BY <1>2, <1>3 DEF Word

LEMMA RorCompose ==
  ASSUME NEW a \in Word, NEW m \in Nat, NEW n \in Nat
  PROVE  ROR(ROR(a, m), n) = ROR(a, m + n)
<1>1. ROR(a, m) \in Word /\ ROR(ROR(a, m), n) \in Word /\ ROR(a, m + n) \in Word
  BY RorMember
<1>2. \A k \in Bits : /\ (k + n) % (8 * W) \in Bits
                      /\ (((k + n) % (8 * W)) + m) % (8 * W) = (k + (m + n)) % (8 * W)
  BY WAssumption DEF Bits
<1>3. \A k \in Bits : k \in ROR(ROR(a, m), n) <=> k \in ROR(a, m + n)
  BY <1>1, <1>2, RorMember
<1> QED BY <1>1, <1>3 DEF Word

------------------------------------------------------------------------------
(* The S-box: the instructions compute the portable substitution layer, in  *)
(* other registers and without its affine layers.                           *)

LEMMA SBoxType ==
  ASSUME NEW R, NEW x0 \in SUBSET R, NEW x1 \in SUBSET R, NEW x2 \in SUBSET R,
         NEW x3 \in SUBSET R, NEW x4 \in SUBSET R
  PROVE  /\ RV_S_BOX(R, x0, x1, x2, x3, x4) \in Registers(SUBSET R)
         /\ \A n \in {"t0", "t1", "t2", "t3", "t4"} :
              GenericSBox(R, x0, x1, x2, x3, x4)[n] \in SUBSET R
<1> DEFINE t0  == XOR(x1, x2)
           t1  == XOR(x0, x4)
           t2  == XOR(x3, x4)
           r4  == XOR(ORN(R, x3, x4), t0)
           r3  == XOR(OR(XOR(x3, x1), t0), t1)
           r2  == XOR(OR(XOR(x2, t1), x1), t2)
           r1  == XOR(ANDN(R, x1, t1), t2)
           r0  == OR(x0, t2)
           out == XOR(r0, t0)
<1>1. /\ r0 \in SUBSET R /\ r1 \in SUBSET R /\ r2 \in SUBSET R
      /\ r3 \in SUBSET R /\ r4 \in SUBSET R /\ out \in SUBSET R
  BY DEF XOR, OR, ORN, AND, ANDN, NOT
<1> DEFINE f == [n \in RegNames |-> CASE n = "x0" -> r0 [] n = "x1" -> r1
                                      [] n = "x2" -> r2 [] n = "x3" -> r3
                                      [] n = "x4" -> r4 [] n = "x3_tmp" -> out]
<1>2. RV_S_BOX(R, x0, x1, x2, x3, x4) = f
  BY Zenon DEF RV_S_BOX
<1> HIDE DEF r0, r1, r2, r3, r4, out
<1>3. f \in Registers(SUBSET R)
  BY <1>1 DEF Registers, RegNames
<1>4. ASSUME NEW n \in {"t0", "t1", "t2", "t3", "t4"}
      PROVE  GenericSBox(R, x0, x1, x2, x3, x4)[n] \in SUBSET R
  BY DEF GenericSBox, XOR, AND, NOT
<1> QED BY <1>2, <1>3, <1>4

(* The registers that RV_S_BOX leaves its five outputs in. *)
Outputs(r, t) == /\ r["x2"] = t.t0 /\ r["x3"] = t.t1 /\ r["x4"] = t.t2
                 /\ r["x3_tmp"] = t.t3 /\ r["x1"] = t.t4

LEMMA SBoxAgrees ==
  ASSUME NEW R, NEW x0 \in SUBSET R, NEW x1 \in SUBSET R, NEW x2 \in SUBSET R,
         NEW x3 \in SUBSET R, NEW x4 \in SUBSET R
  PROVE  Outputs(RV_S_BOX(R, x0, x1, x2, x3, x4), GenericSBox(R, x0, x1, x2, x3, x4))
<1> DEFINE r == RV_S_BOX(R, x0, x1, x2, x3, x4)
           t == GenericSBox(R, x0, x1, x2, x3, x4)
<1>1. r["x2"] = XOR(OR(XOR(x2, XOR(x0, x4)), x1), XOR(x3, x4))
  BY Zenon DEF RV_S_BOX, RegNames
<1>2. r["x3"] = XOR(OR(XOR(x3, x1), XOR(x1, x2)), XOR(x0, x4))
  BY Zenon DEF RV_S_BOX, RegNames
<1>3. r["x4"] = XOR(ORN(R, x3, x4), XOR(x1, x2))
  BY Zenon DEF RV_S_BOX, RegNames
<1>4. r["x3_tmp"] = XOR(OR(x0, XOR(x3, x4)), XOR(x1, x2))
  BY Zenon DEF RV_S_BOX, RegNames
<1>5. r["x1"] = XOR(ANDN(R, x1, XOR(x0, x4)), XOR(x3, x4))
  BY Zenon DEF RV_S_BOX, RegNames
<1> HIDE DEF r
<1>6. r["x2"] = t.t0
  BY <1>1 DEF GenericSBox, XOR, OR, AND, NOT
<1>7. r["x3"] = t.t1
  BY <1>2 DEF GenericSBox, XOR, OR, AND, NOT
<1>8. r["x4"] = t.t2
  BY <1>3 DEF GenericSBox, XOR, OR, AND, NOT, ORN
<1>9. r["x3_tmp"] = t.t3
  BY <1>4 DEF GenericSBox, XOR, OR, AND, NOT
<1>10. r["x1"] = t.t4
  BY <1>5 DEF GenericSBox, XOR, AND, NOT, ANDN
<1> QED BY <1>6, <1>7, <1>8, <1>9, <1>10 DEF r, Outputs

------------------------------------------------------------------------------
(* The linear layer: five moves, each reading a register not yet replaced.  *)

LEMMA IntoValue ==
  ASSUME NEW V, NEW dst \in RegNames, NEW src \in RegNames, NEW f \in [V -> V],
         NEW r \in Registers(V)
  PROVE  /\ Into(V, dst, src, f)[r] \in Registers(V)
         /\ Into(V, dst, src, f)[r][dst] = f[r[src]]
         /\ \A n \in RegNames \ {dst} : Into(V, dst, src, f)[r][n] = r[n]
<1>1. Into(V, dst, src, f)[r] = [r EXCEPT ![dst] = f[r[src]]]
  BY DEF Into
<1>2. f[r[src]] \in V
  BY DEF Registers
<1> QED BY <1>1, <1>2 DEF Registers

Layer(V, f0, f1, f2, f3, f4, r) ==
  Into(V, "x3", "x3_tmp", f3)[
    Into(V, "x1", "x3", f1)[
      Into(V, "x4", "x1", f4)[
        Into(V, "x2", "x4", f2)[
          Into(V, "x0", "x2", f0)[r]]]]]

(* All five as if at once. *)
Moved(f0, f1, f2, f3, f4, r, q) ==
  /\ q["x0"] = f0[r["x2"]] /\ q["x1"] = f1[r["x3"]] /\ q["x2"] = f2[r["x4"]]
  /\ q["x3"] = f3[r["x3_tmp"]] /\ q["x4"] = f4[r["x1"]]

LEMMA LayerValue ==
  ASSUME NEW V, NEW f0 \in [V -> V], NEW f1 \in [V -> V], NEW f2 \in [V -> V],
         NEW f3 \in [V -> V], NEW f4 \in [V -> V], NEW r \in Registers(V)
  PROVE  /\ Layer(V, f0, f1, f2, f3, f4, r) \in Registers(V)
         /\ Moved(f0, f1, f2, f3, f4, r, Layer(V, f0, f1, f2, f3, f4, r))
<1>0. \A n \in {"x0", "x1", "x2", "x3", "x4", "x3_tmp"} : n \in RegNames
  BY DEF RegNames
<1> DEFINE a == Into(V, "x0", "x2", f0)[r]
<1>1. /\ a \in Registers(V) /\ a["x0"] = f0[r["x2"]]
      /\ \A n \in RegNames \ {"x0"} : a[n] = r[n]
  BY <1>0, IntoValue
<1> HIDE DEF a
<1> DEFINE b == Into(V, "x2", "x4", f2)[a]
<1>2. /\ b \in Registers(V) /\ b["x2"] = f2[a["x4"]]
      /\ \A n \in RegNames \ {"x2"} : b[n] = a[n]
  BY <1>0, <1>1, IntoValue
<1> HIDE DEF b
<1> DEFINE c == Into(V, "x4", "x1", f4)[b]
<1>3. /\ c \in Registers(V) /\ c["x4"] = f4[b["x1"]]
      /\ \A n \in RegNames \ {"x4"} : c[n] = b[n]
  BY <1>0, <1>2, IntoValue
<1> HIDE DEF c
<1> DEFINE d == Into(V, "x1", "x3", f1)[c]
<1>4. /\ d \in Registers(V) /\ d["x1"] = f1[c["x3"]]
      /\ \A n \in RegNames \ {"x1"} : d[n] = c[n]
  BY <1>0, <1>3, IntoValue
<1> HIDE DEF d
<1> DEFINE q == Into(V, "x3", "x3_tmp", f3)[d]
<1>5. /\ q \in Registers(V) /\ q["x3"] = f3[d["x3_tmp"]]
      /\ \A n \in RegNames \ {"x3"} : q[n] = d[n]
  BY <1>0, <1>4, IntoValue
<1>6. q = Layer(V, f0, f1, f2, f3, f4, r)
  BY DEF Layer, a, b, c, d
<1> HIDE DEF q
<1>7. Moved(f0, f1, f2, f3, f4, r, q)
  BY <1>1, <1>2, <1>3, <1>4, <1>5 DEF RegNames, Moved
<1> QED BY <1>5, <1>6, <1>7

------------------------------------------------------------------------------
(* The round of the 64-bit builds.                                          *)

(* The five words after the linear layer, from the outputs of the S-box.    *)
Diffused(t, q) ==
  /\ q[0] = XOR(t.t0, XOR(ROR(t.t0, 19), ROR(t.t0, 28)))
  /\ q[1] = XOR(t.t1, XOR(ROR(t.t1, 39), ROR(t.t1, 61)))
  /\ q[2] = XOR(t.t2, XOR(ROR(t.t2, 1), ROR(t.t2, 6)))
  /\ q[3] = XOR(t.t3, XOR(ROR(t.t3, 10), ROR(t.t3, 17)))
  /\ q[4] = XOR(t.t4, XOR(ROR(t.t4, 7), ROR(t.t4, 41)))

LEMMA RoundValue ==
  ASSUME NEW s \in State, NEW C \in Word
  PROVE  /\ ROUND(s, C) \in State
         /\ Diffused(GenericSBox(Bits, s[0], s[1], XOR(s[2], C), s[3], s[4]), ROUND(s, C))
<1> DEFINE x2 == XOR(s[2], C)
           t == GenericSBox(Bits, s[0], s[1], x2, s[3], s[4])
           r == RV_S_BOX(Bits, s[0], s[1], x2, s[3], s[4])
<1>1. /\ s[0] \in SUBSET Bits /\ s[1] \in SUBSET Bits /\ x2 \in SUBSET Bits
      /\ s[3] \in SUBSET Bits /\ s[4] \in SUBSET Bits
  BY DEF State, Word, XOR
<1> DEFINE a0 == s[0]
           a1 == s[1]
           a3 == s[3]
           a4 == s[4]
<1> HIDE DEF x2, a0, a1, a3, a4
<1>2. /\ RV_S_BOX(Bits, a0, a1, x2, a3, a4) \in Registers(SUBSET Bits)
      /\ Outputs(RV_S_BOX(Bits, a0, a1, x2, a3, a4), GenericSBox(Bits, a0, a1, x2, a3, a4))
  <2>1. /\ a0 \in SUBSET Bits /\ a1 \in SUBSET Bits /\ x2 \in SUBSET Bits
        /\ a3 \in SUBSET Bits /\ a4 \in SUBSET Bits
    BY <1>1 DEF a0, a1, a3, a4
  <2>2. RV_S_BOX(Bits, a0, a1, x2, a3, a4) \in Registers(SUBSET Bits)
    BY <2>1, SBoxType, Zenon
  <2>3. Outputs(RV_S_BOX(Bits, a0, a1, x2, a3, a4), GenericSBox(Bits, a0, a1, x2, a3, a4))
    BY <2>1, SBoxAgrees, Zenon
  <2> QED BY <2>2, <2>3
<1>3. r \in Registers(Word) /\ Outputs(r, t)
  BY <1>2 DEF a0, a1, a3, a4, Word
<1> HIDE DEF r, t
<1>4. \A i, j \in Nat : RV_LINEAR(i, j) \in [Word -> Word]
  BY RorMember, XorType DEF RV_LINEAR
<1> DEFINE f0 == RV_LINEAR(19, 28)
           f1 == RV_LINEAR(39, 61)
           f2 == RV_LINEAR(1, 6)
           f3 == RV_LINEAR(10, 17)
           f4 == RV_LINEAR(7, 41)
           q  == LinearLayer[r]
<1>4a. /\ f0 \in [Word -> Word] /\ f1 \in [Word -> Word] /\ f2 \in [Word -> Word]
       /\ f3 \in [Word -> Word] /\ f4 \in [Word -> Word]
  BY <1>4
<1>4b. q = Layer(Word, f0, f1, f2, f3, f4, r)
  BY <1>3 DEF LinearLayer, Layer
<1> HIDE DEF f0, f1, f2, f3, f4, q
<1>5. q \in Registers(Word) /\ Moved(f0, f1, f2, f3, f4, r, q)
  <2>1. /\ Layer(Word, f0, f1, f2, f3, f4, r) \in Registers(Word)
        /\ Moved(f0, f1, f2, f3, f4, r, Layer(Word, f0, f1, f2, f3, f4, r))
    BY <1>3, <1>4a, LayerValue, Zenon
  <2> QED BY <1>4b, <2>1, Zenon
<1>6. /\ q["x0"] = XOR(t.t0, XOR(ROR(t.t0, 19), ROR(t.t0, 28)))
      /\ q["x1"] = XOR(t.t1, XOR(ROR(t.t1, 39), ROR(t.t1, 61)))
      /\ q["x2"] = XOR(t.t2, XOR(ROR(t.t2, 1), ROR(t.t2, 6)))
      /\ q["x3"] = XOR(t.t3, XOR(ROR(t.t3, 10), ROR(t.t3, 17)))
      /\ q["x4"] = XOR(t.t4, XOR(ROR(t.t4, 7), ROR(t.t4, 41)))
  BY <1>3, <1>5 DEF Outputs, Moved, RV_LINEAR, Registers, RegNames, f0, f1, f2, f3, f4
<1>7. ROUND(s, C) = StateOf[q]
  BY DEF ROUND, q, r, x2
<1>8. /\ StateOf[q][0] = q["x0"] /\ StateOf[q][1] = q["x1"] /\ StateOf[q][2] = q["x2"]
      /\ StateOf[q][3] = q["x3"] /\ StateOf[q][4] = q["x4"]
      /\ DOMAIN StateOf[q] = 0..4 /\ StateOf[q] = [i \in 0..4 |-> StateOf[q][i]]
  <2> DEFINE n(i) == CASE i = 0 -> "x0" [] i = 1 -> "x1" [] i = 2 -> "x2"
                       [] i = 3 -> "x3" [] i = 4 -> "x4"
             f == [i \in 0..4 |-> q[n(i)]]
  <2>1. StateOf[q] = f
    BY <1>5, Zenon DEF StateOf
  <2>2. 0 \in 0..4 /\ 1 \in 0..4 /\ 2 \in 0..4 /\ 3 \in 0..4 /\ 4 \in 0..4
    OBVIOUS
  <2>3. 1 # 0 /\ 2 # 0 /\ 3 # 0 /\ 4 # 0 /\ 2 # 1 /\ 3 # 1 /\ 4 # 1 /\ 3 # 2
        /\ 4 # 2 /\ 4 # 3
    OBVIOUS
  <2>4. n(0) = "x0" /\ n(1) = "x1" /\ n(2) = "x2" /\ n(3) = "x3" /\ n(4) = "x4"
    BY <2>3, Zenon
  <2> HIDE DEF n
  <2>5. /\ f[0] = q["x0"] /\ f[1] = q["x1"] /\ f[2] = q["x2"]
        /\ f[3] = q["x3"] /\ f[4] = q["x4"]
    BY <2>4
  <2>6. DOMAIN f = 0..4 /\ f = [i \in 0..4 |-> f[i]]
    OBVIOUS
  <2> HIDE DEF f
  <2> QED BY <2>1, <2>5, <2>6
<1>9. StateOf[q] \in State
  <2>1. \A i \in 0..4 : StateOf[q][i] \in Word
    BY <1>5, <1>8 DEF Registers, RegNames
  <2> QED BY <1>8, <2>1 DEF State
<1>10. Diffused(t, ROUND(s, C))
  BY <1>6, <1>7, <1>8 DEF Diffused
<1> QED BY <1>7, <1>9, <1>10 DEF t, x2

LEMMA StateEqual ==
  ASSUME NEW p \in State, NEW q \in State, NEW t, Diffused(t, p), Diffused(t, q)
  PROVE  p = q
<1>1. \A i \in 0..4 : i = 0 \/ i = 1 \/ i = 2 \/ i = 3 \/ i = 4
  OBVIOUS
<1>2. \A i \in 0..4 : p[i] = q[i]
  BY <1>1 DEF Diffused
<1> QED BY <1>2 DEF State

LEMMA GenericValue ==
  ASSUME NEW s \in State, NEW C \in Word
  PROVE  /\ GenericROUND(s, C) \in State
         /\ Diffused(GenericSBox(Bits, s[0], s[1], XOR(s[2], C), s[3], s[4]),
                     GenericROUND(s, C))
<1> DEFINE t == GenericSBox(Bits, s[0], s[1], XOR(s[2], C), s[3], s[4])
           v(i) == CASE i = 0 -> XOR(XOR(t.t0, ROR(t.t0, 19)), ROR(t.t0, 28))
                     [] i = 1 -> XOR(XOR(t.t1, ROR(t.t1, 61)), ROR(t.t1, 39))
                     [] i = 2 -> XOR(XOR(t.t2, ROR(t.t2, 1)), ROR(t.t2, 6))
                     [] i = 3 -> XOR(XOR(t.t3, ROR(t.t3, 10)), ROR(t.t3, 17))
                     [] i = 4 -> XOR(XOR(t.t4, ROR(t.t4, 7)), ROR(t.t4, 41))
<1>1. t.t0 \in Word /\ t.t1 \in Word /\ t.t2 \in Word /\ t.t3 \in Word /\ t.t4 \in Word
  BY SMTT(20) DEF GenericSBox, XOR, AND, NOT, State, Word
<1>a. t \in [{"t0", "t1", "t2", "t3", "t4"} -> Word]
  BY <1>1 DEF GenericSBox
<1>b. GenericROUND(s, C) = GenericLinear[t]
  BY Zenon DEF GenericROUND
<1> HIDE DEF t
<1>2. GenericROUND(s, C) = [i \in 0..4 |-> v(i)]
  BY <1>a, <1>b, Zenon DEF GenericLinear
<1>3. 1 # 0 /\ 2 # 0 /\ 3 # 0 /\ 4 # 0 /\ 2 # 1 /\ 3 # 1 /\ 4 # 1 /\ 3 # 2
      /\ 4 # 2 /\ 4 # 3
  OBVIOUS
<1>4. /\ v(0) = XOR(XOR(t.t0, ROR(t.t0, 19)), ROR(t.t0, 28))
      /\ v(1) = XOR(XOR(t.t1, ROR(t.t1, 61)), ROR(t.t1, 39))
      /\ v(2) = XOR(XOR(t.t2, ROR(t.t2, 1)), ROR(t.t2, 6))
      /\ v(3) = XOR(XOR(t.t3, ROR(t.t3, 10)), ROR(t.t3, 17))
      /\ v(4) = XOR(XOR(t.t4, ROR(t.t4, 7)), ROR(t.t4, 41))
  BY <1>3, Zenon
<1> HIDE DEF v
<1>5. \A a, b, c : XOR(XOR(a, b), c) = XOR(a, XOR(b, c)) /\ XOR(XOR(a, b), c) = XOR(a, XOR(c, b))
  BY DEF XOR
<1>6. \A i \in 0..4 : v(i) \in Word
  <2>1. \A i \in 0..4 : i = 0 \/ i = 1 \/ i = 2 \/ i = 3 \/ i = 4
    OBVIOUS
  <2>2. \A w \in Word : \A n \in Nat : ROR(w, n) \in Word
    BY RorMember
  <2>3. \A w \in Word : \A m, n \in Nat : XOR(XOR(w, ROR(w, m)), ROR(w, n)) \in Word
    BY <2>2, XorType
  <2>4. v(0) \in Word /\ v(1) \in Word /\ v(2) \in Word /\ v(3) \in Word /\ v(4) \in Word
    BY <1>1, <1>4, <2>3
  <2> QED BY <2>1, <2>4
<1>7. GenericROUND(s, C) \in State
  BY <1>2, <1>6 DEF State
<1>8. Diffused(t, GenericROUND(s, C))
  BY <1>2, <1>4, <1>5 DEF Diffused
<1> QED BY <1>7, <1>8 DEF t

(* The round of RISC-V instructions on 64-bit registers (permutation.c,     *)
(* s_box.h, linear_layer.h) equals the portable one, for every state and    *)
(* round constant.                                                          *)
THEOREM RoundsAgree ==
  ASSUME NEW s \in State, NEW C \in Word
  PROVE  ROUND(s, C) = GenericROUND(s, C)
<1> DEFINE t == GenericSBox(Bits, s[0], s[1], XOR(s[2], C), s[3], s[4])
<1> HIDE DEF t
<1>1. ROUND(s, C) \in State /\ Diffused(t, ROUND(s, C))
  BY RoundValue, Zenon DEF t
<1>2. GenericROUND(s, C) \in State /\ Diffused(t, GenericROUND(s, C))
  BY GenericValue, Zenon DEF t
<1> QED BY <1>1, <1>2, StateEqual, Zenon

------------------------------------------------------------------------------
(* The 32-bit builds.  Merging two halves is a homomorphism of the bitwise  *)
(* instructions, and of rotation as RV_ROR64 does it.                       *)

LEMMA MergeOps ==
  /\ \A a, b : Merge(a, b) \in Word
  /\ \A a, b, c, d : Merge(XOR(a, b), XOR(c, d)) = XOR(Merge(a, c), Merge(b, d))
  /\ \A a, b, c, d : Merge(AND(a, b), AND(c, d)) = AND(Merge(a, c), Merge(b, d))
  /\ \A a, b : Merge(NOT(HalfBits, a), NOT(HalfBits, b)) = NOT(Bits, Merge(a, b))
<1>1. \A a, b : Merge(a, b) \in Word
  BY DEF Merge, Word
<1>2. \A a, b, c, d : Merge(XOR(a, b), XOR(c, d)) = XOR(Merge(a, c), Merge(b, d))
  BY DEF Merge, XOR
<1>3. \A a, b, c, d : Merge(AND(a, b), AND(c, d)) = AND(Merge(a, c), Merge(b, d))
  BY DEF Merge, AND
<1>4. \A i \in Bits : i \div 2 \in HalfBits
  BY WAssumption DEF Bits, HalfBits
<1>5. \A a, b : Merge(NOT(HalfBits, a), NOT(HalfBits, b)) = NOT(Bits, Merge(a, b))
  BY <1>4 DEF Merge, NOT
<1> QED BY <1>1, <1>2, <1>3, <1>5

Merged(l, h, t) ==
  /\ Merge(l.t0, h.t0) = t.t0 /\ Merge(l.t1, h.t1) = t.t1 /\ Merge(l.t2, h.t2) = t.t2
  /\ Merge(l.t3, h.t3) = t.t3 /\ Merge(l.t4, h.t4) = t.t4

LEMMA MergeSBox ==
  ASSUME NEW a0, NEW a1, NEW a2, NEW a3, NEW a4, NEW b0, NEW b1, NEW b2, NEW b3, NEW b4
  PROVE  Merged(GenericSBox(HalfBits, a0, a1, a2, a3, a4),
                GenericSBox(HalfBits, b0, b1, b2, b3, b4),
                GenericSBox(Bits, Merge(a0, b0), Merge(a1, b1), Merge(a2, b2),
                            Merge(a3, b3), Merge(a4, b4)))
<1> DEFINE l == GenericSBox(HalfBits, a0, a1, a2, a3, a4)
           h == GenericSBox(HalfBits, b0, b1, b2, b3, b4)
           t == GenericSBox(Bits, Merge(a0, b0), Merge(a1, b1), Merge(a2, b2),
                            Merge(a3, b3), Merge(a4, b4))
<1>1. \A i \in Bits : i \div 2 \in HalfBits
  BY WAssumption DEF Bits, HalfBits
<1>2. Merge(l.t0, h.t0) = t.t0
  BY <1>1 DEF GenericSBox, Merge, XOR, AND, NOT
<1>3. Merge(l.t1, h.t1) = t.t1
  BY <1>1 DEF GenericSBox, Merge, XOR, AND, NOT
<1>4. Merge(l.t2, h.t2) = t.t2
  BY <1>1 DEF GenericSBox, Merge, XOR, AND, NOT
<1>5. Merge(l.t3, h.t3) = t.t3
  BY <1>1 DEF GenericSBox, Merge, XOR, AND, NOT
<1>6. Merge(l.t4, h.t4) = t.t4
  BY <1>1 DEF GenericSBox, Merge, XOR, AND, NOT
<1> QED BY <1>2, <1>3, <1>4, <1>5, <1>6 DEF Merged

LEMMA RotatedBit ==
  ASSUME NEW k \in Bits, NEW n \in Nat
  PROVE  LET j == (k + n) % (8 * W)
         IN  /\ j \in Bits /\ k \div 2 \in HalfBits
             /\ j % 2 = (k + n) % 2
             /\ n % 2 = 0 => /\ j % 2 = k % 2
                             /\ j \div 2 = ((k \div 2) + (n \div 2)) % (4 * W)
             /\ n % 2 = 1 /\ k % 2 = 0 =>
                  j % 2 = 1 /\ j \div 2 = ((k \div 2) + ((n - 1) \div 2)) % (4 * W)
             /\ n % 2 = 1 /\ k % 2 = 1 =>
                  j % 2 = 0 /\ j \div 2 = ((k \div 2) + ((n + 1) \div 2)) % (4 * W)
  BY WAssumption DEF Bits, HalfBits

LEMMA MergeMember ==
  ASSUME NEW a, NEW b, NEW k \in Bits
  PROVE  /\ k % 2 = 0 \/ k % 2 = 1
         /\ k % 2 = 0 => (k \in Merge(a, b) <=> k \div 2 \in a)
         /\ k % 2 = 1 => (k \in Merge(a, b) <=> k \div 2 \in b)
<1>1. k % 2 = 0 \/ k % 2 = 1
  BY DEF Bits
<1> QED BY <1>1 DEF Merge

LEMMA MergeRor ==
  ASSUME NEW h \in Halves, NEW n \in Nat
  PROVE  /\ RV_ROR64(h, n) \in Halves
         /\ Merge(RV_ROR64(h, n).lo, RV_ROR64(h, n).hi) = ROR(Merge(h.lo, h.hi), n)
<1> DEFINE m == Merge(h.lo, h.hi)
<1>1. m \in Word /\ ROR(m, n) \in Word
  BY MergeOps, RorMember
<1>2. \A k \in Bits : k \in ROR(m, n) <=> (k + n) % (8 * W) \in m
  BY <1>1, RorMember
<1>3. h.lo \in Half /\ h.hi \in Half
  BY DEF Halves
<1>4. CASE n % 2 = 0
  <2> DEFINE q == n \div 2
  <2>1. q \in Nat
    OBVIOUS
  <2>2. RV_ROR64(h, n) = [lo |-> HROR(h.lo, q), hi |-> HROR(h.hi, q)]
    BY <1>4 DEF RV_ROR64
  <2>3. /\ HROR(h.lo, q) \in Half /\ HROR(h.hi, q) \in Half
        /\ \A k \in HalfBits : /\ k \in HROR(h.lo, q) <=> (k + q) % (4 * W) \in h.lo
                               /\ k \in HROR(h.hi, q) <=> (k + q) % (4 * W) \in h.hi
    BY <1>3, <2>1, HRorMember
  <2>4. ASSUME NEW k \in Bits
        PROVE  k \in Merge(HROR(h.lo, q), HROR(h.hi, q)) <=> k \in ROR(m, n)
    <3>1. /\ (k + n) % (8 * W) \in Bits /\ k \div 2 \in HalfBits
          /\ ((k + n) % (8 * W)) % 2 = k % 2
          /\ ((k + n) % (8 * W)) \div 2 = ((k \div 2) + q) % (4 * W)
      BY <1>4, RotatedBit
    <3> DEFINE j == (k + n) % (8 * W)
               d == k \div 2
    <3>2. d \in HalfBits /\ j \div 2 = (d + q) % (4 * W)
      BY <3>1
    <3>3. k \in ROR(m, n) <=> j \in m
      BY <1>2
    <3>4. j \in Bits /\ j % 2 = k % 2
      BY <3>1
    <3> HIDE DEF d, j, q
    <3>5. /\ d \in HROR(h.lo, q) <=> j \div 2 \in h.lo
          /\ d \in HROR(h.hi, q) <=> j \div 2 \in h.hi
      BY <2>3, <3>2
    <3>6. CASE k % 2 = 0
      BY <3>3, <3>4, <3>5, <3>6, MergeMember DEF d
    <3>7. CASE k % 2 = 1
      BY <3>3, <3>4, <3>5, <3>7, MergeMember DEF d
    <3> QED BY <3>6, <3>7, MergeMember
  <2>5. Merge(HROR(h.lo, q), HROR(h.hi, q)) = ROR(m, n)
    BY <1>1, <2>4, MergeOps DEF Word
  <2> HIDE DEF q
  <2> QED BY <2>2, <2>3, <2>5 DEF Halves
<1>5. CASE n % 2 = 1
  <2> DEFINE q == (n - 1) \div 2
             r == (n + 1) \div 2
  <2>1. q \in Nat /\ r \in Nat
    BY <1>5
  <2>2. RV_ROR64(h, n) = [lo |-> HROR(h.hi, q), hi |-> HROR(h.lo, r)]
    BY <1>5 DEF RV_ROR64
  <2>3. /\ HROR(h.hi, q) \in Half /\ HROR(h.lo, r) \in Half
        /\ \A k \in HalfBits : /\ k \in HROR(h.hi, q) <=> (k + q) % (4 * W) \in h.hi
                               /\ k \in HROR(h.lo, r) <=> (k + r) % (4 * W) \in h.lo
    BY <1>3, <2>1, HRorMember
  <2>4. ASSUME NEW k \in Bits
        PROVE  k \in Merge(HROR(h.hi, q), HROR(h.lo, r)) <=> k \in ROR(m, n)
    <3>1. /\ (k + n) % (8 * W) \in Bits /\ k \div 2 \in HalfBits
          /\ k % 2 = 0 => /\ ((k + n) % (8 * W)) % 2 = 1
                          /\ ((k + n) % (8 * W)) \div 2 = ((k \div 2) + q) % (4 * W)
          /\ k % 2 = 1 => /\ ((k + n) % (8 * W)) % 2 = 0
                          /\ ((k + n) % (8 * W)) \div 2 = ((k \div 2) + r) % (4 * W)
      BY <1>5, RotatedBit
    <3> DEFINE j == (k + n) % (8 * W)
               d == k \div 2
    <3>2. /\ d \in HalfBits
          /\ k % 2 = 0 => j \div 2 = (d + q) % (4 * W)
          /\ k % 2 = 1 => j \div 2 = (d + r) % (4 * W)
      BY <3>1
    <3>3. k \in ROR(m, n) <=> j \in m
      BY <1>2
    <3>4. j \in Bits /\ (k % 2 = 0 => j % 2 = 1) /\ (k % 2 = 1 => j % 2 = 0)
      BY <3>1
    <3> HIDE DEF d, j, q, r
    <3>5. /\ k % 2 = 0 => (d \in HROR(h.hi, q) <=> j \div 2 \in h.hi)
          /\ k % 2 = 1 => (d \in HROR(h.lo, r) <=> j \div 2 \in h.lo)
      BY <2>3, <3>2
    <3>6. CASE k % 2 = 0
      BY <3>3, <3>4, <3>5, <3>6, MergeMember DEF d
    <3>7. CASE k % 2 = 1
      BY <3>3, <3>4, <3>5, <3>7, MergeMember DEF d
    <3> QED BY <3>6, <3>7, MergeMember
  <2>5. Merge(HROR(h.hi, q), HROR(h.lo, r)) = ROR(m, n)
    BY <1>1, <2>4, MergeOps DEF Word
  <2> HIDE DEF q, r
  <2> QED BY <2>2, <2>3, <2>5 DEF Halves
<1> QED BY <1>4, <1>5

(* RV_LINEAR rotates by r1 and then by r0: by r0 and by r0 + r1 in all.     *)
LEMMA MergeLinear ==
  ASSUME NEW h \in Halves, NEW r0 \in Nat, NEW r1 \in Nat
  PROVE  LET v == RV_LINEAR_BI(r0, r1)[h]
             m == Merge(h.lo, h.hi)
         IN  /\ v \in Halves
             /\ Merge(v.lo, v.hi) = XOR(m, XOR(ROR(m, r0), ROR(m, r1 + r0)))
<1> DEFINE m == Merge(h.lo, h.hi)
<1>0. m \in Word /\ ROR(m, r1) \in Word
  BY MergeOps, RorMember
<1>1. \A f, g \in Halves :
        /\ HXOR(f, g) \in Halves
        /\ Merge(HXOR(f, g).lo, HXOR(f, g).hi) = XOR(Merge(f.lo, f.hi), Merge(g.lo, g.hi))
  <2>1. \A a, b \in Half : XOR(a, b) \in Half
    BY DEF XOR, Half
  <2> QED BY <2>1, MergeOps DEF HXOR, Halves
<1> DEFINE a == RV_ROR64(h, r1)
           b == HXOR(h, a)
           c == RV_ROR64(b, r0)
           v == HXOR(h, c)
<1>2. a \in Halves /\ Merge(a.lo, a.hi) = ROR(m, r1)
  BY MergeRor, Zenon
<1> HIDE DEF a
<1>3. b \in Halves /\ Merge(b.lo, b.hi) = XOR(m, ROR(m, r1))
  BY <1>1, <1>2
<1> HIDE DEF b
<1>4. c \in Halves /\ Merge(c.lo, c.hi) = ROR(XOR(m, ROR(m, r1)), r0)
  <2>1. c \in Halves /\ Merge(c.lo, c.hi) = ROR(Merge(b.lo, b.hi), r0)
    BY <1>3, MergeRor, Zenon
  <2> QED BY <1>3, <2>1
<1> HIDE DEF c
<1>5. v \in Halves /\ Merge(v.lo, v.hi) = XOR(m, ROR(XOR(m, ROR(m, r1)), r0))
  BY <1>1, <1>4
<1> HIDE DEF v, m
<1>6. ROR(XOR(m, ROR(m, r1)), r0) = XOR(ROR(m, r0), ROR(m, r1 + r0))
  BY <1>0, RorXor, RorCompose
<1>7. RV_LINEAR_BI(r0, r1)[h] = v
  BY DEF RV_LINEAR_BI, a, b, c, v
<1> QED BY <1>5, <1>6, <1>7 DEF m

(* The word that two halves side by side stand for. *)
Joined(x) == Merge(Lo(x), Hi(x))

LEMMA SBoxBIValue ==
  ASSUME NEW s \in State, NEW C \in Word
  PROVE  LET r == SBoxBI(s, C)
             t == GenericSBox(Bits, Joined(s[0]), Joined(s[1]), XOR(Joined(s[2]), Joined(C)),
                              Joined(s[3]), Joined(s[4]))
         IN  /\ r \in Registers(Halves)
             /\ Merge(r["x2"].lo, r["x2"].hi) = t.t0 /\ Merge(r["x3"].lo, r["x3"].hi) = t.t1
             /\ Merge(r["x4"].lo, r["x4"].hi) = t.t2
             /\ Merge(r["x3_tmp"].lo, r["x3_tmp"].hi) = t.t3
             /\ Merge(r["x1"].lo, r["x1"].hi) = t.t4
<1> DEFINE a0 == Lo(s[0])
           a1 == Lo(s[1])
           a2 == XOR(Lo(s[2]), Lo(C))
           a3 == Lo(s[3])
           a4 == Lo(s[4])
           b0 == Hi(s[0])
           b1 == Hi(s[1])
           b2 == XOR(Hi(s[2]), Hi(C))
           b3 == Hi(s[3])
           b4 == Hi(s[4])
           lo == RV_S_BOX(HalfBits, a0, a1, a2, a3, a4)
           hi == RV_S_BOX(HalfBits, b0, b1, b2, b3, b4)
           l  == GenericSBox(HalfBits, a0, a1, a2, a3, a4)
           h  == GenericSBox(HalfBits, b0, b1, b2, b3, b4)
           t  == GenericSBox(Bits, Merge(a0, b0), Merge(a1, b1), Merge(a2, b2),
                             Merge(a3, b3), Merge(a4, b4))
           r  == [n \in RegNames |-> [lo |-> lo[n], hi |-> hi[n]]]
<1>1. SBoxBI(s, C) = r
  BY Zenon DEF SBoxBI
<1>2. t = GenericSBox(Bits, Joined(s[0]), Joined(s[1]), XOR(Joined(s[2]), Joined(C)),
                      Joined(s[3]), Joined(s[4]))
  <2>1. Merge(a2, b2) = XOR(Joined(s[2]), Joined(C))
    BY MergeOps DEF Joined
  <2>2. /\ Merge(a0, b0) = Joined(s[0]) /\ Merge(a1, b1) = Joined(s[1])
        /\ Merge(a3, b3) = Joined(s[3]) /\ Merge(a4, b4) = Joined(s[4])
    BY Zenon DEF Joined
  <2> HIDE DEF a0, a1, a2, a3, a4, b0, b1, b2, b3, b4
  <2> QED BY <2>1, <2>2, Zenon
<1>3. /\ a0 \in SUBSET HalfBits /\ a1 \in SUBSET HalfBits /\ a2 \in SUBSET HalfBits
      /\ a3 \in SUBSET HalfBits /\ a4 \in SUBSET HalfBits
      /\ b0 \in SUBSET HalfBits /\ b1 \in SUBSET HalfBits /\ b2 \in SUBSET HalfBits
      /\ b3 \in SUBSET HalfBits /\ b4 \in SUBSET HalfBits
  BY DEF Lo, Hi, XOR
<1> HIDE DEF a0, a1, a2, a3, a4, b0, b1, b2, b3, b4
<1>4. /\ lo \in Registers(SUBSET HalfBits) /\ Outputs(lo, l)
      /\ hi \in Registers(SUBSET HalfBits) /\ Outputs(hi, h)
  BY <1>3, SBoxType, SBoxAgrees, Zenon
<1>5. Merged(l, h, t)
  BY MergeSBox, Zenon
<1> HIDE DEF lo, hi, l, h, t
<1>6. r \in Registers(Halves)
  BY <1>4 DEF Registers, Halves, Half
<1>7. /\ Merge(r["x2"].lo, r["x2"].hi) = t.t0 /\ Merge(r["x3"].lo, r["x3"].hi) = t.t1
      /\ Merge(r["x4"].lo, r["x4"].hi) = t.t2
      /\ Merge(r["x3_tmp"].lo, r["x3_tmp"].hi) = t.t3
      /\ Merge(r["x1"].lo, r["x1"].hi) = t.t4
  BY <1>4, <1>5 DEF Outputs, Merged, RegNames
<1> HIDE DEF r
<1> QED BY <1>1, <1>2, <1>6, <1>7

LEMMA RoundBIValue ==
  ASSUME NEW s \in State, NEW C \in Word
  PROVE  /\ ROUND_BI(s, C) \in State
         /\ Diffused(GenericSBox(Bits, Joined(s[0]), Joined(s[1]),
                                 XOR(Joined(s[2]), Joined(C)), Joined(s[3]), Joined(s[4])),
                     [i \in 0..4 |-> Joined(ROUND_BI(s, C)[i])])
<1> DEFINE r == SBoxBI(s, C)
           t == GenericSBox(Bits, Joined(s[0]), Joined(s[1]), XOR(Joined(s[2]), Joined(C)),
                            Joined(s[3]), Joined(s[4]))
           M(v) == Merge(v.lo, v.hi)
<1>1. /\ r \in Registers(Halves)
      /\ M(r["x2"]) = t.t0 /\ M(r["x3"]) = t.t1 /\ M(r["x4"]) = t.t2
      /\ M(r["x3_tmp"]) = t.t3 /\ M(r["x1"]) = t.t4
  BY SBoxBIValue
<1> HIDE DEF r, t
<1> DEFINE f0 == RV_LINEAR_BI(19, 28 - 19)
           f1 == RV_LINEAR_BI(39, 61 - 39)
           f2 == RV_LINEAR_BI(1, 6 - 1)
           f3 == RV_LINEAR_BI(10, 17 - 10)
           f4 == RV_LINEAR_BI(7, 41 - 7)
           q  == LinearLayerBI[r]
<1>2. /\ f0 \in [Halves -> Halves] /\ f1 \in [Halves -> Halves] /\ f2 \in [Halves -> Halves]
      /\ f3 \in [Halves -> Halves] /\ f4 \in [Halves -> Halves]
  <2>1. ASSUME NEW i \in Nat, NEW j \in Nat
        PROVE  RV_LINEAR_BI(i, j) \in [Halves -> Halves]
    <3>1. \A v \in Halves : RV_LINEAR_BI(i, j)[v] \in Halves
      BY MergeLinear
    <3> QED BY <3>1 DEF RV_LINEAR_BI
  <2> QED BY <2>1
<1>3. q = Layer(Halves, f0, f1, f2, f3, f4, r)
  BY <1>1 DEF LinearLayerBI, Layer
<1>4. \A v \in Halves :
        /\ M(f0[v]) = XOR(M(v), XOR(ROR(M(v), 19), ROR(M(v), 28)))
        /\ M(f1[v]) = XOR(M(v), XOR(ROR(M(v), 39), ROR(M(v), 61)))
        /\ M(f2[v]) = XOR(M(v), XOR(ROR(M(v), 1), ROR(M(v), 6)))
        /\ M(f3[v]) = XOR(M(v), XOR(ROR(M(v), 10), ROR(M(v), 17)))
        /\ M(f4[v]) = XOR(M(v), XOR(ROR(M(v), 7), ROR(M(v), 41)))
  <2>1. ASSUME NEW i \in Nat, NEW j \in Nat, NEW k \in Nat, k = j + i, NEW v \in Halves
        PROVE  M(RV_LINEAR_BI(i, j)[v]) = XOR(M(v), XOR(ROR(M(v), i), ROR(M(v), k)))
    BY <2>1, MergeLinear
  <2>2. /\ f0 = RV_LINEAR_BI(19, 9) /\ f1 = RV_LINEAR_BI(39, 22)
        /\ f2 = RV_LINEAR_BI(1, 5) /\ f3 = RV_LINEAR_BI(10, 7)
        /\ f4 = RV_LINEAR_BI(7, 34)
    OBVIOUS
  <2> HIDE DEF f0, f1, f2, f3, f4, M
  <2> TAKE v \in Halves
  <2>3. M(RV_LINEAR_BI(19, 9)[v]) = XOR(M(v), XOR(ROR(M(v), 19), ROR(M(v), 28)))
    BY <2>1
  <2>4. M(RV_LINEAR_BI(39, 22)[v]) = XOR(M(v), XOR(ROR(M(v), 39), ROR(M(v), 61)))
    BY <2>1
  <2>5. M(RV_LINEAR_BI(1, 5)[v]) = XOR(M(v), XOR(ROR(M(v), 1), ROR(M(v), 6)))
    BY <2>1
  <2>6. M(RV_LINEAR_BI(10, 7)[v]) = XOR(M(v), XOR(ROR(M(v), 10), ROR(M(v), 17)))
    BY <2>1
  <2>7. M(RV_LINEAR_BI(7, 34)[v]) = XOR(M(v), XOR(ROR(M(v), 7), ROR(M(v), 41)))
    BY <2>1
  <2> QED BY <2>2, <2>3, <2>4, <2>5, <2>6, <2>7
<1> HIDE DEF f0, f1, f2, f3, f4, q
<1>5. q \in Registers(Halves) /\ Moved(f0, f1, f2, f3, f4, r, q)
  <2>1. /\ Layer(Halves, f0, f1, f2, f3, f4, r) \in Registers(Halves)
        /\ Moved(f0, f1, f2, f3, f4, r, Layer(Halves, f0, f1, f2, f3, f4, r))
    BY <1>1, <1>2, LayerValue, Zenon
  <2> QED BY <1>3, <2>1, Zenon
<1> HIDE DEF M
<1>6. /\ M(q["x0"]) = XOR(t.t0, XOR(ROR(t.t0, 19), ROR(t.t0, 28)))
      /\ M(q["x1"]) = XOR(t.t1, XOR(ROR(t.t1, 39), ROR(t.t1, 61)))
      /\ M(q["x2"]) = XOR(t.t2, XOR(ROR(t.t2, 1), ROR(t.t2, 6)))
      /\ M(q["x3"]) = XOR(t.t3, XOR(ROR(t.t3, 10), ROR(t.t3, 17)))
      /\ M(q["x4"]) = XOR(t.t4, XOR(ROR(t.t4, 7), ROR(t.t4, 41)))
  BY <1>1, <1>4, <1>5 DEF Moved, Registers, RegNames
<1> DEFINE n(i) == CASE i = 0 -> "x0" [] i = 1 -> "x1" [] i = 2 -> "x2"
                     [] i = 3 -> "x3" [] i = 4 -> "x4"
           p == ROUND_BI(s, C)
<1>7. p = [i \in 0..4 |-> Pair(q[n(i)].hi, q[n(i)].lo)]
  <2>1. p = StateOfBI[q]
    BY DEF ROUND_BI, q, r
  <2>2. StateOfBI[q] = [i \in 0..4 |-> Pair(q[n(i)].hi, q[n(i)].lo)]
    BY <1>5, Zenon DEF StateOfBI
  <2> QED BY <2>1, <2>2
<1>8. n(0) = "x0" /\ n(1) = "x1" /\ n(2) = "x2" /\ n(3) = "x3" /\ n(4) = "x4"
  <2>1. 1 # 0 /\ 2 # 0 /\ 3 # 0 /\ 4 # 0 /\ 2 # 1 /\ 3 # 1 /\ 4 # 1 /\ 3 # 2
        /\ 4 # 2 /\ 4 # 3
    OBVIOUS
  <2> QED BY <2>1, Zenon
<1> HIDE DEF n, p
<1>9. \A i \in 0..4 : n(i) \in RegNames
  BY <1>8 DEF RegNames
<1>10. \A i \in 0..4 : p[i] \in Word /\ Joined(p[i]) = M(q[n(i)])
  <2> TAKE i \in 0..4
  <2>1. q[n(i)].hi \in Half /\ q[n(i)].lo \in Half
    BY <1>5, <1>9 DEF Registers, Halves
  <2>2. p[i] = Pair(q[n(i)].hi, q[n(i)].lo)
    BY <1>7
  <2> QED BY <2>1, <2>2, PairType DEF Joined, M
<1>11. p \in State
  BY <1>7, <1>10 DEF State
<1>12. Diffused(t, [i \in 0..4 |-> Joined(p[i])])
  BY <1>6, <1>8, <1>10 DEF Diffused
<1> QED BY <1>11, <1>12 DEF p, t

------------------------------------------------------------------------------
(* Round constants.                                                         *)

LEMMA ByteOfBits ==
  ASSUME NEW v \in Nat
  PROVE  /\ 0 \in ByteOf(v) <=> v % 2 = 1
         /\ 1 \in ByteOf(v) <=> (v \div 2) % 2 = 1
         /\ 2 \in ByteOf(v) <=> (v \div 4) % 2 = 1
         /\ 3 \in ByteOf(v) <=> (v \div 8) % 2 = 1
         /\ 4 \in ByteOf(v) <=> (v \div 16) % 2 = 1
         /\ 5 \in ByteOf(v) <=> (v \div 32) % 2 = 1
         /\ 6 \in ByteOf(v) <=> (v \div 64) % 2 = 1
         /\ 7 \in ByteOf(v) <=> (v \div 128) % 2 = 1
  BY DEF ByteOf

LEMMA ByteOfType == \A v : ByteOf(v) \in Byte /\ ByteOf(v) \in Half /\ ByteOf(v) \in Word
  BY WAssumption DEF ByteOf, Byte, Half, Word, HalfBits, Bits

(* c holds the bits of lo and hi in turn. *)
LEMMA SpreadByte ==
  ASSUME NEW lo \in 0..15, NEW hi \in 0..15, NEW c \in 0..255,
         c % 2 = lo % 2, (c \div 2) % 2 = hi % 2,
         (c \div 4) % 2 = (lo \div 2) % 2, (c \div 8) % 2 = (hi \div 2) % 2,
         (c \div 16) % 2 = (lo \div 4) % 2, (c \div 32) % 2 = (hi \div 4) % 2,
         (c \div 64) % 2 = (lo \div 8) % 2, (c \div 128) % 2 = (hi \div 8) % 2
  PROVE  Merge(ByteOf(lo), ByteOf(hi)) = ByteOf(c)
<1>1. \A k \in 0..7 : k \in Bits
  BY WAssumption DEF Bits
<1>2. /\ \A k \in ByteOf(lo) : k \in 0..3
      /\ \A k \in ByteOf(hi) : k \in 0..3
      /\ \A k \in ByteOf(c) : k \in 0..7
  <2>1. \A v : \A k \in ByteOf(v) : k \in 0..7
    BY DEF ByteOf
  <2>2. \A v \in 0..15 : (v \div 16) % 2 = 0 /\ (v \div 32) % 2 = 0
                         /\ (v \div 64) % 2 = 0 /\ (v \div 128) % 2 = 0
    BY SMTT(20)
  <2>3. \A v \in 0..15 : 4 \notin ByteOf(v) /\ 5 \notin ByteOf(v) /\ 6 \notin ByteOf(v)
                         /\ 7 \notin ByteOf(v)
    BY <2>2, ByteOfBits
  <2> QED BY <2>1, <2>3
<1>3. \A k \in Merge(ByteOf(lo), ByteOf(hi)) : k \in 0..7
  BY <1>2 DEF Merge, Bits
<1>4. \A k \in 0..7 : k \in Merge(ByteOf(lo), ByteOf(hi))
                        <=> k \div 2 \in (IF k % 2 = 0 THEN ByteOf(lo) ELSE ByteOf(hi))
  BY <1>1 DEF Merge
<1>5. \A k \in 0..7 : k = 0 \/ k = 1 \/ k = 2 \/ k = 3 \/ k = 4 \/ k = 5 \/ k = 6 \/ k = 7
  OBVIOUS
<1>6. lo \in Nat /\ hi \in Nat /\ c \in Nat
  OBVIOUS
<1>7. /\ 0 \in Merge(ByteOf(lo), ByteOf(hi)) <=> 0 \in ByteOf(c)
      /\ 1 \in Merge(ByteOf(lo), ByteOf(hi)) <=> 1 \in ByteOf(c)
      /\ 2 \in Merge(ByteOf(lo), ByteOf(hi)) <=> 2 \in ByteOf(c)
      /\ 3 \in Merge(ByteOf(lo), ByteOf(hi)) <=> 3 \in ByteOf(c)
      /\ 4 \in Merge(ByteOf(lo), ByteOf(hi)) <=> 4 \in ByteOf(c)
      /\ 5 \in Merge(ByteOf(lo), ByteOf(hi)) <=> 5 \in ByteOf(c)
      /\ 6 \in Merge(ByteOf(lo), ByteOf(hi)) <=> 6 \in ByteOf(c)
      /\ 7 \in Merge(ByteOf(lo), ByteOf(hi)) <=> 7 \in ByteOf(c)
  BY <1>4, <1>6, ByteOfBits
<1> QED BY <1>2, <1>3, <1>5, <1>7

LEMMA ConstantsAgree ==
  ASSUME NEW i \in 0..11
  PROVE  Merge(ByteOf(ascon_round_constants_bi[2 * i + 1]),
               ByteOf(ascon_round_constants_bi[2 * i + 2]))
           = ByteOf(ascon_round_constants[i + 1])
<1> DEFINE lo == ascon_round_constants_bi[2 * i + 1]
           hi == ascon_round_constants_bi[2 * i + 2]
           c  == ascon_round_constants[i + 1]
<1>1. i = 0 \/ i = 1 \/ i = 2 \/ i = 3 \/ i = 4 \/ i = 5 \/ i = 6 \/ i = 7 \/ i = 8
      \/ i = 9 \/ i = 10 \/ i = 11
  OBVIOUS
<1>2. \/ lo = 12 /\ hi = 12 /\ c = 240
      \/ lo = 9 /\ hi = 12 /\ c = 225
      \/ lo = 12 /\ hi = 9 /\ c = 210
      \/ lo = 9 /\ hi = 9 /\ c = 195
      \/ lo = 6 /\ hi = 12 /\ c = 180
      \/ lo = 3 /\ hi = 12 /\ c = 165
      \/ lo = 6 /\ hi = 9 /\ c = 150
      \/ lo = 3 /\ hi = 9 /\ c = 135
      \/ lo = 12 /\ hi = 6 /\ c = 120
      \/ lo = 9 /\ hi = 6 /\ c = 105
      \/ lo = 12 /\ hi = 3 /\ c = 90
      \/ lo = 9 /\ hi = 3 /\ c = 75
  BY <1>1 DEF ascon_round_constants, ascon_round_constants_bi
<1> HIDE DEF lo, hi, c
<1>3. lo \in 0..15 /\ hi \in 0..15 /\ c \in 0..255
  BY <1>2
<1>4. /\ c % 2 = lo % 2 /\ (c \div 2) % 2 = hi % 2
      /\ (c \div 4) % 2 = (lo \div 2) % 2 /\ (c \div 8) % 2 = (hi \div 2) % 2
      /\ (c \div 16) % 2 = (lo \div 4) % 2 /\ (c \div 32) % 2 = (hi \div 4) % 2
      /\ (c \div 64) % 2 = (lo \div 8) % 2 /\ (c \div 128) % 2 = (hi \div 8) % 2
  BY <1>2
<1> QED BY <1>3, <1>4, SpreadByte DEF lo, hi, c

LEMMA RoundConstantValue ==
  ASSUME NEW i \in 0..11
  PROVE  /\ RoundConstant(i) \in Word
         /\ Standard(RoundConstant(i)) = ByteOf(ascon_round_constants[i + 1])
<1>1. CASE TARGET_ARCH \in BI32
  BY <1>1, ConstantsAgree, ByteOfType, PairType DEF RoundConstant, Standard
<1>2. CASE TARGET_ARCH \notin BI32
  BY <1>2, ByteOfType DEF RoundConstant, Standard
<1> QED BY <1>1, <1>2

------------------------------------------------------------------------------
(* The permutation in every build.                                          *)

LEMMA RoundType ==
  ASSUME NEW i \in 0..11, NEW s \in State
  PROVE  Round(i)[s] \in State
<1> DEFINE C == RoundConstant(i)
<1>1. C \in Word
  BY RoundConstantValue
<1> HIDE DEF C
<1>2. ROUND(s, C) \in State /\ ROUND_BI(s, C) \in State /\ GenericROUND(s, C) \in State
  BY <1>1, RoundValue, RoundBIValue, GenericValue, Zenon
<1>3. TARGET_ARCH \in BI32 \/ TARGET_ARCH \in {"rv64", "rv64_zbkb"} \/ TARGET_ARCH = "generic"
  BY ArchAssumption DEF BI32
<1>4. Round(i)[s] = CASE TARGET_ARCH \in BI32 -> ROUND_BI(s, C)
                      [] TARGET_ARCH \in {"rv64", "rv64_zbkb"} -> ROUND(s, C)
                      [] TARGET_ARCH = "generic" -> GenericROUND(s, C)
  BY Zenon DEF Round, C
<1> QED BY <1>2, <1>3, <1>4, Zenon

LEMMA PermutationType ==
  ASSUME NEW s \in State
  PROVE  P6(s) \in State /\ P8(s) \in State /\ P12(s) \in State
<1>0. /\ 0 \in 0..11 /\ 1 \in 0..11 /\ 2 \in 0..11 /\ 3 \in 0..11 /\ 4 \in 0..11 /\ 5 \in 0..11
      /\ 6 \in 0..11 /\ 7 \in 0..11 /\ 8 \in 0..11 /\ 9 \in 0..11 /\ 10 \in 0..11 /\ 11 \in 0..11
  OBVIOUS
<1>1. \A t \in State : P6(t) \in State
  BY <1>0, RoundType, Zenon DEF P6
<1>2. \A t \in State : P8(t) \in State
  BY <1>0, <1>1, RoundType, Zenon DEF P8
<1>3. \A t \in State : P12(t) \in State
  BY <1>0, <1>2, RoundType, Zenon DEF P12
<1> QED BY <1>1, <1>2, <1>3

LEMMA StandardValue ==
  ASSUME NEW s \in State
  PROVE  /\ StandardState(s) \in State
         /\ \A i \in 0..4 : StandardState(s)[i] = Standard(s[i])
<1>1. \A x \in Word : Standard(x) \in Word
  BY MergeOps DEF Standard
<1> QED BY <1>1 DEF StandardState, State

(* A round of any build - interleaved words on 32-bit registers, 64-bit     *)
(* registers with or without bit manipulation, or the portable code - takes *)
(* the word of the state that it represents to what the portable round      *)
(* makes of that word, with the constant of that round.                     *)
THEOREM BuildsAgree ==
  ASSUME NEW i \in 0..11, NEW s \in State
  PROVE  StandardState(Round(i)[s])
           = GenericROUND(StandardState(s), ByteOf(ascon_round_constants[i + 1]))
<1> DEFINE C == RoundConstant(i)
           D == ByteOf(ascon_round_constants[i + 1])
           q == Round(i)[s]
<1>1. C \in Word /\ Standard(C) = D /\ D \in Word
  BY RoundConstantValue, ByteOfType
<1>2. q = CASE TARGET_ARCH \in BI32 -> ROUND_BI(s, C)
            [] TARGET_ARCH \in {"rv64", "rv64_zbkb"} -> ROUND(s, C)
            [] TARGET_ARCH = "generic" -> GenericROUND(s, C)
  BY Zenon DEF Round
<1>3. q \in State
  BY RoundType
<1> HIDE DEF C, D, q
<1>4. CASE TARGET_ARCH \in BI32
  <2> DEFINE t == GenericSBox(Bits, Joined(s[0]), Joined(s[1]), XOR(Joined(s[2]), Joined(C)),
                              Joined(s[3]), Joined(s[4]))
  <2>1. q = ROUND_BI(s, C)
    <3>1. TARGET_ARCH \notin {"rv64", "rv64_zbkb"} /\ TARGET_ARCH # "generic"
      BY <1>4 DEF BI32
    <3> QED BY <1>2, <1>4, <3>1, Zenon
  <2>2. \A x : Standard(x) = Joined(x)
    BY <1>4 DEF Standard, Joined
  <2>3. StandardState(q) = [j \in 0..4 |-> Joined(q[j])]
    BY <2>2 DEF StandardState
  <2>4. Diffused(t, [j \in 0..4 |-> Joined(q[j])])
    BY <1>1, <2>1, RoundBIValue
  <2> DEFINE p == StandardState(s)
  <2>5. p \in State /\ \A j \in 0..4 : p[j] = Joined(s[j])
    BY <2>2, StandardValue
  <2>6. t = GenericSBox(Bits, p[0], p[1], XOR(p[2], D), p[3], p[4])
    <3>1. /\ p[0] = Joined(s[0]) /\ p[1] = Joined(s[1]) /\ p[2] = Joined(s[2])
          /\ p[3] = Joined(s[3]) /\ p[4] = Joined(s[4]) /\ D = Joined(C)
      BY <1>1, <2>2, <2>5
    <3> HIDE DEF p
    <3> QED BY <3>1, Zenon
  <2> HIDE DEF t, p
  <2>7. GenericROUND(p, D) \in State /\ Diffused(t, GenericROUND(p, D))
    BY <1>1, <2>5, <2>6, GenericValue, Zenon
  <2>8. StandardState(q) \in State /\ Diffused(t, StandardState(q))
    BY <1>3, <2>3, <2>4, StandardValue
  <2> QED BY <2>7, <2>8, StateEqual, Zenon DEF p, q, D
<1>5. CASE TARGET_ARCH \notin BI32
  <2>1. \A x : Standard(x) = x
    BY <1>5 DEF Standard
  <2>2. \A x \in State : StandardState(x) = x
    BY <2>1 DEF StandardState, State
  <2>3. ROUND(s, C) = GenericROUND(s, C)
    BY <1>1, RoundsAgree, Zenon
  <2>4. TARGET_ARCH \in {"rv64", "rv64_zbkb"} \/ TARGET_ARCH = "generic"
    BY <1>5, ArchAssumption DEF BI32
  <2>5. q = GenericROUND(s, C)
    BY <1>2, <1>5, <2>3, <2>4, Zenon
  <2>6. C = D
    BY <1>1, <2>1
  <2> QED BY <1>3, <2>2, <2>5, <2>6 DEF q, D
<1> QED BY <1>4, <1>5

------------------------------------------------------------------------------
(* Words and memory: whatever the build, a word read from memory, padded,   *)
(* partly cleared, added to and written back stands for what the portable   *)
(* code has.                                                                *)

(* Where an exchange of neighbouring blocks of n bits takes bit i from. *)
Swapped(i, n) == IF (i \div n) % 4 = 1 THEN i + n
              ELSE IF (i \div n) % 4 = 2 THEN i - n ELSE i

(* An exchange permutes the bits of a half. *)
LEMMA ExchangeMember ==
  ASSUME NEW h \in Half, NEW n \in {1, 2, 4, 8}, n <= W
  PROVE  /\ Exchange(h, n) \in Half
         /\ \A i \in HalfBits : /\ Swapped(i, n) \in HalfBits
                                /\ i \in Exchange(h, n) <=> Swapped(i, n) \in h
<1> DEFINE t == {i \in HalfBits : (i \div n) % 4 = 1 /\ (i \in h) # (i + n \in h)}
           u == {i \in HalfBits : i - n \in t}
<1>1. Exchange(h, n) = XOR(h, XOR(t, u))
  BY DEF Exchange
<1>2. Exchange(h, n) \in Half
  BY <1>1 DEF XOR, Half
<1>3. \A i \in HalfBits : Swapped(i, n) \in HalfBits
  BY WAssumption DEF Swapped, HalfBits
<1>4. ASSUME NEW i \in HalfBits PROVE i \in Exchange(h, n) <=> Swapped(i, n) \in h
  <2>0. i \in Exchange(h, n) <=> (i \in h) # ((i \in t) # (i \in u))
    BY <1>1 DEF XOR
  <2>1. CASE (i \div n) % 4 = 1
    <3>1. ~((i - n) \in HalfBits /\ ((i - n) \div n) % 4 = 1)
      BY <2>1, WAssumption DEF HalfBits
    <3>2. i \notin u
      BY <3>1
    <3>3. i \in t <=> (i \in h) # (i + n \in h)
      BY <2>1
    <3> HIDE DEF t, u
    <3> QED BY <2>0, <2>1, <3>2, <3>3 DEF Swapped
  <2>2. CASE (i \div n) % 4 = 2
    <3>1. (i - n) \in HalfBits /\ ((i - n) \div n) % 4 = 1 /\ i - n + n = i
      BY <2>2, WAssumption DEF HalfBits
    <3>2. i \notin t
      BY <2>2
    <3>3. i \in u <=> (i - n \in h) # (i \in h)
      BY <3>1
    <3> HIDE DEF t, u
    <3> QED BY <2>0, <2>2, <3>2, <3>3 DEF Swapped
  <2>3. CASE (i \div n) % 4 # 1 /\ (i \div n) % 4 # 2
    <3>1. ~((i - n) \in HalfBits /\ ((i - n) \div n) % 4 = 1)
      BY <2>3, WAssumption DEF HalfBits
    <3>2. i \notin t /\ i \notin u
      BY <2>3, <3>1
    <3> HIDE DEF t, u
    <3> QED BY <2>0, <2>3, <3>2 DEF Swapped
  <2> QED BY <2>1, <2>2, <2>3
<1> QED BY <1>2, <1>3, <1>4

(* Three or four exchanges are the bit permutation of unzip, and in the     *)
(* other order that of zip.                                                 *)
Unzipped(i) == IF i < 2 * W THEN 2 * i ELSE 2 * (i - 2 * W) + 1
Zipped(i)   == (i \div 2) + (IF i % 2 = 0 THEN 0 ELSE 2 * W)

LEMMA SwappedBits ==
  ASSUME NEW n \in {1, 2, 4, 8}, NEW q \in 0..15, NEW u \in 0..1, NEW v \in 0..1,
         NEW r \in 0..(n - 1)
  PROVE  Swapped(n * (4 * q + 2 * u + v) + r, n) = n * (4 * q + 2 * v + u) + r
<1> DEFINE b == 4 * q + 2 * u + v
           i == n * b + r
<1>1. i \div n = b
  OBVIOUS
<1>2. b % 4 = 2 * u + v
  OBVIOUS
<1>3. /\ u = 0 /\ v = 1 => i + n = n * (4 * q + 2 * v + u) + r
      /\ u = 1 /\ v = 0 => i - n = n * (4 * q + 2 * v + u) + r
      /\ u = v => i = n * (4 * q + 2 * v + u) + r
  OBVIOUS
<1>4. (u = 0 /\ v = 1) \/ (u = 1 /\ v = 0) \/ u = v
  OBVIOUS
<1>5. Swapped(i, n) = IF (i \div n) % 4 = 1 THEN i + n
                      ELSE IF (i \div n) % 4 = 2 THEN i - n ELSE i
  BY DEF Swapped
<1> HIDE DEF b, i
<1>6. (i \div n) % 4 = 2 * u + v
  BY <1>1, <1>2
<1>7. Swapped(i, n) = n * (4 * q + 2 * v + u) + r
  <2>1. CASE u = 0 /\ v = 1
    BY <2>1, <1>3, <1>5, <1>6
  <2>2. CASE u = 1 /\ v = 0
    BY <2>2, <1>3, <1>5, <1>6
  <2>3. CASE u = v
    <3>1. (i \div n) % 4 # 1 /\ (i \div n) % 4 # 2
      BY <2>3, <1>6
    <3> QED BY <2>3, <3>1, <1>3, <1>5
  <2> QED BY <1>4, <2>1, <2>2, <2>3
<1> QED BY <1>7 DEF b, i

LEMMA SwappedUnzips ==
  ASSUME NEW i \in HalfBits
  PROVE  /\ W = 2 => /\ Swapped(Swapped(i, 2), 1) = Unzipped(i)
                     /\ Swapped(Swapped(i, 1), 2) = Zipped(i)
         /\ W = 4 => /\ Swapped(Swapped(Swapped(i, 4), 2), 1) = Unzipped(i)
                     /\ Swapped(Swapped(Swapped(i, 1), 2), 4) = Zipped(i)
         /\ W = 8 => /\ Swapped(Swapped(Swapped(Swapped(i, 8), 4), 2), 1) = Unzipped(i)
                     /\ Swapped(Swapped(Swapped(Swapped(i, 1), 2), 4), 8) = Zipped(i)
<1>1. CASE W = 2
  <2> DEFINE c == (i \div 4) % 2
             b == (i \div 2) % 2
             a == i % 2
  <2>1. c \in 0..1 /\ b \in 0..1 /\ a \in 0..1 /\ i = 4 * c + 2 * b + a
    BY <1>1 DEF HalfBits
  <2>2. /\ Unzipped(i) = 4 * b + 2 * a + c
        /\ Zipped(i) = 4 * a + 2 * c + b
    BY <1>1 DEF HalfBits, Unzipped, Zipped
  <2> HIDE DEF c, b, a
  <2>3. Swapped(4 * c + 2 * b + a, 2)
          = 4 * b + 2 * c + a
    <3>1. /\ 0 \in 0..15 /\ a \in 0..(2 - 1)
          /\ 2 * (4 * 0 + 2 * c + b) + (a) = 4 * c + 2 * b + a
          /\ 2 * (4 * 0 + 2 * b + c) + (a) = 4 * b + 2 * c + a
      BY <2>1
    <3>2. Swapped(2 * (4 * 0 + 2 * c + b) + (a), 2)
            = 2 * (4 * 0 + 2 * b + c) + (a)
      BY <2>1, <3>1, SwappedBits
    <3> QED BY <3>1, <3>2
  <2>4. Swapped(4 * b + 2 * c + a, 1)
          = 4 * b + 2 * a + c
    <3>1. /\ b \in 0..15 /\ 0 \in 0..(1 - 1)
          /\ 1 * (4 * (b) + 2 * c + a) + 0 = 4 * b + 2 * c + a
          /\ 1 * (4 * (b) + 2 * a + c) + 0 = 4 * b + 2 * a + c
      BY <2>1
    <3>2. Swapped(1 * (4 * (b) + 2 * c + a) + 0, 1)
            = 1 * (4 * (b) + 2 * a + c) + 0
      BY <2>1, <3>1, SwappedBits
    <3> QED BY <3>1, <3>2
  <2>5. Swapped(4 * c + 2 * b + a, 1)
          = 4 * c + 2 * a + b
    <3>1. /\ c \in 0..15 /\ 0 \in 0..(1 - 1)
          /\ 1 * (4 * (c) + 2 * b + a) + 0 = 4 * c + 2 * b + a
          /\ 1 * (4 * (c) + 2 * a + b) + 0 = 4 * c + 2 * a + b
      BY <2>1
    <3>2. Swapped(1 * (4 * (c) + 2 * b + a) + 0, 1)
            = 1 * (4 * (c) + 2 * a + b) + 0
      BY <2>1, <3>1, SwappedBits
    <3> QED BY <3>1, <3>2
  <2>6. Swapped(4 * c + 2 * a + b, 2)
          = 4 * a + 2 * c + b
    <3>1. /\ 0 \in 0..15 /\ b \in 0..(2 - 1)
          /\ 2 * (4 * 0 + 2 * c + a) + (b) = 4 * c + 2 * a + b
          /\ 2 * (4 * 0 + 2 * a + c) + (b) = 4 * a + 2 * c + b
      BY <2>1
    <3>2. Swapped(2 * (4 * 0 + 2 * c + a) + (b), 2)
            = 2 * (4 * 0 + 2 * a + c) + (b)
      BY <2>1, <3>1, SwappedBits
    <3> QED BY <3>1, <3>2
  <2> QED BY <1>1, <2>1, <2>2, <2>3, <2>4, <2>5, <2>6
<1>2. CASE W = 4
  <2> DEFINE d == (i \div 8) % 2
             c == (i \div 4) % 2
             b == (i \div 2) % 2
             a == i % 2
  <2>1. d \in 0..1 /\ c \in 0..1 /\ b \in 0..1 /\ a \in 0..1 /\ i = 8 * d + 4 * c + 2 * b + a
    BY <1>2 DEF HalfBits
  <2>2. /\ Unzipped(i) = 8 * c + 4 * b + 2 * a + d
        /\ Zipped(i) = 8 * a + 4 * d + 2 * c + b
    BY <1>2 DEF HalfBits, Unzipped, Zipped
  <2> HIDE DEF d, c, b, a
  <2>3. Swapped(8 * d + 4 * c + 2 * b + a, 4)
          = 8 * c + 4 * d + 2 * b + a
    <3>1. /\ 0 \in 0..15 /\ 2 * b + a \in 0..(4 - 1)
          /\ 4 * (4 * 0 + 2 * d + c) + (2 * b + a) = 8 * d + 4 * c + 2 * b + a
          /\ 4 * (4 * 0 + 2 * c + d) + (2 * b + a) = 8 * c + 4 * d + 2 * b + a
      BY <2>1
    <3>2. Swapped(4 * (4 * 0 + 2 * d + c) + (2 * b + a), 4)
            = 4 * (4 * 0 + 2 * c + d) + (2 * b + a)
      BY <2>1, <3>1, SwappedBits
    <3> QED BY <3>1, <3>2
  <2>4. Swapped(8 * c + 4 * d + 2 * b + a, 2)
          = 8 * c + 4 * b + 2 * d + a
    <3>1. /\ c \in 0..15 /\ a \in 0..(2 - 1)
          /\ 2 * (4 * (c) + 2 * d + b) + (a) = 8 * c + 4 * d + 2 * b + a
          /\ 2 * (4 * (c) + 2 * b + d) + (a) = 8 * c + 4 * b + 2 * d + a
      BY <2>1
    <3>2. Swapped(2 * (4 * (c) + 2 * d + b) + (a), 2)
            = 2 * (4 * (c) + 2 * b + d) + (a)
      BY <2>1, <3>1, SwappedBits
    <3> QED BY <3>1, <3>2
  <2>5. Swapped(8 * c + 4 * b + 2 * d + a, 1)
          = 8 * c + 4 * b + 2 * a + d
    <3>1. /\ 2 * c + b \in 0..15 /\ 0 \in 0..(1 - 1)
          /\ 1 * (4 * (2 * c + b) + 2 * d + a) + 0 = 8 * c + 4 * b + 2 * d + a
          /\ 1 * (4 * (2 * c + b) + 2 * a + d) + 0 = 8 * c + 4 * b + 2 * a + d
      BY <2>1
    <3>2. Swapped(1 * (4 * (2 * c + b) + 2 * d + a) + 0, 1)
            = 1 * (4 * (2 * c + b) + 2 * a + d) + 0
      BY <2>1, <3>1, SwappedBits
    <3> QED BY <3>1, <3>2
  <2>6. Swapped(8 * d + 4 * c + 2 * b + a, 1)
          = 8 * d + 4 * c + 2 * a + b
    <3>1. /\ 2 * d + c \in 0..15 /\ 0 \in 0..(1 - 1)
          /\ 1 * (4 * (2 * d + c) + 2 * b + a) + 0 = 8 * d + 4 * c + 2 * b + a
          /\ 1 * (4 * (2 * d + c) + 2 * a + b) + 0 = 8 * d + 4 * c + 2 * a + b
      BY <2>1
    <3>2. Swapped(1 * (4 * (2 * d + c) + 2 * b + a) + 0, 1)
            = 1 * (4 * (2 * d + c) + 2 * a + b) + 0
      BY <2>1, <3>1, SwappedBits
    <3> QED BY <3>1, <3>2
  <2>7. Swapped(8 * d + 4 * c + 2 * a + b, 2)
          = 8 * d + 4 * a + 2 * c + b
    <3>1. /\ d \in 0..15 /\ b \in 0..(2 - 1)
          /\ 2 * (4 * (d) + 2 * c + a) + (b) = 8 * d + 4 * c + 2 * a + b
          /\ 2 * (4 * (d) + 2 * a + c) + (b) = 8 * d + 4 * a + 2 * c + b
      BY <2>1
    <3>2. Swapped(2 * (4 * (d) + 2 * c + a) + (b), 2)
            = 2 * (4 * (d) + 2 * a + c) + (b)
      BY <2>1, <3>1, SwappedBits
    <3> QED BY <3>1, <3>2
  <2>8. Swapped(8 * d + 4 * a + 2 * c + b, 4)
          = 8 * a + 4 * d + 2 * c + b
    <3>1. /\ 0 \in 0..15 /\ 2 * c + b \in 0..(4 - 1)
          /\ 4 * (4 * 0 + 2 * d + a) + (2 * c + b) = 8 * d + 4 * a + 2 * c + b
          /\ 4 * (4 * 0 + 2 * a + d) + (2 * c + b) = 8 * a + 4 * d + 2 * c + b
      BY <2>1
    <3>2. Swapped(4 * (4 * 0 + 2 * d + a) + (2 * c + b), 4)
            = 4 * (4 * 0 + 2 * a + d) + (2 * c + b)
      BY <2>1, <3>1, SwappedBits
    <3> QED BY <3>1, <3>2
  <2> QED BY <1>2, <2>1, <2>2, <2>3, <2>4, <2>5, <2>6, <2>7, <2>8
<1>3. CASE W = 8
  <2> DEFINE e == (i \div 16) % 2
             d == (i \div 8) % 2
             c == (i \div 4) % 2
             b == (i \div 2) % 2
             a == i % 2
  <2>1. e \in 0..1 /\ d \in 0..1 /\ c \in 0..1 /\ b \in 0..1 /\ a \in 0..1 /\ i = 16 * e + 8 * d + 4 * c + 2 * b + a
    BY <1>3 DEF HalfBits
  <2>2. /\ Unzipped(i) = 16 * d + 8 * c + 4 * b + 2 * a + e
        /\ Zipped(i) = 16 * a + 8 * e + 4 * d + 2 * c + b
    BY <1>3 DEF HalfBits, Unzipped, Zipped
  <2> HIDE DEF e, d, c, b, a
  <2>3. Swapped(16 * e + 8 * d + 4 * c + 2 * b + a, 8)
          = 16 * d + 8 * e + 4 * c + 2 * b + a
    <3>1. /\ 0 \in 0..15 /\ 4 * c + 2 * b + a \in 0..(8 - 1)
          /\ 8 * (4 * 0 + 2 * e + d) + (4 * c + 2 * b + a) = 16 * e + 8 * d + 4 * c + 2 * b + a
          /\ 8 * (4 * 0 + 2 * d + e) + (4 * c + 2 * b + a) = 16 * d + 8 * e + 4 * c + 2 * b + a
      BY <2>1
    <3>2. Swapped(8 * (4 * 0 + 2 * e + d) + (4 * c + 2 * b + a), 8)
            = 8 * (4 * 0 + 2 * d + e) + (4 * c + 2 * b + a)
      BY <2>1, <3>1, SwappedBits
    <3> QED BY <3>1, <3>2
  <2>4. Swapped(16 * d + 8 * e + 4 * c + 2 * b + a, 4)
          = 16 * d + 8 * c + 4 * e + 2 * b + a
    <3>1. /\ d \in 0..15 /\ 2 * b + a \in 0..(4 - 1)
          /\ 4 * (4 * (d) + 2 * e + c) + (2 * b + a) = 16 * d + 8 * e + 4 * c + 2 * b + a
          /\ 4 * (4 * (d) + 2 * c + e) + (2 * b + a) = 16 * d + 8 * c + 4 * e + 2 * b + a
      BY <2>1
    <3>2. Swapped(4 * (4 * (d) + 2 * e + c) + (2 * b + a), 4)
            = 4 * (4 * (d) + 2 * c + e) + (2 * b + a)
      BY <2>1, <3>1, SwappedBits
    <3> QED BY <3>1, <3>2
  <2>5. Swapped(16 * d + 8 * c + 4 * e + 2 * b + a, 2)
          = 16 * d + 8 * c + 4 * b + 2 * e + a
    <3>1. /\ 2 * d + c \in 0..15 /\ a \in 0..(2 - 1)
          /\ 2 * (4 * (2 * d + c) + 2 * e + b) + (a) = 16 * d + 8 * c + 4 * e + 2 * b + a
          /\ 2 * (4 * (2 * d + c) + 2 * b + e) + (a) = 16 * d + 8 * c + 4 * b + 2 * e + a
      BY <2>1
    <3>2. Swapped(2 * (4 * (2 * d + c) + 2 * e + b) + (a), 2)
            = 2 * (4 * (2 * d + c) + 2 * b + e) + (a)
      BY <2>1, <3>1, SwappedBits
    <3> QED BY <3>1, <3>2
  <2>6. Swapped(16 * d + 8 * c + 4 * b + 2 * e + a, 1)
          = 16 * d + 8 * c + 4 * b + 2 * a + e
    <3>1. /\ 4 * d + 2 * c + b \in 0..15 /\ 0 \in 0..(1 - 1)
          /\ 1 * (4 * (4 * d + 2 * c + b) + 2 * e + a) + 0 = 16 * d + 8 * c + 4 * b + 2 * e + a
          /\ 1 * (4 * (4 * d + 2 * c + b) + 2 * a + e) + 0 = 16 * d + 8 * c + 4 * b + 2 * a + e
      BY <2>1
    <3>2. Swapped(1 * (4 * (4 * d + 2 * c + b) + 2 * e + a) + 0, 1)
            = 1 * (4 * (4 * d + 2 * c + b) + 2 * a + e) + 0
      BY <2>1, <3>1, SwappedBits
    <3> QED BY <3>1, <3>2
  <2>7. Swapped(16 * e + 8 * d + 4 * c + 2 * b + a, 1)
          = 16 * e + 8 * d + 4 * c + 2 * a + b
    <3>1. /\ 4 * e + 2 * d + c \in 0..15 /\ 0 \in 0..(1 - 1)
          /\ 1 * (4 * (4 * e + 2 * d + c) + 2 * b + a) + 0 = 16 * e + 8 * d + 4 * c + 2 * b + a
          /\ 1 * (4 * (4 * e + 2 * d + c) + 2 * a + b) + 0 = 16 * e + 8 * d + 4 * c + 2 * a + b
      BY <2>1
    <3>2. Swapped(1 * (4 * (4 * e + 2 * d + c) + 2 * b + a) + 0, 1)
            = 1 * (4 * (4 * e + 2 * d + c) + 2 * a + b) + 0
      BY <2>1, <3>1, SwappedBits
    <3> QED BY <3>1, <3>2
  <2>8. Swapped(16 * e + 8 * d + 4 * c + 2 * a + b, 2)
          = 16 * e + 8 * d + 4 * a + 2 * c + b
    <3>1. /\ 2 * e + d \in 0..15 /\ b \in 0..(2 - 1)
          /\ 2 * (4 * (2 * e + d) + 2 * c + a) + (b) = 16 * e + 8 * d + 4 * c + 2 * a + b
          /\ 2 * (4 * (2 * e + d) + 2 * a + c) + (b) = 16 * e + 8 * d + 4 * a + 2 * c + b
      BY <2>1
    <3>2. Swapped(2 * (4 * (2 * e + d) + 2 * c + a) + (b), 2)
            = 2 * (4 * (2 * e + d) + 2 * a + c) + (b)
      BY <2>1, <3>1, SwappedBits
    <3> QED BY <3>1, <3>2
  <2>9. Swapped(16 * e + 8 * d + 4 * a + 2 * c + b, 4)
          = 16 * e + 8 * a + 4 * d + 2 * c + b
    <3>1. /\ e \in 0..15 /\ 2 * c + b \in 0..(4 - 1)
          /\ 4 * (4 * (e) + 2 * d + a) + (2 * c + b) = 16 * e + 8 * d + 4 * a + 2 * c + b
          /\ 4 * (4 * (e) + 2 * a + d) + (2 * c + b) = 16 * e + 8 * a + 4 * d + 2 * c + b
      BY <2>1
    <3>2. Swapped(4 * (4 * (e) + 2 * d + a) + (2 * c + b), 4)
            = 4 * (4 * (e) + 2 * a + d) + (2 * c + b)
      BY <2>1, <3>1, SwappedBits
    <3> QED BY <3>1, <3>2
  <2>10. Swapped(16 * e + 8 * a + 4 * d + 2 * c + b, 8)
          = 16 * a + 8 * e + 4 * d + 2 * c + b
    <3>1. /\ 0 \in 0..15 /\ 4 * d + 2 * c + b \in 0..(8 - 1)
          /\ 8 * (4 * 0 + 2 * e + a) + (4 * d + 2 * c + b) = 16 * e + 8 * a + 4 * d + 2 * c + b
          /\ 8 * (4 * 0 + 2 * a + e) + (4 * d + 2 * c + b) = 16 * a + 8 * e + 4 * d + 2 * c + b
      BY <2>1
    <3>2. Swapped(8 * (4 * 0 + 2 * e + a) + (4 * d + 2 * c + b), 8)
            = 8 * (4 * 0 + 2 * a + e) + (4 * d + 2 * c + b)
      BY <2>1, <3>1, SwappedBits
    <3> QED BY <3>1, <3>2
  <2> QED BY <1>3, <2>1, <2>2, <2>3, <2>4, <2>5, <2>6, <2>7, <2>8, <2>9, <2>10
<1> QED BY <1>1, <1>2, <1>3, WAssumption

LEMMA Interleave16 ==
  \A h \in Half : generic_deinterleave16(h) = unzip(h) /\ generic_interleave16(h) = zip(h)
<1> TAKE h \in Half
<1> DEFINE E(a, n) == Exchange(a, n)
<1>1. /\ unzip(h) \in Half /\ \A i \in HalfBits : i \in unzip(h) <=> Unzipped(i) \in h
      /\ zip(h) \in Half /\ \A i \in HalfBits : i \in zip(h) <=> Zipped(i) \in h
  BY DEF unzip, zip, Unzipped, Zipped, Half
<1>2. \A a, b \in Half : (\A i \in HalfBits : i \in a <=> i \in b) => a = b
  BY DEF Half
<1>3. \A a \in Half, n \in {1, 2, 4, 8} : n <= W =>
        /\ E(a, n) \in Half
        /\ \A i \in HalfBits : Swapped(i, n) \in HalfBits
                               /\ (i \in E(a, n) <=> Swapped(i, n) \in a)
  BY ExchangeMember
<1>4. CASE W = 2
  <2>1. generic_deinterleave16(h) = E(E(h, 1), 2) /\ generic_interleave16(h) = E(E(h, 2), 1)
    BY <1>4 DEF generic_deinterleave16, generic_interleave16
  <2> HIDE DEF E
  <2>2. /\ E(h, 1) \in Half /\ E(h, 2) \in Half
        /\ E(E(h, 1), 2) \in Half /\ E(E(h, 2), 1) \in Half
    BY <1>3, <1>4
  <2>3. \A i \in HalfBits :
          /\ i \in E(E(h, 1), 2) <=> Swapped(Swapped(i, 2), 1) \in h
          /\ i \in E(E(h, 2), 1) <=> Swapped(Swapped(i, 1), 2) \in h
    BY <1>3, <1>4, <2>2
  <2> QED BY <1>1, <1>2, <1>4, <2>1, <2>2, <2>3, SwappedUnzips
<1>5. CASE W = 4
  <2>1. /\ generic_deinterleave16(h) = E(E(E(h, 1), 2), 4)
        /\ generic_interleave16(h) = E(E(E(h, 4), 2), 1)
    BY <1>5 DEF generic_deinterleave16, generic_interleave16
  <2> HIDE DEF E
  <2>2. /\ E(h, 1) \in Half /\ E(h, 4) \in Half
        /\ E(E(h, 1), 2) \in Half /\ E(E(h, 4), 2) \in Half
    BY <1>3, <1>5
  <2>3. E(E(E(h, 1), 2), 4) \in Half /\ E(E(E(h, 4), 2), 1) \in Half
    BY <1>3, <1>5, <2>2
  <2>4. \A i \in HalfBits :
          /\ i \in E(E(E(h, 1), 2), 4) <=> Swapped(Swapped(Swapped(i, 4), 2), 1) \in h
          /\ i \in E(E(E(h, 4), 2), 1) <=> Swapped(Swapped(Swapped(i, 1), 2), 4) \in h
    BY <1>3, <1>5, <2>2
  <2> QED BY <1>1, <1>2, <1>5, <2>1, <2>3, <2>4, SwappedUnzips
<1>6. CASE W = 8
  <2>1. /\ generic_deinterleave16(h) = E(E(E(E(h, 1), 2), 4), 8)
        /\ generic_interleave16(h) = E(E(E(E(h, 8), 4), 2), 1)
    BY <1>6 DEF generic_deinterleave16, generic_interleave16
  <2> HIDE DEF E
  <2>2. /\ E(h, 1) \in Half /\ E(h, 8) \in Half
        /\ E(E(h, 1), 2) \in Half /\ E(E(h, 8), 4) \in Half
        /\ E(E(E(h, 1), 2), 4) \in Half /\ E(E(E(h, 8), 4), 2) \in Half
        /\ E(E(E(E(h, 1), 2), 4), 8) \in Half /\ E(E(E(E(h, 8), 4), 2), 1) \in Half
    <3>1. E(h, 1) \in Half /\ E(h, 8) \in Half
      BY <1>3, <1>6
    <3>2. E(E(h, 1), 2) \in Half /\ E(E(h, 8), 4) \in Half
      BY <1>3, <1>6, <3>1
    <3>3. E(E(E(h, 1), 2), 4) \in Half /\ E(E(E(h, 8), 4), 2) \in Half
      BY <1>3, <1>6, <3>2
    <3> QED BY <1>3, <1>6, <3>1, <3>2, <3>3
  <2>3. \A i \in HalfBits :
          /\ i \in E(E(E(E(h, 1), 2), 4), 8)
               <=> Swapped(Swapped(Swapped(Swapped(i, 8), 4), 2), 1) \in h
          /\ i \in E(E(E(E(h, 8), 4), 2), 1)
               <=> Swapped(Swapped(Swapped(Swapped(i, 1), 2), 4), 8) \in h
    BY <1>3, <1>6, <2>2
  <2> QED BY <1>1, <1>2, <1>6, <2>1, <2>2, <2>3, SwappedUnzips
<1> QED BY <1>4, <1>5, <1>6, WAssumption

(* Reversing the bytes of a word reverses those of its halves and exchanges *)
(* the halves.                                                              *)
LEMMA ReverseHalves ==
  /\ \A a \in Word : rev8(Hi(a)) = Lo(U64BIG[a]) /\ rev8(Lo(a)) = Hi(U64BIG[a])
  /\ \A hi, lo \in Half : U64BIG[Pair(hi, lo)] = Pair(rev8(lo), rev8(hi))
<1>1. /\ \A i \in HalfBits : /\ 8 * (W - 1 - (i \div 8)) + (i % 8)
                                  = 8 * (W \div 2 - 1 - (i \div 8)) + (i % 8) + 4 * W
                             /\ 8 * (W \div 2 - 1 - (i \div 8)) + (i % 8) \in HalfBits
                             /\ 8 * (W - 1 - ((i + 4 * W) \div 8)) + ((i + 4 * W) % 8)
                                  = 8 * (W \div 2 - 1 - (i \div 8)) + (i % 8)
                             /\ i \in Bits /\ i + 4 * W \in Bits
  BY WAssumption DEF HalfBits, Bits
<1>2. \A a \in Word : rev8(Hi(a)) = Lo(U64BIG[a]) /\ rev8(Lo(a)) = Hi(U64BIG[a])
  <2> TAKE a \in Word
  <2>1. \A i \in Bits : i \in U64BIG[a] <=> 8 * (W - 1 - (i \div 8)) + (i % 8) \in a
    BY DEF U64BIG
  <2>2. ASSUME NEW i \in HalfBits
        PROVE  /\ i \in rev8(Hi(a)) <=> i \in Lo(U64BIG[a])
               /\ i \in rev8(Lo(a)) <=> i \in Hi(U64BIG[a])
    BY <1>1, <2>1 DEF rev8, Lo, Hi
  <2>3. \A i : /\ i \in rev8(Hi(a)) \/ i \in rev8(Lo(a)) => i \in HalfBits
               /\ i \in Lo(U64BIG[a]) \/ i \in Hi(U64BIG[a]) => i \in HalfBits
    BY DEF rev8, Lo, Hi
  <2> QED BY <2>2, <2>3
<1>3. ASSUME NEW hi \in Half, NEW lo \in Half
      PROVE  U64BIG[Pair(hi, lo)] = Pair(rev8(lo), rev8(hi))
  <2> DEFINE p == Pair(hi, lo)
  <2>1. p \in Word /\ Lo(p) = lo /\ Hi(p) = hi
    BY PairType
  <2> HIDE DEF p
  <2>2. U64BIG[p] \in Word
    BY <2>1 DEF U64BIG, Word
  <2>3. \A y \in Word : Pair(Hi(y), Lo(y)) = y
    <3> TAKE y \in Word
    <3>1. \A i \in Bits : i \in HalfBits \/ (i - 4 * W \in HalfBits /\ i - 4 * W + 4 * W = i)
      BY WAssumption DEF Bits, HalfBits
    <3> QED BY <3>1 DEF Pair, Hi, Lo, Word
  <2> QED BY <1>2, <2>1, <2>2, <2>3 DEF p
<1> QED BY <1>2, <1>3

(* rv32 does by exchanges what rv32_zbkb does by zip and unzip. *)
LEMMA InterleaveSame ==
  \A a \in Word : /\ generic_deinterleave32(a) = zbkb_deinterleave32(a)
                  /\ generic_interleave32(a) = zbkb_interleave32(a)
<1> TAKE a \in Word
<1>1. generic_deinterleave32(a) = zbkb_deinterleave32(a)
  BY ReverseHalves, Interleave16, HalvesType DEF generic_deinterleave32, zbkb_deinterleave32
<1>2. \A y, z : pack(y, z) \in Half /\ zip(y) \in Half
  BY DEF pack, zip, Half
<1>3. generic_interleave32(a) = zbkb_interleave32(a)
  <2> DEFINE l == pack(Lo(a), Hi(a))
             h == pack(srli16(Lo(a)), srli16(Hi(a)))
  <2>1. generic_interleave32(a) = U64BIG[Pair(generic_interleave16(h), generic_interleave16(l))]
    BY DEF generic_interleave32
  <2>2. zbkb_interleave32(a) = Pair(rev8(zip(l)), rev8(zip(h)))
    BY DEF zbkb_interleave32
  <2>3. l \in Half /\ h \in Half
    BY <1>2
  <2> HIDE DEF l, h
  <2> QED BY <2>1, <2>2, <2>3, <1>2, Interleave16, ReverseHalves
<1> QED BY <1>1, <1>3

(* A word from memory stands for the word that the 64-bit builds make of    *)
(* it, and goes back to memory as theirs does.                              *)
LEMMA DeinterleaveMerge ==
  ASSUME NEW a \in Word
  PROVE  Merge(Lo(zbkb_deinterleave32(a)), Hi(zbkb_deinterleave32(a))) = U64BIG[a]
<1> DEFINE lo == unzip(Lo(U64BIG[a]))
           hi == unzip(Hi(U64BIG[a]))
           l == pack(lo, hi)
           h == pack(srli16(lo), srli16(hi))
<1>1. zbkb_deinterleave32(a) = Pair(h, l)
  BY ReverseHalves DEF zbkb_deinterleave32
<1>2. l \in Half /\ h \in Half
  BY DEF pack, Half
<1>3. Lo(Pair(h, l)) = l /\ Hi(Pair(h, l)) = h
  BY <1>2, PairType
<1> DEFINE b == U64BIG[a]
<1>4. b \in Word
  BY DEF U64BIG, Word
<1> HIDE DEF b
<1>5. \A i \in HalfBits : /\ i \in l <=> IF i < 2 * W THEN 2 * i \in Lo(b)
                                         ELSE 2 * (i - 2 * W) \in Hi(b)
                          /\ i \in h <=> IF i < 2 * W THEN 2 * i + 1 \in Lo(b)
                                         ELSE 2 * (i - 2 * W) + 1 \in Hi(b)
  <2> TAKE i \in HalfBits
  <2>0. \A y : y \in HalfBits => y \in Int
    BY DEF HalfBits
  <2>1. CASE i < 2 * W
    <3>1. i + 2 * W \in HalfBits /\ ~(i + 2 * W < 2 * W) /\ (i + 2 * W) - 2 * W = i
      BY <2>1, WAssumption DEF HalfBits
    <3>2. i \in l <=> 2 * i \in Lo(b)
      BY <2>1 DEF pack, unzip, b
    <3>3. i \in h <=> i + 2 * W \in lo
      BY <2>1, <3>1 DEF pack, srli16
    <3>4. i + 2 * W \in lo <=> 2 * i + 1 \in Lo(b)
      BY <3>1 DEF unzip, b
    <3> HIDE DEF l, h
    <3> QED BY <2>1, <3>2, <3>3, <3>4
  <2>2. CASE ~(i < 2 * W)
    <3>1. /\ i - 2 * W \in HalfBits /\ i - 2 * W < 2 * W /\ i - 2 * W + 2 * W = i
      BY <2>2, WAssumption DEF HalfBits
    <3>2. i \in l <=> 2 * (i - 2 * W) \in Hi(b)
      BY <2>2, <3>1 DEF pack, unzip, b
    <3>3. i \in h <=> i \in hi
      BY <2>2, <3>1 DEF pack, srli16
    <3>4. i \in hi <=> 2 * (i - 2 * W) + 1 \in Hi(b)
      BY <2>2 DEF unzip, b
    <3> HIDE DEF l, h
    <3> QED BY <2>2, <3>2, <3>3, <3>4
  <2> QED BY <2>1, <2>2
<1> HIDE DEF l, h
<1>6. ASSUME NEW k \in Bits PROVE k \in Merge(l, h) <=> k \in b
  <2>1. CASE k < 4 * W
    <3>1. /\ k \in HalfBits /\ k \div 2 \in HalfBits /\ k \div 2 < 2 * W
          /\ k % 2 = 0 => 2 * (k \div 2) = k
          /\ k % 2 = 1 => 2 * (k \div 2) + 1 = k
          /\ k % 2 = 0 \/ k % 2 = 1
      BY <2>1, WAssumption DEF Bits, HalfBits
    <3>2. k \in Lo(b) <=> k \in b
      BY <3>1 DEF Lo
    <3> QED BY <1>5, <3>1, <3>2, MergeMember
  <2>2. CASE ~(k < 4 * W)
    <3>1. /\ k \div 2 \in HalfBits /\ ~(k \div 2 < 2 * W)
          /\ k % 2 = 0 => 2 * ((k \div 2) - 2 * W) = k - 4 * W
          /\ k % 2 = 1 => 2 * ((k \div 2) - 2 * W) + 1 = k - 4 * W
          /\ k % 2 = 0 \/ k % 2 = 1
          /\ k - 4 * W \in HalfBits /\ k - 4 * W + 4 * W = k
      BY <2>2, WAssumption DEF Bits, HalfBits
    <3>2. k - 4 * W \in Hi(b) <=> k \in b
      BY <3>1 DEF Hi
    <3> QED BY <1>5, <3>1, <3>2, MergeMember
  <2> QED BY <2>1, <2>2
<1>7. Merge(l, h) \in Word
  BY MergeOps
<1>8. \A y, z \in Word : (\A k \in Bits : k \in y <=> k \in z) => y = z
  BY DEF Word
<1>9. Merge(l, h) = b
  BY <1>4, <1>6, <1>7, <1>8
<1> QED BY <1>1, <1>3, <1>9 DEF b

LEMMA InterleaveMerge ==
  ASSUME NEW a \in Word
  PROVE  zbkb_interleave32(a) = U64BIG[Merge(Lo(a), Hi(a))]
<1> DEFINE l == zip(pack(Lo(a), Hi(a)))
           h == zip(pack(srli16(Lo(a)), srli16(Hi(a))))
           m == Merge(Lo(a), Hi(a))
<1>1. zbkb_interleave32(a) = Pair(rev8(l), rev8(h))
  BY DEF zbkb_interleave32
<1>2. l \in Half /\ h \in Half
  BY DEF zip, Half
<1>3. zbkb_interleave32(a) = U64BIG[Pair(h, l)]
  BY <1>1, <1>2, ReverseHalves
<1>4. ASSUME NEW k \in Bits PROVE k \in Pair(h, l) <=> k \in m
  <2>0. k % 2 = 0 \/ k % 2 = 1
    BY DEF Bits
  <2>1. CASE k < 4 * W
    <3>1. /\ k \in HalfBits /\ k \div 2 \in HalfBits /\ k \div 2 < 2 * W
          /\ (k \div 2) + 0 = k \div 2
          /\ (k \div 2) + 2 * W \in HalfBits /\ ~((k \div 2) + 2 * W < 2 * W)
          /\ ((k \div 2) + 2 * W) - 2 * W = k \div 2
      BY <2>1, WAssumption DEF Bits, HalfBits
    <3>2. k \in Pair(h, l) <=> k \in l
      <4>1. \A y \in Half : \A i \in y : i \in Int /\ i >= 0
        BY WAssumption DEF Half, HalfBits
      <4>2. \A i \in h : k # i + 4 * W
        BY <4>1, <1>2, <2>1, WAssumption DEF Bits
      <4> HIDE DEF h, l
      <4> QED BY <4>2 DEF Pair
    <3>3. k \in l <=> k \div 2 \in (IF k % 2 = 0 THEN Lo(a) ELSE Hi(a))
      <4>1. k % 2 = 0 => (k \in l <=> k \div 2 \in pack(Lo(a), Hi(a)))
        BY <3>1 DEF zip
      <4>2. k % 2 = 1 => (k \in l <=> (k \div 2) + 2 * W \in pack(Lo(a), Hi(a)))
        BY <3>1 DEF zip
      <4>3. k \div 2 \in pack(Lo(a), Hi(a)) <=> k \div 2 \in Lo(a)
        BY <3>1 DEF pack
      <4>4. (k \div 2) + 2 * W \in pack(Lo(a), Hi(a)) <=> k \div 2 \in Hi(a)
        <5>1. \A y, z : \A i \in HalfBits :
                ~(i < 2 * W) => (i \in pack(y, z) <=> i - 2 * W \in z)
          BY DEF pack
        <5> HIDE DEF l
        <5> QED BY <3>1, <5>1
      <4> HIDE DEF l
      <4> QED BY <2>0, <4>1, <4>2, <4>3, <4>4
    <3> QED BY <3>2, <3>3, <2>0 DEF Merge
  <2>2. CASE ~(k < 4 * W)
    <3> DEFINE j == k - 4 * W
    <3>1. /\ j \in HalfBits /\ k \notin HalfBits /\ j + 4 * W = k
          /\ k \div 2 \in HalfBits /\ (j \div 2) + 2 * W = k \div 2 /\ j % 2 = k % 2
          /\ j \div 2 \in HalfBits /\ j \div 2 < 2 * W /\ (j \div 2) + 0 = j \div 2
          /\ ~(k \div 2 < 2 * W)
          /\ (k \div 2) - 2 * W = j \div 2
      BY <2>2, WAssumption DEF Bits, HalfBits
    <3> HIDE DEF j
    <3>2. k \in Pair(h, l) <=> j \in h
      <4>1. \A y \in Half : \A i \in y : i \in HalfBits /\ i \in Int
        BY WAssumption DEF Half, HalfBits
      <4>2. \A i \in HalfBits : i + 4 * W = k => i = j
        BY <3>1, WAssumption DEF Bits, HalfBits
      <4>3. k \notin l
        BY <3>1, <4>1, <1>2
      <4>4. \A i \in h : i \in HalfBits
        BY <1>2, <4>1
      <4> HIDE DEF h, l
      <4> QED BY <3>1, <4>2, <4>3, <4>4 DEF Pair
    <3>3. j \in h <=> k \div 2 \in (IF k % 2 = 0 THEN Lo(a) ELSE Hi(a))
      <4>1. CASE k % 2 = 0
        <5>1. j \in h <=> j \div 2 \in pack(srli16(Lo(a)), srli16(Hi(a)))
          BY <3>1, <4>1 DEF zip
        <5>2. j \div 2 \in pack(srli16(Lo(a)), srli16(Hi(a))) <=> j \div 2 \in srli16(Lo(a))
          BY <3>1 DEF pack
        <5>3. j \div 2 \in srli16(Lo(a)) <=> k \div 2 \in Lo(a)
          BY <3>1 DEF srli16
        <5> QED BY <4>1, <5>1, <5>2, <5>3
      <4>2. CASE k % 2 = 1
        <5>1. j \in h <=> k \div 2 \in pack(srli16(Lo(a)), srli16(Hi(a)))
          BY <3>1, <4>2 DEF zip
        <5>2. k \div 2 \in pack(srli16(Lo(a)), srli16(Hi(a))) <=> j \div 2 \in srli16(Hi(a))
          BY <3>1 DEF pack
        <5>3. j \div 2 \in srli16(Hi(a)) <=> k \div 2 \in Hi(a)
          BY <3>1 DEF srli16
        <5> QED BY <4>2, <5>1, <5>2, <5>3
      <4> QED BY <2>0, <4>1, <4>2
    <3> QED BY <3>2, <3>3, <2>0 DEF Merge
  <2> QED BY <2>1, <2>2
<1>5. Pair(h, l) \in Word /\ m \in Word
  BY <1>2, PairType, MergeOps
<1>6. \A y, z \in Word : (\A k \in Bits : k \in y <=> k \in z) => y = z
  BY DEF Word
<1>7. Pair(h, l) = m
  BY <1>4, <1>5, <1>6
<1> QED BY <1>3, <1>7

LEMMA BigType == \A a \in Word : U64BIG[a] \in Word
  BY DEF U64BIG, Word

LEMMA StandardType == \A a \in Word : Standard(a) \in Word
  BY MergeOps DEF Standard

(* A word loaded stands for the same word in every build, and is stored     *)
(* alike.                                                                   *)
LEMMA StandardExchange ==
  \A a \in Word : /\ Standard(inbound_word(a)) = U64BIG[a]
                  /\ outbound_word(a) = U64BIG[Standard(a)]
<1> TAKE a \in Word
<1>0. U64BIG[a] \in Word
  BY BigType
<1>1. CASE TARGET_ARCH \in BI32
  <2>1. TARGET_ARCH = "rv32_zbkb" \/ TARGET_ARCH = "rv32"
    BY <1>1 DEF BI32
  <2>2. inbound_word(a) = zbkb_deinterleave32(a)
    BY <1>1, <2>1, InterleaveSame DEF inbound_word
  <2>3. outbound_word(a) = zbkb_interleave32(a)
    BY <1>1, <2>1, InterleaveSame DEF outbound_word
  <2>4. \A y : Standard(y) = Merge(Lo(y), Hi(y))
    BY <1>1 DEF Standard
  <2> QED BY <2>2, <2>3, <2>4, DeinterleaveMerge, InterleaveMerge
<1>2. CASE TARGET_ARCH \notin BI32
  <2>1. TARGET_ARCH # "rv32_zbkb" /\ TARGET_ARCH # "rv32"
    BY <1>2 DEF BI32
  <2>2. inbound_word(a) = U64BIG[a] /\ outbound_word(a) = U64BIG[a]
    BY <1>2, <2>1 DEF inbound_word, outbound_word
  <2>3. \A y : Standard(y) = y
    BY <1>2 DEF Standard
  <2> QED BY <2>2, <2>3
<1> QED BY <1>1, <1>2

LEMMA StandardXor ==
  \A a, b : Standard(XOR(a, b)) = XOR(Standard(a), Standard(b))
<1> TAKE a, b
<1>1. Lo(XOR(a, b)) = XOR(Lo(a), Lo(b)) /\ Hi(XOR(a, b)) = XOR(Hi(a), Hi(b))
  BY DEF Lo, Hi, XOR
<1>2. Merge(Lo(XOR(a, b)), Hi(XOR(a, b))) = XOR(Merge(Lo(a), Hi(a)), Merge(Lo(b), Hi(b)))
  BY <1>1, MergeOps
<1> QED BY <1>2 DEF Standard

(* Bit k of the word that a stands for. *)
LEMMA StandardMember ==
  ASSUME NEW a, NEW k \in Bits, TARGET_ARCH \in BI32
  PROVE  /\ k % 2 = 0 \/ k % 2 = 1
         /\ k \div 2 \in HalfBits
         /\ k % 2 = 0 => (k \in Standard(a) <=> k \div 2 \in a)
         /\ k % 2 = 1 => (k \in Standard(a) <=> (k \div 2) + 4 * W \in a)
<1>1. k \div 2 \in HalfBits
  BY WAssumption DEF Bits, HalfBits
<1>2. Standard(a) = Merge(Lo(a), Hi(a))
  BY DEF Standard
<1>3. k \div 2 \in Lo(a) <=> k \div 2 \in a
  BY <1>1 DEF Lo
<1>4. k \div 2 \in Hi(a) <=> (k \div 2) + 4 * W \in a
  BY <1>1 DEF Hi
<1> QED BY <1>1, <1>2, <1>3, <1>4, MergeMember

LEMMA StandardClear ==
  ASSUME NEW a \in Word, NEW n \in 0..W
  PROVE  Standard(CLEAR_N(a, n)) = {i \in Standard(a) : i < 8 * (W - n)}
<1>1. CASE TARGET_ARCH \in BI32
  <2> DEFINE c == CLEAR_N(a, n)
  <2>1. c \in Word /\ Standard(c) \in Word /\ Standard(a) \in Word
    BY ClearType, StandardType
  <2>2. ASSUME NEW k \in Bits
        PROVE  k \in Standard(c) <=> k \in Standard(a) /\ k < 8 * (W - n)
    <3>1. /\ k \div 2 \in HalfBits /\ ((k \div 2) % (4 * W)) = k \div 2
          /\ (((k \div 2) + 4 * W) % (4 * W)) = k \div 2
          /\ k \div 2 < 4 * W - 4 * n <=> k < 8 * (W - n)
      BY WAssumption DEF Bits, HalfBits
    <3>2. \A i : i \in c <=> i \in a /\ i % (4 * W) < 4 * W - 4 * n
      BY <1>1 DEF CLEAR_N
    <3> HIDE DEF c
    <3>3. k \div 2 \in c <=> k \div 2 \in a /\ k < 8 * (W - n)
      BY <3>1, <3>2
    <3>4. (k \div 2) + 4 * W \in c <=> (k \div 2) + 4 * W \in a /\ k < 8 * (W - n)
      BY <3>1, <3>2
    <3> QED BY <1>1, <3>3, <3>4, StandardMember
  <2> HIDE DEF c
  <2>3. Standard(c) = {i \in Standard(a) : i < 8 * (W - n)}
    BY <2>1, <2>2 DEF Word
  <2> QED BY <2>3 DEF c
<1>2. CASE TARGET_ARCH \notin BI32
  BY <1>2 DEF Standard, CLEAR_N
<1> QED BY <1>1, <1>2

LEMMA StandardBit ==
  ASSUME TARGET_ARCH \in BI32, NEW j \in Bits, NEW b \in Bits,
         j < 4 * W => b = 2 * j, ~(j < 4 * W) => b = 2 * (j - 4 * W) + 1
  PROVE  Standard({j}) = {b}
<1>1. {j} \in Word /\ {b} \in Word
  BY DEF Word
<1>2. ASSUME NEW k \in Bits PROVE k \in Standard({j}) <=> k = b
  <2>1. k % 2 = 0 => (k \div 2 = j <=> k = b)
    BY WAssumption DEF Bits
  <2>2. k % 2 = 1 => ((k \div 2) + 4 * W = j <=> k = b)
    BY WAssumption DEF Bits
  <2> QED BY <2>1, <2>2, StandardMember
<1>3. Standard({j}) \in Word
  BY <1>1, StandardType
<1> QED BY <1>1, <1>2, <1>3 DEF Word

LEMMA StandardBits ==
  /\ \A n \in 0..(W - 1) : Standard(PAD(n)) = {8 * (W - n) - 1}
  /\ Standard({}) = {} /\ Standard({0}) = {0} /\ Standard({8 * W - 1}) = {8 * W - 1}
<1>1. Standard({}) = {}
  BY DEF Standard, Merge, Lo, Hi
<1>2. 0 \in Bits /\ 8 * W - 1 \in Bits /\ 0 < 4 * W /\ 2 * 0 = 0
      /\ ~(8 * W - 1 < 4 * W) /\ 2 * (8 * W - 1 - 4 * W) + 1 = 8 * W - 1
  BY WAssumption DEF Bits
<1>3. Standard({0}) = {0} /\ Standard({8 * W - 1}) = {8 * W - 1}
  <2>1. CASE TARGET_ARCH \in BI32
    BY <1>2, <2>1, StandardBit
  <2>2. CASE TARGET_ARCH \notin BI32
    BY <2>2 DEF Standard
  <2> QED BY <2>1, <2>2
<1>4. ASSUME NEW n \in 0..(W - 1) PROVE Standard(PAD(n)) = {8 * (W - n) - 1}
  <2>1. CASE TARGET_ARCH \in BI32
    <3> DEFINE j == 8 * W - 1 - 4 * n
               b == 8 * (W - n) - 1
    <3>1. j \in Bits /\ b \in Bits /\ ~(j < 4 * W) /\ b = 2 * (j - 4 * W) + 1
      BY WAssumption DEF Bits
    <3>2. PAD(n) = {j}
      BY <2>1 DEF PAD
    <3> HIDE DEF j, b
    <3>3. Standard({j}) = {b}
      BY <2>1, <3>1, StandardBit
    <3> QED BY <3>2, <3>3 DEF b
  <2>2. CASE TARGET_ARCH \notin BI32
    BY <2>2 DEF Standard, PAD
  <2> QED BY <2>1, <2>2
<1> QED BY <1>1, <1>3, <1>4

LEMMA ByteOfNat ==
  ASSUME NEW v \in Nat, NEW b \in 0..7
  PROVE  b \in ByteOf(v) <=> \/ b = 0 /\ v % 2 = 1
                             \/ b = 1 /\ (v \div 2) % 2 = 1
                             \/ b = 2 /\ (v \div 4) % 2 = 1
                             \/ b = 3 /\ (v \div 8) % 2 = 1
                             \/ b = 4 /\ (v \div 16) % 2 = 1
                             \/ b = 5 /\ (v \div 32) % 2 = 1
                             \/ b = 6 /\ (v \div 64) % 2 = 1
                             \/ b = 7 /\ (v \div 128) % 2 = 1
<1>1. b = 0 \/ b = 1 \/ b = 2 \/ b = 3 \/ b = 4 \/ b = 5 \/ b = 6 \/ b = 7
  OBVIOUS
<1> QED BY <1>1, ByteOfBits

(* A literal with the even and the odd bits of w in its halves stands for w. *)
LEMMA StandardLiteral ==
  ASSUME NEW v, NEW w, TARGET_ARCH \in BI32,
         \A k \in Bits :
           /\ k % 2 = 0 => ((k \div 2) % 8 \in ByteOf(v[(W \div 2) - ((k \div 2) \div 8) + 4])
                              <=> k % 8 \in ByteOf(w[W - (k \div 8)]))
           /\ k % 2 = 1 => ((k \div 2) % 8 \in ByteOf(v[(W \div 2) - ((k \div 2) \div 8)])
                              <=> k % 8 \in ByteOf(w[W - (k \div 8)]))
  PROVE  Standard(BILiteral(v)) = Literal(w)
<1>1. Literal(w) \in Word /\ BILiteral(v) \in Word
  BY DEF Literal, BILiteral, Word
<1>2. ASSUME NEW k \in Bits PROVE k \in Standard(BILiteral(v)) <=> k \in Literal(w)
  <2>1. /\ k \div 2 \in Bits /\ k \div 2 < 4 * W /\ (k \div 2) % (4 * W) = k \div 2
        /\ (k \div 2) + 4 * W \in Bits /\ ~((k \div 2) + 4 * W < 4 * W)
        /\ ((k \div 2) + 4 * W) % (4 * W) = k \div 2
        /\ ((k \div 2) + 4 * W) % 8 = (k \div 2) % 8
    <3> DEFINE j == k \div 2
    <3>1. j \in 0..(4 * W - 1) /\ 4 * W \in {8, 16, 32}
      BY WAssumption DEF Bits
    <3> HIDE DEF j
    <3>2. /\ j \in Bits /\ j < 4 * W /\ j + 4 * W \in Bits /\ ~(j + 4 * W < 4 * W)
      BY <3>1, WAssumption DEF Bits
    <3>3. /\ j % (4 * W) = j /\ (j + 4 * W) % (4 * W) = j /\ (j + 4 * W) % 8 = j % 8
      BY <3>1, WAssumption
    <3> QED BY <3>2, <3>3 DEF j
  <2>2. k \in Literal(w) <=> k % 8 \in ByteOf(w[W - (k \div 8)])
    BY DEF Literal
  <2> DEFINE In(i) == LET n == (W \div 2) - ((i % (4 * W)) \div 8)
                      IN  (i % 8) \in ByteOf(v[IF i < 4 * W THEN n + 4 ELSE n])
  <2>3. \A i \in Bits : i \in BILiteral(v) <=> In(i)
    BY DEF BILiteral
  <2>4. /\ In(k \div 2) <=> (k \div 2) % 8
                              \in ByteOf(v[(W \div 2) - ((k \div 2) \div 8) + 4])
        /\ In((k \div 2) + 4 * W) <=> (k \div 2) % 8
                                        \in ByteOf(v[(W \div 2) - ((k \div 2) \div 8)])
    BY <2>1
  <2> HIDE DEF In
  <2>5. /\ k \div 2 \in BILiteral(v) <=> In(k \div 2)
        /\ (k \div 2) + 4 * W \in BILiteral(v) <=> In((k \div 2) + 4 * W)
    BY <2>1, <2>3
  <2> QED BY <2>2, <2>4, <2>5, StandardMember
<1>3. Standard(BILiteral(v)) \in Word
  BY <1>1, StandardType
<1> QED BY <1>1, <1>2, <1>3 DEF Word

(* The initial values of Ascon-128 and Ascon-128a. *)
LEMMA InitialValue128 ==
  ASSUME TARGET_ARCH \in BI32
  PROVE  Standard(BILiteral(<<128, 33, 0, 0, 8, 34, 0, 0>>))
           = Literal(<<128, 64, 12, 6, 0, 0, 0, 0>>)
<1> DEFINE v == <<128, 33, 0, 0, 8, 34, 0, 0>>
           w == <<128, 64, 12, 6, 0, 0, 0, 0>>
           V(p, b) == \/ p = 1 /\ b \in {7}
                      \/ p = 2 /\ b \in {0, 5}
                      \/ p = 5 /\ b \in {3}
                      \/ p = 6 /\ b \in {1, 5}
           X(p, b) == \/ p = 1 /\ b \in {7}
                      \/ p = 2 /\ b \in {6}
                      \/ p = 3 /\ b \in {2, 3}
                      \/ p = 4 /\ b \in {1, 2}
<1>1. /\ v[1] = 128 /\ v[2] = 33 /\ v[3] = 0 /\ v[4] = 0
      /\ v[5] = 8 /\ v[6] = 34 /\ v[7] = 0 /\ v[8] = 0
      /\ w[1] = 128 /\ w[2] = 64 /\ w[3] = 12 /\ w[4] = 6
      /\ w[5] = 0 /\ w[6] = 0 /\ w[7] = 0 /\ w[8] = 0
  OBVIOUS
<1> HIDE DEF v, w
<1>2. \A p \in 1..8 : p = 1 \/ p = 2 \/ p = 3 \/ p = 4 \/ p = 5 \/ p = 6 \/ p = 7 \/ p = 8
  OBVIOUS
<1>3. ASSUME NEW b \in 0..7
      PROVE  /\ b \in ByteOf(0) <=> FALSE
             /\ b \in ByteOf(6) <=> b \in {1, 2}
             /\ b \in ByteOf(8) <=> b \in {3}
             /\ b \in ByteOf(12) <=> b \in {2, 3}
             /\ b \in ByteOf(33) <=> b \in {0, 5}
             /\ b \in ByteOf(34) <=> b \in {1, 5}
             /\ b \in ByteOf(64) <=> b \in {6}
             /\ b \in ByteOf(128) <=> b \in {7}
  BY ByteOfNat
<1>4. ASSUME NEW p \in 1..8, NEW b \in 0..7
      PROVE  /\ b \in ByteOf(v[p]) <=> V(p, b)
             /\ b \in ByteOf(w[p]) <=> X(p, b)
  BY <1>1, <1>2, <1>3
<1>5. ASSUME NEW k \in Bits
      PROVE  /\ k % 2 = 0 => ((k \div 2) % 8 \in ByteOf(v[(W \div 2) - ((k \div 2) \div 8) + 4])
                                <=> k % 8 \in ByteOf(w[W - (k \div 8)]))
             /\ k % 2 = 1 => ((k \div 2) % 8 \in ByteOf(v[(W \div 2) - ((k \div 2) \div 8)])
                                <=> k % 8 \in ByteOf(w[W - (k \div 8)]))
  <2> DEFINE p == (W \div 2) - ((k \div 2) \div 8)
             q == W - (k \div 8)
             b == (k \div 2) % 8
             c == k % 8
  <2>1. p \in 1..4 /\ q \in 1..8 /\ b \in 0..7 /\ c \in 0..7 /\ p + 4 \in 1..8 /\ p \in 1..8
    BY WAssumption DEF Bits
  <2>2. /\ k % 2 = 0 => (V(p + 4, b) <=> X(q, c))
        /\ k % 2 = 1 => (V(p, b) <=> X(q, c))
    BY WAssumption DEF Bits
  <2> HIDE DEF p, q, b, c, V, X
  <2>3. /\ k % 2 = 0 => (b \in ByteOf(v[p + 4]) <=> c \in ByteOf(w[q]))
        /\ k % 2 = 1 => (b \in ByteOf(v[p]) <=> c \in ByteOf(w[q]))
    BY <1>4, <2>1, <2>2
  <2> QED BY <2>3 DEF p, q, b, c
<1> QED BY <1>5, StandardLiteral DEF v, w

LEMMA InitialValue128a ==
  ASSUME TARGET_ARCH \in BI32
  PROVE  Standard(BILiteral(<<136, 34, 0, 0, 0, 32, 0, 0>>))
           = Literal(<<128, 128, 12, 8, 0, 0, 0, 0>>)
<1> DEFINE v == <<136, 34, 0, 0, 0, 32, 0, 0>>
           w == <<128, 128, 12, 8, 0, 0, 0, 0>>
           V(p, b) == \/ p = 1 /\ b \in {3, 7}
                      \/ p = 2 /\ b \in {1, 5}
                      \/ p = 6 /\ b \in {5}
           X(p, b) == \/ p = 1 /\ b \in {7}
                      \/ p = 2 /\ b \in {7}
                      \/ p = 3 /\ b \in {2, 3}
                      \/ p = 4 /\ b \in {3}
<1>1. /\ v[1] = 136 /\ v[2] = 34 /\ v[3] = 0 /\ v[4] = 0
      /\ v[5] = 0 /\ v[6] = 32 /\ v[7] = 0 /\ v[8] = 0
      /\ w[1] = 128 /\ w[2] = 128 /\ w[3] = 12 /\ w[4] = 8
      /\ w[5] = 0 /\ w[6] = 0 /\ w[7] = 0 /\ w[8] = 0
  OBVIOUS
<1> HIDE DEF v, w
<1>2. \A p \in 1..8 : p = 1 \/ p = 2 \/ p = 3 \/ p = 4 \/ p = 5 \/ p = 6 \/ p = 7 \/ p = 8
  OBVIOUS
<1>3. ASSUME NEW b \in 0..7
      PROVE  /\ b \in ByteOf(0) <=> FALSE
             /\ b \in ByteOf(8) <=> b \in {3}
             /\ b \in ByteOf(12) <=> b \in {2, 3}
             /\ b \in ByteOf(32) <=> b \in {5}
             /\ b \in ByteOf(34) <=> b \in {1, 5}
             /\ b \in ByteOf(128) <=> b \in {7}
             /\ b \in ByteOf(136) <=> b \in {3, 7}
  BY ByteOfNat
<1>4. ASSUME NEW p \in 1..8, NEW b \in 0..7
      PROVE  /\ b \in ByteOf(v[p]) <=> V(p, b)
             /\ b \in ByteOf(w[p]) <=> X(p, b)
  BY <1>1, <1>2, <1>3
<1>5. ASSUME NEW k \in Bits
      PROVE  /\ k % 2 = 0 => ((k \div 2) % 8 \in ByteOf(v[(W \div 2) - ((k \div 2) \div 8) + 4])
                                <=> k % 8 \in ByteOf(w[W - (k \div 8)]))
             /\ k % 2 = 1 => ((k \div 2) % 8 \in ByteOf(v[(W \div 2) - ((k \div 2) \div 8)])
                                <=> k % 8 \in ByteOf(w[W - (k \div 8)]))
  <2> DEFINE p == (W \div 2) - ((k \div 2) \div 8)
             q == W - (k \div 8)
             b == (k \div 2) % 8
             c == k % 8
  <2>1. p \in 1..4 /\ q \in 1..8 /\ b \in 0..7 /\ c \in 0..7 /\ p + 4 \in 1..8 /\ p \in 1..8
    BY WAssumption DEF Bits
  <2>2. /\ k % 2 = 0 => (V(p + 4, b) <=> X(q, c))
        /\ k % 2 = 1 => (V(p, b) <=> X(q, c))
    BY WAssumption DEF Bits
  <2> HIDE DEF p, q, b, c, V, X
  <2>3. /\ k % 2 = 0 => (b \in ByteOf(v[p + 4]) <=> c \in ByteOf(w[q]))
        /\ k % 2 = 1 => (b \in ByteOf(v[p]) <=> c \in ByteOf(w[q]))
    BY <1>4, <2>1, <2>2
  <2> QED BY <2>3 DEF p, q, b, c
<1> QED BY <1>5, StandardLiteral DEF v, w

==============================================================================
