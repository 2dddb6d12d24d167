--------------------------- MODULE IsapAead_proofs ---------------------------
(***************************************************************************)
(* Theorems about IsapAead for every word size, both variants, every       *)
(* build, every memory size and every sequence of calls: types, what a     *)
(* call writes, that no unverified text is ever written, that a call ends, *)
(* that every build does what the 64-bit code does, which functions of     *)
(* their arguments the calls compute, and that they are the ideal scheme   *)
(* of module Aead as long as nothing is forged.                            *)
(***************************************************************************)
EXTENDS IsapBuilds, Callers_proofs, AsconPermutation_proofs

------------------------------------------------------------------------------
(* Types of the pieces of a step. *)

LEMMA IsapLoadType == \A bytes, p : LOAD(bytes, p) \in Word
<1> TAKE bytes, p
<1> DEFINE in == {i \in Bits : (i % 8) \in bytes[p + (i \div 8)]}
<1>1. in \in Word
  BY DEF Word
<1>2. \A a, b, c, d : Pair(pack(a, b), pack(c, d)) \in Word
  BY PairType DEF pack, Half
<1> HIDE DEF in
<1>3. LOAD_SWAP_DEINTERLEAVE_32(in) \in Word
  BY <1>2 DEF LOAD_SWAP_DEINTERLEAVE_32
<1> QED BY <1>1, <1>3, BigType DEF LOAD, in

LEMMA AddWordType ==
  ASSUME NEW s \in State, NEW i \in 0..4, NEW w \in Word
  PROVE  AddWord(s, i, w) \in State
  BY XorType DEF AddWord, State

LEMMA PermType ==
  ASSUME NEW s \in State
  PROVE  PERM(sH, s) \in State /\ PERM(sB, s) \in State /\ PERM(sE, s) \in State
         /\ PERM(sK, s) \in State
<1>1. 11 \in 0..11
  OBVIOUS
<1>2. P12(s) \in State /\ P6(s) \in State /\ Round(11)[s] \in State
  BY <1>1, PermutationType, RoundType
<1>3. 12 # 6 /\ 12 # 1 /\ 6 # 12 /\ 6 # 1 /\ 1 # 12 /\ 1 # 6
  OBVIOUS
<1>4. PERM(12, s) \in State /\ PERM(6, s) \in State /\ PERM(1, s) \in State
  BY <1>2, <1>3, Zenon DEF PERM
<1> QED BY <1>4 DEF sH, sB, sE, sK

LEMMA RkStateType == \A iv : RkState(iv) \in State
<1> TAKE iv
<1> DEFINE s == [i \in 0..4 |-> CASE i = 0 -> LOAD(call.key, 0) [] i = 1 -> LOAD(call.key, W)
                                  [] i = 2 -> LOAD(iv, 0) [] i \in {3, 4} -> {}]
<1>1. {} \in Word
  BY DEF Word
<1>2. s \in State
  BY <1>1, IsapLoadType DEF State
<1> HIDE DEF s
<1>3. PERM(sK, s) \in State
  BY <1>2, PermType
<1> QED BY <1>3 DEF RkState, s

LEMMA BitType ==
  ASSUME NEW s \in State PROVE AbsorbBit(s) \in State
<1>1. {TopBit} \in Word
  BY WAssumption DEF TopBit, Word, Bits
<1> QED BY <1>1, AddWordType DEF AbsorbBit

LEMMA AbsorbLastType ==
  ASSUME x \in State, NEW n PROVE AbsorbLast(n) \in State
<1>1. {TopBit} \in Word
  BY WAssumption DEF TopBit, Word, Bits
<1>2. PaddedLane(n) \in Word
  BY <1>1, IsapLoadType DEF PaddedLane
<1>3. AddWord(x, 0, PaddedLane(n)) \in State
  BY <1>2, AddWordType
<1> QED BY <1>3, PermType DEF AbsorbLast

(* What the next n bytes of text, and a tag, do to memory. *)
LEMMA XorTextType ==
  ASSUME TypeOK, NEW w, NEW n \in Nat, pos + n <= call.len
  PROVE  /\ XorText(w, n) \in [Addr -> Byte]
         /\ \A a \in Addr : a \notin Region(call.dst + pos, n) => XorText(w, n)[a] = mem[a]
<1>1. ASSUME NEW a \in Region(call.dst + pos, n)
      PROVE  mem[call.src + pos + (a - (call.dst + pos))] \in Byte
  <2>1. /\ call.src \in Nat /\ call.dst \in Nat /\ call.len \in Nat /\ pos \in Nat
        /\ call.src + call.len <= MemSize
    BY DEF TypeOK, IsCall
  <2>2. a \in Int /\ call.dst + pos <= a /\ a <= call.dst + pos + n - 1
    BY <2>1 DEF Region
  <2>3. call.src + pos + (a - (call.dst + pos)) \in Addr
    BY <2>1, <2>2, MemAssumption DEF Addr
  <2> QED BY <2>3 DEF TypeOK
<1>2. \A j : OutByte(OUT(w), j) \in Byte
  BY DEF OutByte, Byte
<1>3. \A b, c \in Byte : XOR(b, c) \in Byte
  BY DEF XOR, Byte
<1>4. \A a \in Addr : mem[a] \in Byte
  BY DEF TypeOK
<1>5. XorText(w, n) = [a \in Addr |->
        IF a \in Region(call.dst + pos, n)
          THEN XOR(mem[call.src + pos + (a - (call.dst + pos))],
                   OutByte(OUT(w), a - (call.dst + pos)))
          ELSE mem[a]]
  BY DEF XorText
<1> QED BY <1>1, <1>2, <1>3, <1>4, <1>5

LEMMA TagType ==
  ASSUME NEW D, NEW m \in [D -> Byte], NEW p, NEW s
  PROVE  /\ Tag(m, p, s) \in [D -> Byte]
         /\ \A a \in D : a \notin Region(p, TagLen) => Tag(m, p, s)[a] = m[a]
<1>1. \A w, j : OutByte(w, j) \in Byte
  BY DEF OutByte, Byte
<1> QED BY <1>1 DEF Tag

(* A squeeze of n bytes, as the invariants need it. *)
LEMMA SqueezeStep ==
  ASSUME TypeOK, NEW n \in Nat, pos + n <= call.len, Squeeze(n)
  PROVE  /\ x' \in State /\ mem' \in [Addr -> Byte] /\ pos' = pos + n
         /\ \A a \in Addr : a \notin Region(call.dst + pos, n) => mem'[a] = mem[a]
<1>1. PERM(sE, x) \in State
  BY PermType DEF TypeOK
<1> QED BY <1>1, XorTextType DEF Squeeze

LEMMA EncKeyType ==
  ASSUME TypeOK, EncKey PROVE x' \in State /\ rk' \in State
<1>1. rk' \in State
  BY BitType, PermType DEF TypeOK, EncKey, LastRkState
<1>2. \A i \in 0..2 : rk'[i] \in Word
  BY <1>1 DEF State
<1>3. x' = [i \in 0..4 |-> CASE i \in {0, 1, 2} -> rk'[i]
                            [] i = 3 -> LOAD(call.nonce, 0)
                            [] i = 4 -> LOAD(call.nonce, W)]
  BY Zenon DEF EncKey
<1>4. x' \in State
  BY <1>2, <1>3, IsapLoadType DEF State
<1> QED BY <1>1, <1>4

LEMMA MacStartType ==
  ASSUME MacStart PROVE x' \in State
<1> DEFINE s == [i \in 0..4 |-> CASE i = 0 -> LOAD(call.nonce, 0)
                                  [] i = 1 -> LOAD(call.nonce, W)
                                  [] i = 2 -> LOAD(ISAP_IV(1), 0)
                                  [] i \in {3, 4} -> {}]
<1>1. {} \in Word
  BY DEF Word
<1>2. s \in State
  BY <1>1, IsapLoadType DEF State
<1>3. x' = PERM(sH, s)
  BY Zenon DEF MacStart
<1> HIDE DEF s
<1> QED BY <1>2, <1>3, PermType

LEMMA MacTagType ==
  ASSUME TypeOK, MacTag PROVE x' \in State /\ rk' \in State
<1>1. rk' \in State
  BY BitType, PermType DEF TypeOK, MacTag, LastRkState
<1> DEFINE s == [x EXCEPT ![0] = rk'[0], ![1] = rk'[1]]
<1>2. s \in State
  BY <1>1 DEF TypeOK, State
<1>3. x' = PERM(sH, s)
  BY DEF MacTag
<1> HIDE DEF s
<1> QED BY <1>1, <1>2, <1>3, PermType

------------------------------------------------------------------------------

LEMMA TypeStep == TypeOK /\ [Next]_vars => TypeOK'
<1> SUFFICES ASSUME TypeOK, [Next]_vars PROVE TypeOK'
  OBVIOUS
<1>0. W \in Nat /\ W > 0 /\ LastBit \in Nat
  BY WAssumption DEF LastBit
<1> USE DEF TypeOK
<1>1. CASE EncryptStart
  <2>1. rk' \in State /\ bit' \in 0..LastBit
    BY <1>0, <1>1, RkStateType DEF EncryptStart, EnterEnc
  <2> QED BY <1>1, <2>1 DEF EncryptStart, EnterEnc, IsCall
<1>2. CASE RkBit
  <2>1. rk' \in State
    BY <1>2, BitType, PermType DEF RkBit
  <2>2. bit' \in 0..LastBit
    BY <1>0, <1>2 DEF RkBit
  <2> QED BY <1>2, <2>1, <2>2 DEF RkBit
<1>3. CASE EncKey
  BY <1>3, EncKeyType DEF EncKey
<1>4. CASE SqueezeLane
  <2>1. pos + W <= call.len
    BY <1>0, <1>4 DEF SqueezeLane, IsCall
  <2>2. x' \in State /\ mem' \in [Addr -> Byte] /\ pos' = pos + W
    BY <1>0, <1>4, <2>1, SqueezeStep DEF SqueezeLane
  <2>3. pos' \in 0..call.len
    BY <1>0, <2>1, <2>2
  <2> QED BY <1>4, <2>2, <2>3 DEF SqueezeLane
<1>5. CASE SqueezeLast
  <2>1. x' \in State /\ mem' \in [Addr -> Byte] /\ pos' \in 0..call.len
    <3>1. CASE call.len > pos
      <4>1. call.len - pos \in Nat /\ pos + (call.len - pos) <= call.len
        BY <3>1 DEF IsCall
      <4>2. x' \in State /\ mem' \in [Addr -> Byte] /\ pos' = pos + (call.len - pos)
        BY <1>5, <3>1, <4>1, SqueezeStep DEF SqueezeLast
      <4> QED BY <4>2 DEF IsCall
    <3>2. CASE ~(call.len > pos)
      BY <1>5, <3>2 DEF SqueezeLast
    <3> QED BY <3>1, <3>2
  <2> QED BY <1>5, <2>1 DEF SqueezeLast, IsCall
<1>6. CASE MacStart
  <2>1. x' \in State
    BY <1>6, MacStartType
  <2>2. absorbed = 0 /\ 0 <= call.adlen /\ pc' = "ad"
    BY <1>6 DEF MacStart, IsCall
  <2>3. UNCHANGED <<mem, call, rk, bit, absorbed, pos, ret, entryMem>>
    BY <1>6 DEF MacStart
  <2> QED BY <2>1, <2>2, <2>3
<1>7. CASE AbsorbLane
  <2>1. x' \in State
    BY <1>7, IsapLoadType, AddWordType, PermType DEF AbsorbLane
  <2>2. /\ absorbed' \in Nat
        /\ pc = "ad" => absorbed' <= call.adlen
        /\ pc = "ct" => absorbed' <= call.len
    BY <1>0, <1>7 DEF AbsorbLane, SourceLen, IsCall
  <2> QED BY <1>7, <2>1, <2>2 DEF AbsorbLane
<1>8. CASE AbsorbLastAd
  <2>1. {0} \in Word
    BY WAssumption DEF Word, Bits
  <2>2. x' \in State
    BY <1>8, <2>1, AbsorbLastType, AddWordType DEF AbsorbLastAd
  <2> QED BY <1>8, <2>2 DEF AbsorbLastAd, IsCall
<1>9. CASE AbsorbLastCt
  <2> DEFINE y == AbsorbLast(SourceLen - absorbed)
  <2>1. y \in State
    BY AbsorbLastType
  <2>2. x' = IF TARGET_ARCH \in BI32 THEN y ELSE [y EXCEPT ![0] = U64BIG[@], ![1] = U64BIG[@]]
    BY <1>9 DEF AbsorbLastCt
  <2> HIDE DEF y
  <2>3. [y EXCEPT ![0] = U64BIG[@], ![1] = U64BIG[@]] \in State
    BY <2>1, BigType DEF State
  <2>4. absorbed' = call.len
    BY <1>9 DEF AbsorbLastCt, SourceLen
  <2> QED BY <1>0, <1>9, <2>1, <2>2, <2>3, <2>4, RkStateType DEF AbsorbLastCt, IsCall
<1>10. CASE MacTag
  <2>1. mem' \in [Addr -> Byte]
    BY <1>10, TagType DEF MacTag
  <2> QED BY <1>10, <2>1, MacTagType DEF MacTag, IsCall
<1>11. CASE Verify
  <2>1. success \in {0, -1}
    BY DEF success
  <2> QED BY <1>0, <1>11, <2>1, RkStateType DEF Verify, EnterEnc
<1>12. CASE CallerStep
  BY <1>0, <1>12 DEF CallerStep, EnterCall, IsCall
<1>13. CASE UNCHANGED vars
  BY <1>13 DEF vars
<1> QED BY <1>1, <1>2, <1>3, <1>4, <1>5, <1>6, <1>7, <1>8, <1>9, <1>10,
           <1>11, <1>12, <1>13 DEF Next, CallStep

(* Every variable keeps its type; in particular no counter passes the       *)
(* length it counts to, so the unsigned differences the loops test never    *)
(* wrap round, and each part of the mac starts counting from zero.          *)
THEOREM TypeCorrect == Spec => []TypeOK
<1>1. Init => TypeOK
  <2>1. LastBit \in Nat
    BY WAssumption DEF LastBit
  <2> QED BY <2>1 DEF Init, TypeOK, IsCall
<1>2. TypeOK /\ [Next]_vars => TypeOK'
  BY TypeStep
<1> QED BY <1>1, <1>2, PTL DEF Spec

(* A call, in any state of any call, has written nothing but its output:    *)
(* the text up to pos, and the tag of an encryption that has returned.      *)
THEOREM WritesConfined == Spec => []WritesOnlyOutput
<1>1. Init => WritesOnlyOutput
  BY DEF Init, WritesOnlyOutput
<1>2. TypeOK /\ TypeOK' /\ WritesOnlyOutput /\ [Next]_vars => WritesOnlyOutput'
  <2> SUFFICES ASSUME TypeOK, TypeOK', WritesOnlyOutput, [Next]_vars,
                      NEW a \in Addr, mem'[a] # entryMem'[a]
               PROVE  \/ a \in Region(call'.dst, pos')
                      \/ /\ call'.op = "encrypt" /\ pc' = "returned"
                         /\ a \in Region(call'.tag, TagLen)
    BY DEF WritesOnlyOutput
  <2>1. CASE UNCHANGED <<mem, entryMem, call, pos>> /\ pc # "returned"
    BY <2>1 DEF WritesOnlyOutput
  <2>2. ASSUME NEW n \in Nat, pos + n <= call.len, Squeeze(n), pc # "returned",
               UNCHANGED <<call, entryMem>>
        PROVE  a \in Region(call'.dst, pos')
    <3>1. pos' = pos + n /\ pos \in Nat /\ call.dst \in Nat
      BY <2>2, SqueezeStep DEF TypeOK, IsCall
    <3>2. a \notin Region(call.dst + pos, n) => mem'[a] = mem[a]
      BY <2>2, SqueezeStep
    <3>3. a \in Region(call.dst, pos) \/ a \in Region(call.dst + pos, n)
      BY <2>2, <3>2 DEF WritesOnlyOutput
    <3> QED BY <2>2, <3>1, <3>3 DEF Region
  <2>3. CASE SqueezeLane
    <3>1. W \in Nat /\ pos + W <= call.len
      BY <2>3, WAssumption DEF SqueezeLane, TypeOK, IsCall
    <3> QED BY <2>2, <2>3, <3>1 DEF SqueezeLane
  <2>4. CASE SqueezeLast
    <3>1. CASE call.len > pos
      <4>1. call.len - pos \in Nat /\ pos + (call.len - pos) <= call.len
        BY <3>1 DEF TypeOK, IsCall
      <4> QED BY <2>2, <2>4, <3>1, <4>1 DEF SqueezeLast
    <3>2. CASE ~(call.len > pos)
      BY <2>1, <2>4, <3>2 DEF SqueezeLast
    <3> QED BY <3>1, <3>2
  <2>5. CASE MacTag
    <3>1. CASE call.op = "encrypt"
      <4>1. /\ mem' = Tag(mem, call.tag, x') /\ UNCHANGED <<call, pos, entryMem>>
            /\ pc = "rk_mac" /\ pc' = "returned" /\ mem \in [Addr -> Byte]
        BY <2>5, <3>1 DEF MacTag, TypeOK
      <4>2. a \notin Region(call.tag, TagLen) => mem'[a] = mem[a]
        BY <4>1, TagType
      <4> QED BY <3>1, <4>1, <4>2 DEF WritesOnlyOutput
    <3>2. CASE call.op # "encrypt"
      BY <2>1, <2>5, <3>2 DEF MacTag
    <3> QED BY <3>1, <3>2
  <2>6. CASE CallerStep
    BY <2>6 DEF CallerStep, EnterCall
  <2>7. CASE UNCHANGED vars
    BY <2>7 DEF vars, WritesOnlyOutput
  <2>8. CASE \/ EncryptStart \/ RkBit \/ EncKey \/ MacStart \/ AbsorbLane \/ AbsorbLastAd
             \/ AbsorbLastCt \/ Verify
    BY <2>1, <2>8 DEF EncryptStart, RkBit, EncKey, MacStart, AbsorbLane, AbsorbLastAd,
                      AbsorbLastCt, Verify
  <2> QED BY <2>3, <2>4, <2>5, <2>6, <2>7, <2>8 DEF Next, CallStep
<1> QED BY <1>1, <1>2, TypeCorrect, PTL DEF Spec

------------------------------------------------------------------------------
(* A decryption without testing derives the key of the key stream only once *)
(* the tag was right, and up to then has written nothing at all.            *)
Gated ==
  call.op = "decrypt" /\ ~TESTING_ENABLED =>
    /\ pc \in {"rk_enc", "squeeze"} => ret = 0
    /\ pc \notin {"squeeze", "returned"} => mem = entryMem
    /\ pc = "returned" => mem = entryMem \/ ret = 0

(* In a build without testing, what isap_a_decrypt writes it writes after   *)
(* the tag was found right, and it then returns 0: no caller, and no other  *)
(* reader of the memory while the call runs, sees a forged text.            *)
THEOREM RefusedUntouched == Spec => []RefusedMeansUntouched
<1>1. Init => Gated
  BY DEF Init, Gated
<1>2. TypeOK /\ Gated /\ [Next]_vars => Gated'
  <2> SUFFICES ASSUME TypeOK, Gated, [Next]_vars,
                      call'.op = "decrypt", ~TESTING_ENABLED
               PROVE  /\ pc' \in {"rk_enc", "squeeze"} => ret' = 0
                      /\ pc' \notin {"squeeze", "returned"} => mem' = entryMem'
                      /\ pc' = "returned" => mem' = entryMem' \/ ret' = 0
    BY DEF Gated
  <2> USE DEF Gated
  <2>1. CASE EncryptStart
    BY <2>1 DEF EncryptStart
  <2>2. CASE RkBit
    BY <2>2 DEF RkBit
  <2>3. CASE EncKey
    BY <2>3 DEF EncKey
  <2>4. CASE SqueezeLane
    BY <2>4 DEF SqueezeLane
  <2>5. CASE SqueezeLast
    BY <2>5 DEF SqueezeLast
  <2>6. CASE MacStart
    BY <2>6 DEF MacStart
  <2>7. CASE AbsorbLane
    BY <2>7 DEF AbsorbLane
  <2>8. CASE AbsorbLastAd \/ AbsorbLastCt
    BY <2>8 DEF AbsorbLastAd, AbsorbLastCt
  <2>9. CASE MacTag
    BY <2>9 DEF MacTag
  <2>10. CASE Verify
    BY <2>10 DEF Verify, EnterEnc
  <2>11. CASE CallerStep
    BY <2>11 DEF CallerStep, EnterCall
  <2>12. CASE UNCHANGED vars
    BY <2>12 DEF vars
  <2> QED BY <2>1, <2>2, <2>3, <2>4, <2>5, <2>6, <2>7, <2>8, <2>9, <2>10, <2>11,
             <2>12 DEF Next, CallStep
<1>3. TypeOK /\ Gated => RefusedMeansUntouched
  BY DEF Gated, RefusedMeansUntouched, TypeOK
<1> QED BY <1>1, <1>2, <1>3, TypeCorrect, PTL DEF Spec

(* Every call ends: Phase and Left are natural numbers, and each step of a  *)
(* call lowers Phase, or Left within the same phase.                        *)
THEOREM CallsAreFinite == Spec => EveryStepAdvances
<1>1. TypeOK /\ TypeOK' /\ [Next]_vars =>
        [pc # "returned" => Phase' < Phase \/ (Phase' = Phase /\ Left' < Left)]_vars
  <2> SUFFICES ASSUME TypeOK, TypeOK', Next, pc # "returned"
               PROVE  Phase' < Phase \/ (Phase' = Phase /\ Left' < Left)
    OBVIOUS
  <2>0. /\ W \in Nat /\ W > 0 /\ LastBit \in Nat /\ bit \in 0..LastBit
        /\ call.adlen \in Nat /\ call.len \in Nat /\ absorbed \in Nat /\ pos \in 0..call.len
        /\ call.op \in {"encrypt", "decrypt"}
    BY WAssumption DEF LastBit, TypeOK, IsCall
  <2>1. CASE EncryptStart
    BY <2>1 DEF EncryptStart, EnterEnc, Phase
  <2>2. CASE RkBit
    BY <2>0, <2>2 DEF RkBit, Phase, Left
  <2>3. CASE EncKey
    BY <2>0, <2>3 DEF EncKey, Phase
  <2>4. CASE SqueezeLane
    BY <2>0, <2>4 DEF SqueezeLane, Squeeze, Phase, Left
  <2>5. CASE SqueezeLast
    BY <2>0, <2>5 DEF SqueezeLast, Phase
  <2>6. CASE MacStart
    BY <2>0, <2>6 DEF MacStart, Phase, TypeOK
  <2>7. CASE AbsorbLane
    <3>1. /\ pc \in {"ad", "ct"} /\ pc' = pc /\ call' = call /\ absorbed' = absorbed + W
          /\ SourceLen \in Nat /\ SourceLen' = SourceLen
      BY <2>0, <2>7 DEF AbsorbLane, SourceLen
    <3>2. Phase' = Phase
      BY <3>1 DEF Phase
    <3>3. Left = SourceLen - absorbed /\ Left' = SourceLen - (absorbed + W)
      BY <3>1 DEF Left
    <3> QED BY <2>0, <3>1, <3>2, <3>3
  <2>8. CASE AbsorbLastAd
    <3>1. pc = "ad" /\ pc' = "ct" /\ call' = call
      BY <2>8 DEF AbsorbLastAd
    <3> QED BY <2>0, <3>1 DEF Phase
  <2>12. CASE AbsorbLastCt
    <3>1. pc = "ct" /\ pc' = "rk_mac" /\ call' = call
      BY <2>12 DEF AbsorbLastCt
    <3> QED BY <2>0, <3>1 DEF Phase
  <2>9. CASE MacTag
    <3>1. pc = "rk_mac" /\ call' = call
      BY <2>9 DEF MacTag
    <3>2. IF call.op = "encrypt" THEN pc' = "returned" ELSE pc' = "verify"
      BY <2>9 DEF MacTag
    <3>3. CASE call.op = "encrypt"
      <4>1. Phase = 1 /\ Phase' = 0
        BY <3>1, <3>2, <3>3 DEF Phase
      <4> QED BY <4>1
    <3>4. CASE call.op # "encrypt"
      <4>1. Phase = 4 /\ Phase' = 3
        BY <3>1, <3>2, <3>4 DEF Phase
      <4> QED BY <4>1
    <3> QED BY <3>3, <3>4
  <2>10. CASE Verify
    <3>1. pc = "verify" /\ call' = call /\ call.op # "encrypt"
      BY <2>10 DEF Verify, TypeOK
    <3>2. pc' = "rk_enc" \/ pc' = "returned"
      BY <2>10 DEF Verify, EnterEnc
    <3>3. Phase = 3 /\ Phase' \in {0, 2}
      BY <3>1, <3>2 DEF Phase
    <3> QED BY <3>3
  <2>11. CASE CallerStep
    BY <2>11 DEF CallerStep, EnterCall
  <2> QED BY <2>1, <2>2, <2>3, <2>4, <2>5, <2>6, <2>7, <2>8, <2>9, <2>10, <2>11,
             <2>12 DEF Next, CallStep
<1> QED BY <1>1, TypeCorrect, PTL DEF Spec, EveryStepAdvances

------------------------------------------------------------------------------
(* The permutation of a build and that of rv64.                             *)

LEMMA PlainNames ==
  /\ Plain!Bits = Bits /\ Plain!Word = Word /\ Plain!State = State
  /\ Plain!U64BIG = U64BIG
  /\ Plain!StateOf = StateOf /\ Plain!LinearLayer = LinearLayer
  /\ Plain!TagLen = TagLen /\ Plain!Addr = Addr
  /\ \A a, b : Plain!Region(a, b) = Region(a, b)
  /\ \A a, b : Plain!XOR(a, b) = XOR(a, b) /\ Plain!OutByte(a, b) = OutByte(a, b)
  /\ \A i : Plain!ByteOf(i) = ByteOf(i)
  /\ Plain!ascon_round_constants = ascon_round_constants
<1>1. /\ Plain!Bits = Bits /\ Plain!Word = Word /\ Plain!State = State
      /\ Plain!U64BIG = U64BIG
  BY DEF Plain!Bits, Bits, Plain!Word, Word, Plain!State, State, Plain!U64BIG, U64BIG
<1>2. Plain!StateOf = StateOf /\ Plain!LinearLayer = LinearLayer
  BY DEF Plain!StateOf, StateOf, Plain!LinearLayer, LinearLayer, Plain!Into, Into,
     Plain!RV_LINEAR, RV_LINEAR, Plain!ROR, ROR, Plain!XOR, XOR, Plain!Registers, Registers,
     Plain!RegNames, RegNames, Plain!Word, Word, Plain!Bits, Bits
<1>3. /\ \A a, b : Plain!XOR(a, b) = XOR(a, b) /\ Plain!OutByte(a, b) = OutByte(a, b)
      /\ \A i : Plain!ByteOf(i) = ByteOf(i)
      /\ Plain!ascon_round_constants = ascon_round_constants
  BY DEF Plain!XOR, XOR, Plain!OutByte, OutByte, Plain!ByteOf, ByteOf,
     Plain!ascon_round_constants, ascon_round_constants
<1>4. /\ Plain!TagLen = TagLen /\ Plain!Addr = Addr
      /\ \A a, b : Plain!Region(a, b) = Region(a, b)
  BY DEF Plain!TagLen, TagLen, Plain!Addr, Addr, Plain!Region, Region
<1> QED BY <1>1, <1>2, <1>3, <1>4

LEMMA PlainSBox ==
  ASSUME NEW x0 \in Word, NEW x1 \in Word, NEW x2 \in Word, NEW x3 \in Word, NEW x4 \in Word
  PROVE  Plain!RV_S_BOX(Bits, x0, x1, x2, x3, x4) = RV_S_BOX(Bits, x0, x1, x2, x3, x4)
<1> DEFINE F(r0, r1, r2, r3, r4, out) ==
             [n \in RegNames |-> CASE n = "x0" -> r0 [] n = "x1" -> r1
                                   [] n = "x2" -> r2 [] n = "x3" -> r3
                                   [] n = "x4" -> r4 [] n = "x3_tmp" -> out]
           t0 == XOR(x1, x2)
           t1 == XOR(x0, x4)
           t2 == XOR(x3, x4)
           u0 == Plain!XOR(x1, x2)
           u1 == Plain!XOR(x0, x4)
           u2 == Plain!XOR(x3, x4)
<1>1. Plain!RegNames = RegNames /\ \A a, b : Plain!OR(a, b) = OR(a, b)
  BY DEF Plain!RegNames, RegNames, Plain!OR, OR
<1>2. \A a, b : Plain!XOR(a, b) = XOR(a, b)
  BY PlainNames
<1>3. RV_S_BOX(Bits, x0, x1, x2, x3, x4)
        = F(OR(x0, t2), XOR(ANDN(Bits, x1, t1), t2), XOR(OR(XOR(x2, t1), x1), t2),
            XOR(OR(XOR(x3, x1), t0), t1), XOR(ORN(Bits, x3, x4), t0), XOR(OR(x0, t2), t0))
  BY Zenon DEF RV_S_BOX
<1>4. Plain!RV_S_BOX(Bits, x0, x1, x2, x3, x4)
        = F(Plain!OR(x0, u2), Plain!XOR(Plain!ANDN(Bits, x1, u1), u2),
            Plain!XOR(Plain!OR(Plain!XOR(x2, u1), x1), u2),
            Plain!XOR(Plain!OR(Plain!XOR(x3, x1), u0), u1),
            Plain!XOR(Plain!ORN(Bits, x3, x4), u0), Plain!XOR(Plain!OR(x0, u2), u0))
  BY <1>1, Zenon DEF Plain!RV_S_BOX
<1>5. Plain!ORN(Bits, x3, x4) = ORN(Bits, x3, x4)
  BY DEF Plain!ORN, ORN, Plain!OR, OR, Plain!NOT, NOT
<1>6. XOR(x0, x4) \in Word
  BY XorType
<1>7. \A y : Plain!ANDN(Bits, x1, y) = ANDN(Bits, x1, y)
  BY DEF Plain!ANDN, ANDN, Plain!AND, AND, Plain!NOT, NOT, Word
<1>8. u0 = t0 /\ u1 = t1 /\ u2 = t2
  BY <1>2
<1> HIDE DEF F, t0, t1, t2, u0, u1, u2
<1>9. /\ Plain!OR(x0, u2) = OR(x0, t2)
      /\ Plain!XOR(Plain!ANDN(Bits, x1, u1), u2) = XOR(ANDN(Bits, x1, t1), t2)
      /\ Plain!XOR(Plain!OR(Plain!XOR(x2, u1), x1), u2) = XOR(OR(XOR(x2, t1), x1), t2)
      /\ Plain!XOR(Plain!OR(Plain!XOR(x3, x1), u0), u1) = XOR(OR(XOR(x3, x1), t0), t1)
      /\ Plain!XOR(Plain!ORN(Bits, x3, x4), u0) = XOR(ORN(Bits, x3, x4), t0)
      /\ Plain!XOR(Plain!OR(x0, u2), u0) = XOR(OR(x0, t2), t0)
  BY <1>1, <1>2, <1>5, <1>7, <1>8
<1> QED BY <1>3, <1>4, <1>9

LEMMA PlainRound ==
  ASSUME NEW i \in 0..11, NEW s \in State
  PROVE  Plain!Round(i)[s] = GenericROUND(s, ByteOf(ascon_round_constants[i + 1]))
<1> DEFINE C == ByteOf(ascon_round_constants[i + 1])
<1>1. "rv64" \notin Plain!BI32
  BY DEF Plain!BI32
<1>2. Plain!RoundConstant(i) = C
  BY <1>1, PlainNames DEF Plain!RoundConstant
<1>3. C \in Word
  BY ByteOfType
<1> HIDE DEF C
<1>4. Plain!Round(i)[s] = Plain!ROUND(s, C)
  BY <1>1, <1>2, PlainNames, Zenon DEF Plain!Round
<1>5. /\ s[0] \in Word /\ s[1] \in Word /\ s[2] \in Word /\ s[3] \in Word /\ s[4] \in Word
  BY DEF State
<1>6. XOR(s[2], C) \in Word
  BY <1>3, <1>5, XorType
<1>7. Plain!ROUND(s, C)
        = StateOf[LinearLayer[Plain!RV_S_BOX(Bits, s[0], s[1], XOR(s[2], C), s[3], s[4])]]
  BY PlainNames, Zenon DEF Plain!ROUND
<1>8. Plain!RV_S_BOX(Bits, s[0], s[1], XOR(s[2], C), s[3], s[4])
        = RV_S_BOX(Bits, s[0], s[1], XOR(s[2], C), s[3], s[4])
  BY <1>5, <1>6, PlainSBox
<1>9. Plain!ROUND(s, C) = ROUND(s, C)
  BY <1>7, <1>8 DEF ROUND
<1> QED BY <1>3, <1>4, <1>9, RoundsAgree DEF C

LEMMA PlainStep ==
  ASSUME NEW i \in 0..11, NEW s \in State
  PROVE  /\ Round(i)[s] \in State
         /\ StandardState(s) \in State
         /\ StandardState(Round(i)[s]) = Plain!Round(i)[StandardState(s)]
  BY RoundType, BuildsAgree, StandardValue, PlainRound

(* Each permutation of ISAP: twelve, six or one round. *)
LEMMA PlainPermute ==
  ASSUME NEW s \in State, NEW n \in {12, 6, 1}
  PROVE  /\ PERM(n, s) \in State
         /\ Plain!PERM(n, StandardState(s)) = StandardState(PERM(n, s))
<1>0. /\ 0 \in 0..11 /\ 1 \in 0..11 /\ 2 \in 0..11 /\ 3 \in 0..11 /\ 4 \in 0..11 /\ 5 \in 0..11
      /\ 6 \in 0..11 /\ 7 \in 0..11 /\ 8 \in 0..11 /\ 9 \in 0..11 /\ 10 \in 0..11 /\ 11 \in 0..11
  OBVIOUS
<1> DEFINE Good(i) == \A t \in State :
                        /\ Round(i)[t] \in State
                        /\ StandardState(Round(i)[t]) = Plain!Round(i)[StandardState(t)]
<1>1. /\ Good(0) /\ Good(1) /\ Good(2) /\ Good(3) /\ Good(4) /\ Good(5)
      /\ Good(6) /\ Good(7) /\ Good(8) /\ Good(9) /\ Good(10) /\ Good(11)
  BY <1>0, PlainStep, Zenon
<1>2. ASSUME NEW t \in State
      PROVE  /\ P6(t) \in State
             /\ StandardState(P6(t)) = Plain!P6(StandardState(t))
  <2> DEFINE u == Round(8)[Round(7)[Round(6)[t]]]
             v == Plain!Round(8)[Plain!Round(7)[Plain!Round(6)[StandardState(t)]]]
  <2>1. u \in State /\ StandardState(u) = v
    BY <1>1
  <2>2. /\ P6(t) = Round(11)[Round(10)[Round(9)[u]]]
        /\ Plain!P6(StandardState(t))
             = Plain!Round(11)[Plain!Round(10)[Plain!Round(9)[v]]]
    BY DEF P6, Plain!P6
  <2> HIDE DEF u, v
  <2> QED BY <1>1, <2>1, <2>2
<1>3. ASSUME NEW t \in State
      PROVE  /\ P8(t) \in State
             /\ StandardState(P8(t)) = Plain!P8(StandardState(t))
  BY <1>1, <1>2 DEF P8, Plain!P8
<1>4. P12(s) \in State /\ StandardState(P12(s)) = Plain!P12(StandardState(s))
  BY <1>1, <1>3, SMTT(20) DEF P12, Plain!P12
<1>5. 12 # 6 /\ 12 # 1 /\ 6 # 12 /\ 6 # 1 /\ 1 # 12 /\ 1 # 6
  OBVIOUS
<1>6. CASE n = 12
  <2>1. PERM(12, s) = P12(s) /\ Plain!PERM(12, StandardState(s)) = Plain!P12(StandardState(s))
    BY <1>5, Zenon DEF PERM, Plain!PERM
  <2> QED BY <1>4, <1>6, <2>1
<1>7. CASE n = 6
  <2>1. PERM(6, s) = P6(s) /\ Plain!PERM(6, StandardState(s)) = Plain!P6(StandardState(s))
    BY <1>5, Zenon DEF PERM, Plain!PERM
  <2> QED BY <1>2, <1>7, <2>1
<1>8. CASE n = 1
  <2>1. /\ PERM(1, s) = Round(11)[s]
        /\ Plain!PERM(1, StandardState(s)) = Plain!Round(11)[StandardState(s)]
    BY <1>5, Zenon DEF PERM, Plain!PERM
  <2> QED BY <1>1, <1>8, <2>1
<1> QED BY <1>6, <1>7, <1>8

LEMMA RoundCounts ==
  /\ sH \in {12, 6, 1} /\ sB \in {12, 6, 1} /\ sE \in {12, 6, 1} /\ sK \in {12, 6, 1}
  /\ Plain!sH = sH /\ Plain!sB = sB /\ Plain!sE = sE /\ Plain!sK = sK
  BY DEF sH, sB, sE, sK, Plain!sH, Plain!sB, Plain!sE, Plain!sK

------------------------------------------------------------------------------
(* Words and memory.                                                        *)

(* The exchanges of src/isap/interleaving.h are those of                    *)
(* src/ascon/interleaving.h.                                                *)
LEMMA ExchangesAgree ==
  \A a \in Word : /\ LOAD_SWAP_DEINTERLEAVE_32(a) = zbkb_deinterleave32(a)
                  /\ SWAP_INTERLEAVE_32(a) = zbkb_interleave32(a)
<1> TAKE a \in Word
<1>1. /\ \A y : rev8(y) \in Half
      /\ \A y, z : pack(y, z) \in Half
  BY DEF rev8, pack, Half
<1>2. \A h \in Half : DEINTERLEAVE(h) = unzip(h) /\ INTERLEAVE(h) = zip(h)
  BY Interleave16 DEF DEINTERLEAVE, INTERLEAVE
<1>3. /\ DEINTERLEAVE(rev8(Lo(a))) = unzip(rev8(Lo(a)))
      /\ DEINTERLEAVE(rev8(Hi(a))) = unzip(rev8(Hi(a)))
      /\ INTERLEAVE(pack(Lo(a), Hi(a))) = zip(pack(Lo(a), Hi(a)))
      /\ INTERLEAVE(pack(srli16(Lo(a)), srli16(Hi(a))))
           = zip(pack(srli16(Lo(a)), srli16(Hi(a))))
  BY <1>1, <1>2
<1>4. LOAD_SWAP_DEINTERLEAVE_32(a) = zbkb_deinterleave32(a)
  BY <1>3, Zenon DEF LOAD_SWAP_DEINTERLEAVE_32, zbkb_deinterleave32
<1>5. SWAP_INTERLEAVE_32(a) = zbkb_interleave32(a)
  BY <1>3, Zenon DEF SWAP_INTERLEAVE_32, zbkb_interleave32
<1> QED BY <1>4, <1>5

LEMMA PlainLoad == \A bytes, p : Plain!LOAD(bytes, p) = Standard(LOAD(bytes, p))
<1> TAKE bytes, p
<1> DEFINE a == {i \in Bits : (i % 8) \in bytes[p + (i \div 8)]}
<1>1. a \in Word
  BY DEF Word
<1>2. Plain!LOAD(bytes, p) = U64BIG[a]
  BY PlainNames DEF Plain!LOAD, Plain!BI32
<1>3. LOAD(bytes, p) = IF TARGET_ARCH \in BI32 THEN LOAD_SWAP_DEINTERLEAVE_32(a) ELSE U64BIG[a]
  BY DEF LOAD
<1> HIDE DEF a
<1>4. CASE TARGET_ARCH \in BI32
  BY <1>1, <1>2, <1>3, <1>4, ExchangesAgree, DeinterleaveMerge DEF Standard
<1>5. CASE TARGET_ARCH \notin BI32
  BY <1>2, <1>3, <1>5 DEF Standard
<1> QED BY <1>4, <1>5

LEMMA PlainOut ==
  \A w \in Word : OUT(w) = U64BIG[Standard(w)] /\ Plain!OUT(Standard(w)) = OUT(w)
<1> TAKE w \in Word
<1>1. Plain!OUT(Standard(w)) = U64BIG[Standard(w)]
  BY PlainNames DEF Plain!OUT, Plain!BI32
<1>2. CASE TARGET_ARCH \in BI32
  BY <1>1, <1>2, ExchangesAgree, InterleaveMerge DEF OUT, Standard
<1>3. CASE TARGET_ARCH \notin BI32
  BY <1>1, <1>3 DEF OUT, Standard
<1> QED BY <1>2, <1>3

LEMMA PlainAddWord ==
  ASSUME NEW s \in State, NEW i \in 0..4, NEW w \in Word
  PROVE  /\ AddWord(s, i, w) \in State
         /\ Plain!AddWord(StandardState(s), i, Standard(w)) = StandardState(AddWord(s, i, w))
<1> DEFINE p == StandardState(s)
           a == AddWord(s, i, w)
<1>1. p \in State /\ \A j \in 0..4 : p[j] = Standard(s[j])
  BY StandardValue
<1>2. a \in State
  BY AddWordType
<1>3. StandardState(a) = [j \in 0..4 |-> Standard(a[j])]
  BY DEF StandardState
<1>4. \A j \in 0..4 : a[j] = IF j = i THEN XOR(s[i], w) ELSE s[j]
  BY DEF AddWord, State
<1>5. Plain!AddWord(p, i, Standard(w)) = [p EXCEPT ![i] = XOR(@, Standard(w))]
  BY PlainNames, Zenon DEF Plain!AddWord
<1>6. Standard(XOR(s[i], w)) = XOR(p[i], Standard(w))
  BY <1>1, StandardXor
<1> HIDE DEF p, a
<1>7. [p EXCEPT ![i] = XOR(@, Standard(w))] = [j \in 0..4 |-> Standard(a[j])]
  BY <1>1, <1>4, <1>6 DEF State
<1> QED BY <1>2, <1>3, <1>5, <1>7 DEF p, a

(* The domain bit and the bit that is absorbed first are where they are in  *)
(* a plain word.                                                            *)
LEMMA PlainBits ==
  /\ {0} \in Word /\ {TopBit} \in Word /\ {} \in Word
  /\ Standard({0}) = {0} /\ Standard({TopBit}) = {TopBit} /\ Standard({}) = {}
  /\ Plain!TopBit = TopBit /\ Plain!LastBit = LastBit
<1>1. {0} \in Word /\ {TopBit} \in Word /\ {} \in Word
  BY WAssumption DEF TopBit, Word, Bits
<1>2. Plain!TopBit = TopBit /\ Plain!LastBit = LastBit
  BY DEF TopBit, LastBit, Plain!TopBit, Plain!LastBit
<1> QED BY <1>1, <1>2, StandardBits DEF TopBit

------------------------------------------------------------------------------
(* isap_rk *)

LEMMA PlainIV == \A n : Plain!ISAP_IV(n) = ISAP_IV(n)
  BY RoundCounts, PlainNames DEF Plain!ISAP_IV, ISAP_IV

LEMMA PlainRkState ==
  \A n : RkState(ISAP_IV(n)) \in State
         /\ Plain!RkState(Plain!ISAP_IV(n)) = StandardState(RkState(ISAP_IV(n)))
<1> TAKE n
<1> DEFINE iv == ISAP_IV(n)
           f(i) == CASE i = 0 -> LOAD(call.key, 0) [] i = 1 -> LOAD(call.key, W)
                     [] i = 2 -> LOAD(iv, 0) [] i \in {3, 4} -> {}
           g(i) == CASE i = 0 -> Plain!LOAD(call.key, 0) [] i = 1 -> Plain!LOAD(call.key, W)
                     [] i = 2 -> Plain!LOAD(iv, 0) [] i \in {3, 4} -> {}
           s == [i \in 0..4 |-> f(i)]
           t == [i \in 0..4 |-> g(i)]
<1>1. RkState(iv) = PERM(sK, s) /\ Plain!RkState(Plain!ISAP_IV(n)) = Plain!PERM(sK, t)
  BY PlainIV, RoundCounts DEF RkState, Plain!RkState
<1> HIDE DEF iv
<1>2. /\ 0 # 1 /\ 0 # 2 /\ 0 \notin {3, 4} /\ 1 # 2 /\ 1 # 0 /\ 1 \notin {3, 4}
      /\ 2 # 0 /\ 2 # 1 /\ 2 \notin {3, 4} /\ 3 \in {3, 4} /\ 4 \in {3, 4}
      /\ 3 # 0 /\ 3 # 1 /\ 3 # 2 /\ 4 # 0 /\ 4 # 1 /\ 4 # 2
  OBVIOUS
<1>3. /\ f(0) = LOAD(call.key, 0) /\ g(0) = Plain!LOAD(call.key, 0)
      /\ f(1) = LOAD(call.key, W) /\ g(1) = Plain!LOAD(call.key, W)
      /\ f(2) = LOAD(iv, 0) /\ g(2) = Plain!LOAD(iv, 0)
      /\ f(3) = {} /\ g(3) = {} /\ f(4) = {} /\ g(4) = {}
  BY <1>2, Zenon
<1> HIDE DEF f, g
<1>4. \A i \in 0..4 : i = 0 \/ i = 1 \/ i = 2 \/ i = 3 \/ i = 4
  OBVIOUS
<1>5. \A i \in 0..4 : f(i) \in Word /\ g(i) = Standard(f(i))
  BY <1>3, <1>4, IsapLoadType, PlainLoad, PlainBits
<1>6. s \in State /\ t = StandardState(s)
  <2>1. s \in State
    BY <1>5 DEF State
  <2>2. \A i \in 0..4 : g(i) = Standard(s[i])
    BY <1>5
  <2> HIDE DEF s
  <2> QED BY <2>1, <2>2 DEF StandardState
<1> HIDE DEF s, t
<1>7. PERM(sK, s) \in State /\ Plain!PERM(sK, t) = StandardState(PERM(sK, s))
  BY <1>6, PlainPermute, RoundCounts
<1> QED BY <1>1, <1>7 DEF iv

(* The bytes of its input, however they are held. *)
LEMMA PlainYByte ==
  ASSUME x \in State, bit \in 0..LastBit, pc \in {"rk_enc", "rk_mac"}
  PROVE  Plain!YByte(bit \div 8) = YByte(bit \div 8)
<1> DEFINE j == bit \div 8
           k == j \div W
<1>1. CASE pc = "rk_enc"
  BY <1>1 DEF Plain!YByte, YByte
<1>2. CASE pc = "rk_mac"
  <2>1. k \in 0..1
    BY WAssumption DEF LastBit
  <2>2. k \in 0..4 /\ k < 2
    BY <2>1
  <2>3. pc # "rk_enc"
    BY <1>2
  <2>4. YByte(j) = OutByte(IF TARGET_ARCH \in BI32 THEN OUT(x[k]) ELSE x[k], j % W)
    BY <2>3 DEF YByte
  <2>5. Plain!YByte(j) = OutByte(StandardX[k], j % W)
    BY <2>3, PlainNames DEF Plain!YByte, Plain!BI32
  <2> HIDE DEF j, k
  <2>6. x[k] \in Word
    BY <2>2 DEF State
  <2>7. CASE TARGET_ARCH \in BI32
    <3>1. StandardX[k] = U64BIG[Standard(x[k])]
      BY <1>2, <2>2, <2>7 DEF StandardX
    <3> QED BY <2>4, <2>5, <2>6, <2>7, <3>1, PlainOut DEF j
  <2>8. CASE TARGET_ARCH \notin BI32
    <3>1. StandardX[k] = x[k]
      BY <2>2, <2>8 DEF StandardX, Standard
    <3> QED BY <2>4, <2>5, <2>8, <3>1 DEF j
  <2> QED BY <2>7, <2>8
<1> QED BY <1>1, <1>2

LEMMA PlainAbsorbBit ==
  ASSUME x \in State, rk \in State, bit \in 0..LastBit, pc \in {"rk_enc", "rk_mac"}
  PROVE  /\ AbsorbBit(rk) \in State
         /\ Plain!AbsorbBit(StandardState(rk)) = StandardState(AbsorbBit(rk))
<1>1. 0 \in 0..4
  OBVIOUS
<1>2. /\ AddWord(rk, 0, {TopBit}) \in State
      /\ Plain!AddWord(StandardState(rk), 0, {TopBit}) = StandardState(AddWord(rk, 0, {TopBit}))
  BY <1>1, PlainAddWord, PlainBits
<1>3. Plain!AbsorbBit(StandardState(rk))
        = IF (7 - (bit % 8)) \in YByte(bit \div 8)
            THEN Plain!AddWord(StandardState(rk), 0, {TopBit}) ELSE StandardState(rk)
  BY PlainYByte, PlainBits DEF Plain!AbsorbBit
<1> QED BY <1>2, <1>3 DEF AbsorbBit

LEMMA PlainLastRkState ==
  ASSUME x \in State, rk \in State, bit \in 0..LastBit, pc \in {"rk_enc", "rk_mac"}
  PROVE  LastRkState \in State /\ Plain!LastRkState = StandardState(LastRkState)
  BY PlainAbsorbBit, PlainPermute, RoundCounts DEF LastRkState, Plain!LastRkState

------------------------------------------------------------------------------
(* isap_enc and isap_mac.                                                   *)

LEMMA PlainX ==
  /\ pc # "rk_mac" => StandardX = StandardState(x)
  /\ pc' # "rk_mac" => StandardX' = StandardState(x)'
  BY DEF StandardX, StandardState

LEMMA PlainXorText ==
  ASSUME NEW w \in Word, NEW n
  PROVE  Plain!XorText(Standard(w), n) = XorText(w, n)
<1>1. Plain!OUT(Standard(w)) = OUT(w)
  BY PlainOut
<1>2. \A a, b : Plain!XOR(a, b) = XOR(a, b) /\ Plain!OutByte(a, b) = OutByte(a, b)
  BY PlainNames
<1> DEFINE f(a) == IF a \in Region(call.dst + pos, n)
                     THEN XOR(mem[call.src + pos + (a - (call.dst + pos))],
                              OutByte(OUT(w), a - (call.dst + pos)))
                     ELSE mem[a]
           g(a) == IF a \in Plain!Region(call.dst + pos, n)
                     THEN Plain!XOR(mem[call.src + pos + (a - (call.dst + pos))],
                                    Plain!OutByte(Plain!OUT(Standard(w)), a - (call.dst + pos)))
                     ELSE mem[a]
<1>3. XorText(w, n) = [a \in Addr |-> f(a)]
  BY Zenon DEF XorText
<1>4. Plain!XorText(Standard(w), n) = [a \in Addr |-> g(a)]
  BY PlainNames, Zenon DEF Plain!XorText
<1>5. \A a : g(a) = f(a)
  BY <1>1, <1>2, PlainNames
<1> HIDE DEF f, g
<1> QED BY <1>3, <1>4, <1>5

LEMMA PlainTag ==
  ASSUME NEW s \in State, NEW p \in Nat, NEW bytes
  PROVE  Plain!Tag(bytes, p, StandardState(s)) = Tag(bytes, p, s)
<1> DEFINE f(a) == IF a \in Region(p, TagLen)
                     THEN OutByte(OUT(s[(a - p) \div W]), (a - p) % W) ELSE bytes[a]
           g(a) == IF a \in Plain!Region(p, Plain!TagLen)
                     THEN Plain!OutByte(Plain!OUT(StandardState(s)[(a - p) \div W]), (a - p) % W)
                     ELSE bytes[a]
<1>1. /\ Tag(bytes, p, s) = [a \in DOMAIN bytes |-> f(a)]
      /\ Plain!Tag(bytes, p, StandardState(s)) = [a \in DOMAIN bytes |-> g(a)]
  BY DEF Tag, Plain!Tag
<1>2. ASSUME NEW a PROVE g(a) = f(a)
  <2>1. CASE a \in Region(p, TagLen)
    <3> DEFINE k == (a - p) \div W
    <3>1. a - p \in 0..(2 * W - 1)
      BY <2>1, WAssumption DEF Region, TagLen
    <3>2. k \in 0..4
      BY <3>1, WAssumption
    <3> HIDE DEF k
    <3>3. s[k] \in Word /\ StandardState(s)[k] = Standard(s[k])
      BY <3>2, StandardValue DEF State
    <3>4. Plain!OUT(StandardState(s)[k]) = OUT(s[k])
      BY <3>3, PlainOut
    <3> QED BY <2>1, <3>4, PlainNames DEF k
  <2>2. CASE a \notin Region(p, TagLen)
    BY <2>2, PlainNames
  <2> QED BY <2>1, <2>2
<1> HIDE DEF f, g
<1> QED BY <1>1, <1>2

LEMMA PlainPaddedLane ==
  \A n : PaddedLane(n) \in Word /\ Plain!PaddedLane(n) = Standard(PaddedLane(n))
<1> TAKE n
<1> DEFINE lane == [j \in 0..(W - 1) |-> IF j < n THEN Source[From + absorbed + j]
                                         ELSE IF j = n THEN {7} ELSE {}]
<1>1. PaddedLane(n) = IF n > 0 THEN LOAD(lane, 0) ELSE {TopBit}
  BY DEF PaddedLane
<1>2. Plain!Source = Source /\ Plain!From = From
  BY DEF Plain!Source, Source, Plain!From, From
<1>3. Plain!PaddedLane(n) = IF n > 0 THEN Plain!LOAD(lane, 0) ELSE {TopBit}
  BY <1>2, PlainBits DEF Plain!PaddedLane
<1> HIDE DEF lane
<1> QED BY <1>1, <1>3, PlainBits, PlainLoad, IsapLoadType

LEMMA PlainAbsorbLast ==
  ASSUME x \in State, StandardX = StandardState(x), NEW n
  PROVE  AbsorbLast(n) \in State /\ Plain!AbsorbLast(n) = StandardState(AbsorbLast(n))
<1> DEFINE w == PaddedLane(n)
           a == AddWord(x, 0, w)
<1>1. 0 \in 0..4
  OBVIOUS
<1>2. w \in Word /\ Plain!PaddedLane(n) = Standard(w)
  BY PlainPaddedLane
<1>3. AbsorbLast(n) = PERM(sH, a)
  BY DEF AbsorbLast
<1> HIDE DEF w
<1>4. a \in State /\ Plain!AddWord(StandardState(x), 0, Standard(w)) = StandardState(a)
  BY <1>1, <1>2, PlainAddWord
<1>5. Plain!AbsorbLast(n) = Plain!PERM(sH, StandardState(a))
  BY <1>2, <1>4, RoundCounts DEF Plain!AbsorbLast
<1> HIDE DEF a
<1> QED BY <1>3, <1>4, <1>5, PlainPermute, RoundCounts

LEMMA PlainSuccess ==
  ASSUME x \in State, StandardX = StandardState(x)
  PROVE  Plain!success = success
<1> DEFINE z == [i \in 0..(TagLen - 1) |-> {}]
<1>1. Plain!Tag(z, 0, StandardState(x)) = Tag(z, 0, x)
  BY PlainTag
<1>2. /\ success = IF \A i \in 0..(TagLen - 1) : Tag(z, 0, x)[i] = mem[call.tag + i]
                     THEN 0 ELSE -1
      /\ Plain!success = IF \A i \in 0..(TagLen - 1) :
                              Plain!Tag(z, 0, StandardState(x))[i] = mem[call.tag + i]
                           THEN 0 ELSE -1
  BY PlainNames DEF success, Plain!success
<1> HIDE DEF z
<1> QED BY <1>1, <1>2

------------------------------------------------------------------------------
(* The steps.                                                               *)

(* What the steps need of the state.  The count of bits within its bounds   *)
(* keeps the words that isap_rk reads from isap_mac's state to the first    *)
(* two, which the 64-bit builds hold in the byte order of memory.           *)
Shape ==
  /\ x \in State /\ rk \in State
  /\ bit \in 0..LastBit
  /\ call.tag \in Nat

LEMMA StepEnterEnc ==
  ASSUME Shape, EnterEnc
  PROVE  Plain!EnterEnc /\ rk' \in State /\ bit' \in 0..LastBit
<1>1. 0 \in 0..LastBit
  BY WAssumption DEF LastBit
<1>2. rk' \in State /\ StandardState(rk)' = Plain!RkState(Plain!ISAP_IV(3))
  BY PlainRkState DEF EnterEnc
<1> QED BY <1>1, <1>2 DEF EnterEnc, Plain!EnterEnc

LEMMA StepEncryptStart ==
  ASSUME Shape, EncryptStart
  PROVE  Plain!EncryptStart /\ Shape'
<1>1. EnterEnc /\ pc = "start" /\ pc' = "rk_enc" /\ x' = x
  BY DEF EncryptStart, EnterEnc
<1>2. Plain!EnterEnc /\ rk' \in State /\ bit' \in 0..LastBit
  BY <1>1, StepEnterEnc
<1>3. StandardX' = StandardX
  BY <1>1, PlainX
<1> QED BY <1>2, <1>3 DEF EncryptStart, Plain!EncryptStart, Shape

LEMMA StepRkBit ==
  ASSUME Shape, RkBit
  PROVE  Plain!RkBit /\ Shape'
<1> DEFINE a == AbsorbBit(rk)
<1>1. a \in State /\ Plain!AbsorbBit(StandardState(rk)) = StandardState(a)
  BY PlainAbsorbBit DEF Shape, RkBit
<1>2. rk' = PERM(sB, a) /\ pc' = pc /\ x' = x
  BY DEF RkBit
<1> HIDE DEF a
<1>3. rk' \in State /\ StandardState(rk)' = Plain!PERM(Plain!sB, StandardState(a))
  BY <1>1, <1>2, PlainPermute, RoundCounts
<1>4. StandardX' = StandardX
  BY <1>2 DEF StandardX
<1>5. Plain!RkBit
  BY <1>1, <1>3, <1>4, PlainBits DEF RkBit, Plain!RkBit
<1>6. bit' \in 0..LastBit
  BY WAssumption DEF RkBit, Shape, LastBit
<1> QED BY <1>2, <1>3, <1>5, <1>6 DEF Shape, RkBit

(* The state, made of three words of a derived key and the nonce.           *)
LEMMA StepEncKey ==
  ASSUME Shape, EncKey
  PROVE  Plain!EncKey /\ Shape'
<1>1. rk' \in State /\ StandardState(rk)' = Plain!LastRkState
  BY PlainLastRkState DEF EncKey, Shape
<1> DEFINE f(i) == CASE i \in {0, 1, 2} -> rk'[i] [] i = 3 -> LOAD(call.nonce, 0)
                     [] i = 4 -> LOAD(call.nonce, W)
           g(i) == CASE i \in {0, 1, 2} -> StandardState(rk)'[i]
                     [] i = 3 -> Plain!LOAD(call.nonce, 0)
                     [] i = 4 -> Plain!LOAD(call.nonce, W)
<1>2. /\ 0 \in {0, 1, 2} /\ 1 \in {0, 1, 2} /\ 2 \in {0, 1, 2} /\ 3 \notin {0, 1, 2}
      /\ 4 \notin {0, 1, 2} /\ 3 # 4 /\ 0 # 3 /\ 0 # 4 /\ 1 # 3 /\ 1 # 4 /\ 2 # 3 /\ 2 # 4
      /\ 0 \in 0..4 /\ 1 \in 0..4 /\ 2 \in 0..4 /\ 3 \in 0..4 /\ 4 \in 0..4
  OBVIOUS
<1>3. /\ f(0) = rk'[0] /\ f(1) = rk'[1] /\ f(2) = rk'[2]
      /\ f(3) = LOAD(call.nonce, 0) /\ f(4) = LOAD(call.nonce, W)
      /\ g(0) = StandardState(rk)'[0] /\ g(1) = StandardState(rk)'[1]
      /\ g(2) = StandardState(rk)'[2]
      /\ g(3) = Plain!LOAD(call.nonce, 0) /\ g(4) = Plain!LOAD(call.nonce, W)
  BY <1>2, Zenon
<1>4. x' = [i \in 0..4 |-> f(i)] /\ pc' = "squeeze"
  BY DEF EncKey
<1> HIDE DEF f, g
<1>5. \A i \in 0..4 : rk'[i] \in Word /\ StandardState(rk)'[i] = Standard(rk'[i])
  BY <1>1 DEF State, StandardState
<1>6. \A i \in 0..4 : i = 0 \/ i = 1 \/ i = 2 \/ i = 3 \/ i = 4
  OBVIOUS
<1>7. \A i \in 0..4 : f(i) \in Word /\ g(i) = Standard(f(i))
  BY <1>2, <1>3, <1>5, <1>6, IsapLoadType, PlainLoad
<1>8. x' \in State
  BY <1>4, <1>7 DEF State
<1>9. \A i \in 0..4 : Standard(x'[i]) = g(i)
  BY <1>4, <1>7
<1>10. StandardX' = [i \in 0..4 |-> g(i)]
  <2>1. StandardX' = StandardState(x)'
    BY <1>4, PlainX
  <2>2. StandardState(x)' = [i \in 0..4 |-> Standard(x'[i])]
    BY DEF StandardState
  <2> QED BY <1>9, <2>1, <2>2
<1>11. Plain!EncKey
  BY <1>1, <1>10, PlainBits DEF EncKey, Plain!EncKey, g
<1>12. Shape'
  BY <1>1, <1>8 DEF EncKey, Shape
<1> QED BY <1>11, <1>12

LEMMA StepSqueeze ==
  ASSUME Shape, SqueezeLane \/ SqueezeLast
  PROVE  (Plain!SqueezeLane \/ Plain!SqueezeLast) /\ Shape'
<1>0. pc = "squeeze" /\ pc' # "rk_mac" /\ StandardX = StandardState(x) /\ x \in State
  BY PlainX DEF SqueezeLane, SqueezeLast, Shape
<1>1. ASSUME NEW n, Squeeze(n) PROVE Plain!Squeeze(n) /\ x' \in State
  <2>1. x' \in State /\ StandardState(x)' = Plain!PERM(Plain!sE, StandardState(x))
    BY <1>0, <1>1, PlainPermute, RoundCounts DEF Squeeze
  <2>2. x'[0] \in Word /\ StandardState(x)'[0] = Standard(x'[0])
    BY <2>1 DEF State, StandardState
  <2>3. StandardX' = StandardState(x)'
    BY <1>0, PlainX
  <2>4. mem' = Plain!XorText(Standard(x'[0]), n)
    BY <1>1, <2>2, PlainXorText DEF Squeeze
  <2>5. Plain!Squeeze(n)
    BY <1>0, <1>1, <2>1, <2>2, <2>3, <2>4 DEF Squeeze, Plain!Squeeze
  <2> QED BY <2>1, <2>5
<1>2. CASE SqueezeLane
  <2>1. Plain!SqueezeLane /\ x' \in State
    BY <1>1, <1>2 DEF SqueezeLane, Plain!SqueezeLane
  <2> QED BY <1>2, <2>1 DEF SqueezeLane, Shape
<1>3. CASE SqueezeLast
  <2>1. UNCHANGED x => UNCHANGED StandardX
    BY <1>0, PlainX
  <2>2. Plain!SqueezeLast /\ x' \in State
    BY <1>0, <1>1, <1>3, <2>1 DEF SqueezeLast, Plain!SqueezeLast
  <2> QED BY <1>3, <2>2 DEF SqueezeLast, Shape
<1> QED BY <1>2, <1>3

LEMMA StepMacStart ==
  ASSUME Shape, MacStart
  PROVE  Plain!MacStart /\ Shape'
<1> DEFINE f(i) == CASE i = 0 -> LOAD(call.nonce, 0) [] i = 1 -> LOAD(call.nonce, W)
                     [] i = 2 -> LOAD(ISAP_IV(1), 0) [] i \in {3, 4} -> {}
           g(i) == CASE i = 0 -> Plain!LOAD(call.nonce, 0) [] i = 1 -> Plain!LOAD(call.nonce, W)
                     [] i = 2 -> Plain!LOAD(Plain!ISAP_IV(1), 0) [] i \in {3, 4} -> {}
           s == [i \in 0..4 |-> f(i)]
           t == [i \in 0..4 |-> g(i)]
<1>1. x' = PERM(sH, s) /\ pc' = "ad"
  BY DEF MacStart
<1>2. /\ 0 # 1 /\ 0 # 2 /\ 0 \notin {3, 4} /\ 1 # 2 /\ 1 # 0 /\ 1 \notin {3, 4}
      /\ 2 # 0 /\ 2 # 1 /\ 2 \notin {3, 4} /\ 3 \in {3, 4} /\ 4 \in {3, 4}
      /\ 3 # 0 /\ 3 # 1 /\ 3 # 2 /\ 4 # 0 /\ 4 # 1 /\ 4 # 2
  OBVIOUS
<1>3. /\ f(0) = LOAD(call.nonce, 0) /\ g(0) = Plain!LOAD(call.nonce, 0)
      /\ f(1) = LOAD(call.nonce, W) /\ g(1) = Plain!LOAD(call.nonce, W)
      /\ f(2) = LOAD(ISAP_IV(1), 0) /\ g(2) = Plain!LOAD(Plain!ISAP_IV(1), 0)
      /\ f(3) = {} /\ g(3) = {} /\ f(4) = {} /\ g(4) = {}
  BY <1>2, Zenon
<1> HIDE DEF f, g
<1>4. \A i \in 0..4 : i = 0 \/ i = 1 \/ i = 2 \/ i = 3 \/ i = 4
  OBVIOUS
<1>5. \A i \in 0..4 : f(i) \in Word /\ g(i) = Standard(f(i))
  BY <1>3, <1>4, IsapLoadType, PlainLoad, PlainBits, PlainIV
<1>6. s \in State /\ t = StandardState(s)
  <2>1. s \in State
    BY <1>5 DEF State
  <2>2. \A i \in 0..4 : g(i) = Standard(s[i])
    BY <1>5
  <2> HIDE DEF s
  <2> QED BY <2>1, <2>2 DEF StandardState
<1> HIDE DEF s, t
<1>7. x' \in State /\ StandardX' = Plain!PERM(Plain!sH, t)
  BY <1>1, <1>6, PlainX, PlainPermute, RoundCounts
<1>8. Plain!MacStart
  BY <1>7 DEF MacStart, Plain!MacStart, t, g
<1> QED BY <1>7, <1>8 DEF MacStart, Shape

LEMMA StepAbsorbLane ==
  ASSUME Shape, AbsorbLane
  PROVE  Plain!AbsorbLane /\ Shape'
<1> DEFINE w == LOAD(Source, From + absorbed)
           a == AddWord(x, 0, w)
<1>0. 0 \in 0..4 /\ x \in State /\ StandardX = StandardState(x) /\ pc' # "rk_mac"
  BY PlainX DEF Shape, AbsorbLane
<1>1. /\ Plain!Source = Source /\ Plain!From = From /\ Plain!SourceLen = SourceLen
  BY DEF Plain!Source, Source, Plain!From, From, Plain!SourceLen, SourceLen
<1>2. w \in Word /\ Plain!LOAD(Plain!Source, Plain!From + absorbed) = Standard(w)
  BY <1>1, IsapLoadType, PlainLoad
<1>3. x' = PERM(sH, a)
  BY DEF AbsorbLane
<1> HIDE DEF w
<1>4. a \in State /\ Plain!AddWord(StandardX, 0, Standard(w)) = StandardState(a)
  BY <1>0, <1>2, PlainAddWord
<1> HIDE DEF a
<1>5. x' \in State
      /\ StandardX' = Plain!PERM(Plain!sH, Plain!AddWord(StandardX, 0, Standard(w)))
  BY <1>0, <1>3, <1>4, PlainX, PlainPermute, RoundCounts
<1>6. Plain!AbsorbLane
  BY <1>1, <1>2, <1>5 DEF AbsorbLane, Plain!AbsorbLane
<1> QED BY <1>5, <1>6 DEF AbsorbLane, Shape

LEMMA StepAbsorbLastAd ==
  ASSUME Shape, AbsorbLastAd
  PROVE  Plain!AbsorbLastAd /\ Shape'
<1> DEFINE n == SourceLen - absorbed
           y == AbsorbLast(n)
<1>0. 4 \in 0..4 /\ x \in State /\ StandardX = StandardState(x) /\ pc' # "rk_mac"
  BY PlainX DEF Shape, AbsorbLastAd
<1>1. Plain!SourceLen = SourceLen
  BY DEF Plain!SourceLen, SourceLen
<1>2. y \in State /\ Plain!AbsorbLast(n) = StandardState(y)
  BY <1>0, PlainAbsorbLast
<1>3. x' = AddWord(y, 4, {0})
  BY DEF AbsorbLastAd
<1> HIDE DEF y
<1>4. x' \in State /\ StandardState(x)' = Plain!AddWord(StandardState(y), 4, {0})
  BY <1>0, <1>2, <1>3, PlainAddWord, PlainBits, ZenonT(30)
<1>5. StandardX' = Plain!AddWord(Plain!AbsorbLast(n), 4, {0})
  BY <1>0, <1>2, <1>4, PlainX
<1>6. Plain!AbsorbLastAd
  BY <1>1, <1>5 DEF AbsorbLastAd, Plain!AbsorbLastAd
<1> QED BY <1>4, <1>6 DEF AbsorbLastAd, Shape

(* Where isap_rk begins, the 64-bit builds turn the words that it reads.    *)
LEMMA StepAbsorbLastCt ==
  ASSUME Shape, AbsorbLastCt
  PROVE  Plain!AbsorbLastCt /\ Shape'
<1> DEFINE n == SourceLen - absorbed
           y == AbsorbLast(n)
           t == Plain!AbsorbLast(n)
<1>0. x \in State /\ StandardX = StandardState(x) /\ pc' = "rk_mac" /\ 0 \in 0..LastBit
  BY PlainX, WAssumption DEF Shape, AbsorbLastCt, LastBit
<1>1. Plain!SourceLen = SourceLen
  BY DEF Plain!SourceLen, SourceLen
<1>2. y \in State /\ t = StandardState(y)
  BY <1>0, PlainAbsorbLast
<1>3. x' = IF TARGET_ARCH \in BI32 THEN y
           ELSE [y EXCEPT ![0] = U64BIG[@], ![1] = U64BIG[@]]
  BY DEF AbsorbLastCt
<1>4. rk' \in State /\ StandardState(rk)' = Plain!RkState(Plain!ISAP_IV(2))
  BY PlainRkState DEF AbsorbLastCt
<1> HIDE DEF y, t
<1>5. \A i \in 0..4 : y[i] \in Word /\ U64BIG[y[i]] \in Word /\ t[i] = Standard(y[i])
  BY <1>2, BigType, StandardValue DEF State
<1>6. t \in State
  BY <1>2, StandardValue
<1>7. /\ DOMAIN t = 0..4 /\ t = [i \in 0..4 |-> t[i]]
      /\ DOMAIN y = 0..4 /\ y = [i \in 0..4 |-> y[i]]
  BY <1>2, <1>6 DEF State
<1>8. /\ [t EXCEPT ![0] = U64BIG[@], ![1] = U64BIG[@]]
           = [i \in 0..4 |-> IF i < 2 THEN U64BIG[t[i]] ELSE t[i]]
      /\ [y EXCEPT ![0] = U64BIG[@], ![1] = U64BIG[@]]
           = [i \in 0..4 |-> IF i < 2 THEN U64BIG[y[i]] ELSE y[i]]
  <2>1. t = [i \in 0..4 |-> t[i]]
    BY <1>7
  <2>2. [t EXCEPT ![0] = U64BIG[@], ![1] = U64BIG[@]]
          = [i \in 0..4 |-> IF i < 2 THEN U64BIG[t[i]] ELSE t[i]]
    BY <2>1
  <2>3. y = [i \in 0..4 |-> y[i]]
    BY <1>7
  <2>4. [y EXCEPT ![0] = U64BIG[@], ![1] = U64BIG[@]]
          = [i \in 0..4 |-> IF i < 2 THEN U64BIG[y[i]] ELSE y[i]]
    BY <2>3
  <2> QED BY <2>2, <2>4
<1>9. x' \in State /\ StandardX' = [t EXCEPT ![0] = U64BIG[@], ![1] = U64BIG[@]]
  <2>1. CASE TARGET_ARCH \in BI32
    <3>1. \A i \in 0..4 : x'[i] = y[i]
      BY <1>3, <2>1
    <3>2. StandardX' = [i \in 0..4 |-> IF i < 2 THEN U64BIG[Standard(x'[i])]
                                       ELSE Standard(x'[i])]
      BY <1>0, <2>1 DEF StandardX
    <3>3. StandardX' = [i \in 0..4 |-> IF i < 2 THEN U64BIG[t[i]] ELSE t[i]]
      BY <1>5, <3>1, <3>2
    <3> QED BY <1>2, <1>3, <1>8, <2>1, <3>3
  <2>2. CASE TARGET_ARCH \notin BI32
    <3>1. \A i \in 0..4 : t[i] = y[i]
      BY <1>5, <2>2 DEF Standard
    <3>2. x' = [i \in 0..4 |-> IF i < 2 THEN U64BIG[y[i]] ELSE y[i]]
      BY <1>3, <1>8, <2>2
    <3>3. StandardX' = [i \in 0..4 |-> x'[i]]
      BY <2>2 DEF StandardX, Standard
    <3>4. x' \in State
      BY <1>5, <3>2 DEF State
    <3>5. StandardX' = x'
      BY <3>3, <3>4 DEF State
    <3>6. t = y
      BY <1>7, <3>1
    <3> QED BY <1>8, <3>2, <3>4, <3>5, <3>6
  <2> QED BY <2>1, <2>2
<1>10. Plain!AbsorbLastCt
  BY <1>1, <1>4, <1>9, PlainNames DEF AbsorbLastCt, Plain!AbsorbLastCt, Plain!BI32, t
<1> QED BY <1>0, <1>4, <1>9, <1>10 DEF AbsorbLastCt, Shape

LEMMA StepMacTag ==
  ASSUME Shape, MacTag
  PROVE  Plain!MacTag /\ Shape'
<1> DEFINE s == [x EXCEPT ![0] = rk'[0], ![1] = rk'[1]]
           t == [StandardX EXCEPT ![0] = StandardState(rk)'[0], ![1] = StandardState(rk)'[1]]
<1>0. x \in State /\ pc' # "rk_mac"
  BY DEF Shape, MacTag
<1>1. rk' \in State /\ StandardState(rk)' = Plain!LastRkState
  BY PlainLastRkState DEF MacTag, Shape
<1>2. \A i \in 0..4 : rk'[i] \in Word /\ StandardState(rk)'[i] = Standard(rk'[i])
  BY <1>1 DEF State, StandardState
<1>3. \A i \in 0..4 : x[i] \in Word /\ (~(i < 2) => StandardX[i] = Standard(x[i]))
  BY <1>0 DEF State, StandardX
<1>4. s = [i \in 0..4 |-> IF i < 2 THEN rk'[i] ELSE x[i]]
  <2>1. x = [i \in 0..4 |-> x[i]]
    BY <1>0 DEF State
  <2> QED BY <2>1
<1>5. StandardX = [i \in 0..4 |-> StandardX[i]]
  BY DEF StandardX
<1>6. t = [i \in 0..4 |-> IF i < 2 THEN StandardState(rk)'[i] ELSE StandardX[i]]
  BY <1>5
<1>7. x' = PERM(sH, s)
  BY DEF MacTag
<1> HIDE DEF s, t
<1>8. s \in State
  BY <1>2, <1>3, <1>4 DEF State
<1>9. t = StandardState(s)
  <2>1. \A i \in 0..4 : Standard(s[i]) = IF i < 2 THEN StandardState(rk)'[i] ELSE StandardX[i]
    BY <1>2, <1>3, <1>4
  <2> QED BY <1>6, <2>1 DEF StandardState
<1>10. x' \in State /\ StandardState(x)' = Plain!PERM(Plain!sH, t)
  BY <1>7, <1>8, <1>9, PlainPermute, RoundCounts
<1>11. StandardX' = StandardState(x)'
  BY <1>0, PlainX
<1>12. Plain!Tag(mem, call.tag, StandardX') = Tag(mem, call.tag, x')
  BY <1>10, <1>11, PlainTag DEF Shape
<1>13. StandardX' = Plain!PERM(Plain!sH, [StandardX EXCEPT ![0] = StandardState(rk)'[0],
                                                           ![1] = StandardState(rk)'[1]])
  BY <1>10, <1>11 DEF t
<1>14. Plain!MacTag
  BY <1>1, <1>12, <1>13, PlainBits DEF MacTag, Plain!MacTag
<1> QED BY <1>1, <1>10, <1>14 DEF MacTag, Shape

LEMMA StepVerify ==
  ASSUME Shape, Verify
  PROVE  Plain!Verify /\ Shape'
<1>1. x \in State /\ StandardX = StandardState(x) /\ pc = "verify" /\ x' = x
  BY PlainX DEF Shape, Verify
<1>2. Plain!success = success
  BY <1>1, PlainSuccess
<1>3. pc' # "rk_mac"
  BY DEF Verify, EnterEnc
<1>4. StandardX' = StandardX
  BY <1>1, <1>3, PlainX
<1>5. UNCHANGED rk => UNCHANGED StandardState(rk)
  OBVIOUS
<1>6. EnterEnc => Plain!EnterEnc /\ rk' \in State /\ bit' \in 0..LastBit
  BY StepEnterEnc
<1>7. Plain!Verify
  BY <1>2, <1>4, <1>5, <1>6 DEF Verify, Plain!Verify
<1>8. rk' \in State /\ bit' \in 0..LastBit
  BY <1>6 DEF Verify, Shape
<1> QED BY <1>1, <1>7, <1>8 DEF Verify, Shape

LEMMA StepCall ==
  ASSUME Shape, CallStep
  PROVE  Plain!CallStep /\ Shape'
  BY StepEncryptStart, StepRkBit, StepEncKey, StepSqueeze, StepMacStart, StepAbsorbLane,
     StepAbsorbLastAd, StepAbsorbLastCt, StepMacTag, StepVerify
     DEF CallStep, Plain!CallStep

------------------------------------------------------------------------------
(* The callers and their channel are the same whatever the build: their     *)
(* definitions, written out, are.                                           *)

LEMMA PlainEntries ==
  /\ Plain!FirstEntries = FirstEntries
  /\ \A m, e : Plain!NextEntries(m, e) = NextEntries(m, e)
<1> USE DEF Plain!Fitting, Fitting, Plain!IsCall, IsCall, Plain!Array, Array,
            Plain!Byte, Byte, Plain!TagLen, TagLen, Plain!Addr, Addr,
            Plain!EncryptEntry, EncryptEntry, Plain!DecryptEntry, DecryptEntry,
            Plain!MakeCall, MakeCall, Plain!Write, Write, Plain!Region, Region,
            Plain!Length, Length, Plain!Cardinality, Cardinality
<1>1. Plain!FirstEntries = FirstEntries
  BY DEF Plain!FirstEntries, FirstEntries
<1>2. \A m, e : Plain!NextEntries(m, e) = NextEntries(m, e)
  BY DEF Plain!NextEntries, NextEntries, Plain!Alterations, Alterations,
     Plain!Flip, Flip, Plain!XOR, XOR, Plain!Chop, Chop, Plain!Slice, Slice,
     Plain!Extend, Extend, Plain!Prepend, Prepend, Plain!InPlace, InPlace
<1> QED BY <1>1, <1>2, Zenon

LEMMA PlainTransaction ==
  \A c, before, after, r : Plain!Transaction(c, before, after, r)
                             = Transaction(c, before, after, r)
  BY DEF Plain!Transaction, Transaction, Plain!Slice, Slice, Plain!TagLen, TagLen

LEMMA StepSession ==
  ASSUME Shape, [SessionNext]_sessionVars
  PROVE  [Plain!SessionNext]_Plain!sessionVars /\ Shape'
<1>1. CASE Work
  <2>1. CallStep
    BY <1>1 DEF Work
  <2>2. Plain!CallStep /\ Shape'
    BY <2>1, StepCall
  <2>3. Plain!Transaction(call, entryMem, mem', ret') = Transaction(call, entryMem, mem', ret')
    BY PlainTransaction
  <2>4. Plain!Work
    BY <1>1, <2>2, <2>3 DEF Work, Plain!Work
  <2> QED BY <2>2, <2>4 DEF Plain!SessionNext
<1>2. CASE EnterNext
  <2>1. PICK e \in log : \E n \in NextEntries(mem, e) : EnterCall(n.call, n.mem)
    BY <1>2 DEF EnterNext
  <2>2. PICK n \in NextEntries(mem, e) : EnterCall(n.call, n.mem)
    BY <2>1
  <2>3. n \in Plain!NextEntries(mem, e)
    BY <2>2, PlainEntries
  <2>4. StandardX' = StandardX
    BY <2>2, PlainX DEF EnterCall
  <2>5. Plain!EnterCall(n.call, n.mem)
    BY <2>2, <2>4 DEF EnterCall, Plain!EnterCall
  <2>6. Plain!EnterNext
    BY <1>2, <2>1, <2>3, <2>5 DEF EnterNext, Plain!EnterNext
  <2>7. IsCall(n.call) /\ 0 \in 0..LastBit
    BY <2>2, WAssumption DEF NextEntries, Fitting, LastBit
  <2>8. Shape'
    BY <2>2, <2>7 DEF EnterCall, Shape, IsCall
  <2> QED BY <2>6, <2>8 DEF Plain!SessionNext
<1>3. CASE Finished \/ UNCHANGED sessionVars
  <2>1. UNCHANGED sessionVars
    BY <1>3 DEF Finished
  <2>2. UNCHANGED Plain!sessionVars
    BY <2>1 DEF sessionVars, vars, Plain!sessionVars, Plain!vars, StandardX
  <2>3. Shape'
    BY <2>1 DEF sessionVars, vars, Shape
  <2> QED BY <2>2, <2>3
<1> QED BY <1>1, <1>2, <1>3 DEF SessionNext

LEMMA FirstState == SessionInit => Plain!SessionInit /\ Shape
<1> SUFFICES ASSUME SessionInit PROVE Plain!SessionInit /\ Shape
  OBVIOUS
<1> DEFINE z == [i \in 0..4 |-> {}]
<1>1. x = z /\ rk = z /\ pc = "start" /\ bit = 0
  BY DEF SessionInit
<1>2. z \in State /\ StandardState(z) = z
  BY PlainBits DEF State, StandardState
<1>3. StandardX = z /\ StandardState(rk) = z
  BY <1>1, <1>2, PlainX
<1>4. PICK n \in FirstEntries : call = n.call /\ mem = n.mem
  BY DEF SessionInit
<1>5. IsCall(call) /\ 0 \in 0..LastBit
  BY <1>4, WAssumption DEF FirstEntries, Fitting, LastBit
<1>6. \E k \in Plain!FirstEntries : call = k.call /\ mem = k.mem
  BY <1>4, PlainEntries
<1>7. Plain!SessionInit
  BY <1>3, <1>6 DEF SessionInit, Plain!SessionInit
<1>8. Shape
  BY <1>1, <1>2, <1>5 DEF Shape, IsCall
<1> QED BY <1>7, <1>8

(* In every build, with words of every size, in both variants, for all       *)
(* inputs, layouts and numbers of calls, each step of isap_a_encrypt and    *)
(* isap_a_decrypt is a step of the 64-bit code on the words that both       *)
(* states represent, with the same memory, counters and return value: each  *)
(* bit that isap_rk absorbs, each lane, the padding and the domain bit.     *)
THEOREM BuildsImplementPlain == SessionSpec => SameAsPlain
<1>1. SessionInit => Plain!SessionInit /\ Shape
  BY FirstState
<1>2. Shape /\ [SessionNext]_sessionVars
        => [Plain!SessionNext]_Plain!sessionVars /\ Shape'
  BY StepSession
<1> QED BY <1>1, <1>2, PTL DEF SessionSpec, SameAsPlain

------------------------------------------------------------------------------
(***************************************************************************)
(* What ISAP computes, as functions of the key, the nonce, the associated  *)
(* data and the text of a call or of its record c.                         *)
(***************************************************************************)

(* isap_rk: its first state, the state after p bits of y, and its output. *)
RkBegun(key, iv) ==
  PERM(sK, [i \in 0..4 |-> CASE i = 0 -> LOAD(key, 0) [] i = 1 -> LOAD(key, W)
                             [] i = 2 -> LOAD(iv, 0) [] i \in {3, 4} -> {}])
AddBit(s, y, p) == IF (7 - (p % 8)) \in y[p \div 8] THEN AddWord(s, 0, {TopBit}) ELSE s
Rekeying(key, y, iv) ==
  Walk([p \in Nat |-> [s \in State |-> PERM(sB, AddBit(s, y, p))]],
       RkBegun(key, iv))
Rekeyed(key, y, iv) == PERM(sK, AddBit(Rekeying(key, y, iv)[LastBit], y, LastBit))

(* isap_enc: its states, its key stream, and what becomes of n bytes. *)
EncBegun(c, k) == [i \in 0..4 |-> CASE i \in {0, 1, 2} -> k[i]
                                    [] i = 3 -> LOAD(c.nonce, 0)
                                    [] i = 4 -> LOAD(c.nonce, W)]
Squeezing(c) == Walk([p \in Nat |-> [s \in State |-> PERM(sE, s)]],
                     EncBegun(c, Rekeyed(c.key, c.nonce, ISAP_IV(3))))
KeyByte(c, i) == OutByte(OUT(Squeezing(c)[(i \div W) + 1][0]), i % W)
Crypt(c, b, n) == [i \in 0..(n - 1) |-> XOR(b[i], KeyByte(c, i))]

(* isap_mac: the state after p lanes of b, after all of its n bytes, after  *)
(* everything, and at the end.                                              *)
Absorbing(b, s) == Walk([p \in Nat |-> [z \in State |->
                           PERM(sH, AddWord(z, 0, LOAD(b, W * p)))]], s)
Padded(b, p, n) ==
  LET lane == [j \in 0..(W - 1) |-> IF j < n THEN b[p + j] ELSE IF j = n THEN {7} ELSE {}]
  IN  IF n > 0 THEN LOAD(lane, 0) ELSE {TopBit}
AllAbsorbed(b, n, s) ==
  PERM(sH, AddWord(Absorbing(b, s)[n \div W], 0, Padded(b, W * (n \div W), n % W)))
MacBegun(c) ==
  PERM(sH, [i \in 0..4 |-> CASE i = 0 -> LOAD(c.nonce, 0) [] i = 1 -> LOAD(c.nonce, W)
                             [] i = 2 -> LOAD(ISAP_IV(1), 0) [] i \in {3, 4} -> {}])
AdAbsorbed(c) == AddWord(AllAbsorbed(c.ad, Length(c.ad), MacBegun(c)), 4, {0})
MacAbsorbed(c, b, n) ==
  LET y == AllAbsorbed(b, n, AdAbsorbed(c))
  IN  IF TARGET_ARCH \in BI32 THEN y ELSE [y EXCEPT ![0] = U64BIG[@], ![1] = U64BIG[@]]
KeyInput(s) ==
  [j \in 0..(2 * W - 1) |->
    OutByte(IF TARGET_ARCH \in BI32 THEN OUT(s[j \div W]) ELSE s[j \div W], j % W)]
MacEnded(c, b, n) ==
  LET y == MacAbsorbed(c, b, n)
      k == Rekeyed(c.key, KeyInput(y), ISAP_IV(2))
  IN  PERM(sH, [y EXCEPT ![0] = k[0], ![1] = k[1]])
TagOf(c, b, n) == Tag([i \in 0..(TagLen - 1) |-> {}], 0, MacEnded(c, b, n))

------------------------------------------------------------------------------
(* The walks are among states, turn by turn.                                *)

LEMMA LaneIndex ==
  /\ W \in Nat /\ W > 0 /\ LastBit \in Nat
  /\ \A k \in Nat : /\ W * k \in Nat /\ W * (k + 1) = (W * k) + W
                    /\ \A j \in 0..(W - 1) : (W * k + j) \div W = k /\ (W * k + j) % W = j
<1>1. CASE W = 2
  BY <1>1 DEF LastBit
<1>2. CASE W = 4
  BY <1>2 DEF LastBit
<1>3. CASE W = 8
  BY <1>3 DEF LastBit
<1> QED BY <1>1, <1>2, <1>3, WAssumption

LEMMA Starts ==
  /\ \A a, b, c \in Word :
       /\ [i \in 0..4 |-> CASE i = 0 -> a [] i = 1 -> b [] i = 2 -> c
                            [] i \in {3, 4} -> {}] \in State
  /\ \A s \in State : \A a, b \in Word :
       [i \in 0..4 |-> CASE i \in {0, 1, 2} -> s[i] [] i = 3 -> a [] i = 4 -> b] \in State
<1>1. {} \in Word
  BY DEF Word
<1> QED BY <1>1 DEF State

LEMMA AddBitType ==
  ASSUME NEW s \in State, NEW y, NEW p PROVE AddBit(s, y, p) \in State
<1>1. {TopBit} \in Word
  BY WAssumption DEF TopBit, Word, Bits
<1> QED BY <1>1, AddWordType DEF AddBit

LEMMA RkBegunType == \A key, iv : RkBegun(key, iv) \in State
<1> TAKE key, iv
<1> DEFINE z == [i \in 0..4 |-> CASE i = 0 -> LOAD(key, 0) [] i = 1 -> LOAD(key, W)
                                  [] i = 2 -> LOAD(iv, 0) [] i \in {3, 4} -> {}]
<1>1. z \in State
  BY Starts, IsapLoadType
<1>2. RkBegun(key, iv) = PERM(sK, z)
  BY DEF RkBegun
<1> HIDE DEF z
<1> QED BY <1>1, <1>2, PermType

LEMMA RekeyingIs ==
  ASSUME NEW key, NEW y, NEW iv
  PROVE  /\ Rekeying(key, y, iv)[0] = RkBegun(key, iv)
         /\ \A p \in Nat : /\ Rekeying(key, y, iv)[p] \in State
                           /\ Rekeying(key, y, iv)[p + 1]
                                = PERM(sB, AddBit(Rekeying(key, y, iv)[p], y, p))
<1> DEFINE g == [p \in Nat |-> [s \in State |-> PERM(sB, AddBit(s, y, p))]]
           s0 == RkBegun(key, iv)
           r == Rekeying(key, y, iv)
<1>1. r = Walk(g, s0)
  BY DEF Rekeying
<1>2. s0 \in State
  BY RkBegunType
<1>3. \A p \in Nat : \A s \in State : g[p][s] \in State /\ g[p][s] = PERM(sB, AddBit(s, y, p))
  BY AddBitType, PermType
<1> HIDE DEF g, r, s0
<1>4. \A p \in Nat : r[p] \in State
  BY <1>1, <1>2, <1>3, WalkType
<1>5. r[0] = s0 /\ \A p \in Nat : r[p + 1] = g[p][r[p]]
  BY <1>1, WalkIs
<1>6. r[0] = s0 /\ \A p \in Nat : r[p] \in State /\ r[p + 1] = PERM(sB, AddBit(r[p], y, p))
  BY <1>3, <1>4, <1>5
<1> QED BY <1>6 DEF r, s0

LEMMA RekeyedType ==
  ASSUME NEW key, NEW y, NEW iv PROVE Rekeyed(key, y, iv) \in State
<1>1. Rekeying(key, y, iv)[LastBit] \in State
  BY LaneIndex, RekeyingIs
<1> QED BY <1>1, AddBitType, PermType DEF Rekeyed

LEMMA SqueezingIs ==
  ASSUME NEW c
  PROVE  /\ Squeezing(c)[0] = EncBegun(c, Rekeyed(c.key, c.nonce, ISAP_IV(3)))
         /\ \A p \in Nat : /\ Squeezing(c)[p] \in State
                           /\ Squeezing(c)[p + 1] = PERM(sE, Squeezing(c)[p])
<1> DEFINE g == [p \in Nat |-> [s \in State |-> PERM(sE, s)]]
           k == Rekeyed(c.key, c.nonce, ISAP_IV(3))
           z == EncBegun(c, k)
           r == Squeezing(c)
<1>1. z \in State
  <2>1. k \in State
    BY RekeyedType
  <2> HIDE DEF k
  <2> QED BY <2>1, Starts, IsapLoadType DEF EncBegun
<1>2. r = Walk(g, z)
  BY DEF Squeezing
<1>3. \A p \in Nat : \A s \in State : g[p][s] \in State /\ g[p][s] = PERM(sE, s)
  BY PermType
<1> HIDE DEF g, r, z
<1>4. \A p \in Nat : r[p] \in State
  BY <1>1, <1>2, <1>3, WalkType
<1>5. r[0] = z /\ \A p \in Nat : r[p + 1] = g[p][r[p]]
  BY <1>2, WalkIs
<1>6. r[0] = z /\ \A p \in Nat : r[p] \in State /\ r[p + 1] = PERM(sE, r[p])
  BY <1>3, <1>4, <1>5
<1> QED BY <1>6 DEF r, z, k

LEMMA AbsorbingIs ==
  ASSUME NEW b, NEW s \in State
  PROVE  LET r == Absorbing(b, s)
         IN  /\ r[0] = s
             /\ \A p \in Nat : /\ r[p] \in State
                               /\ r[p + 1] = PERM(sH, AddWord(r[p], 0, LOAD(b, W * p)))
<1> DEFINE g == [p \in Nat |-> [z \in State |-> PERM(sH, AddWord(z, 0, LOAD(b, W * p)))]]
           r == Absorbing(b, s)
<1>1. r = Walk(g, s)
  BY DEF Absorbing
<1>2. \A p \in Nat : \A z \in State :
        g[p][z] \in State /\ g[p][z] = PERM(sH, AddWord(z, 0, LOAD(b, W * p)))
  BY AddWordType, IsapLoadType, PermType
<1> HIDE DEF g, r
<1>3. \A p \in Nat : r[p] \in State
  BY <1>1, <1>2, WalkType
<1>4. r[0] = s /\ \A p \in Nat : r[p + 1] = g[p][r[p]]
  BY <1>1, WalkIs
<1>5. r[0] = s /\ \A p \in Nat : /\ r[p] \in State
                                 /\ r[p + 1] = PERM(sH, AddWord(r[p], 0, LOAD(b, W * p)))
  BY <1>2, <1>3, <1>4
<1> QED BY <1>5 DEF r

LEMMA AllAbsorbedType ==
  /\ \A b, n : \A s \in State : AllAbsorbed(b, n, s) \in State \/ n \notin Nat
  /\ \A c : MacBegun(c) \in State
<1>1. ASSUME NEW b, NEW n \in Nat, NEW s \in State PROVE AllAbsorbed(b, n, s) \in State
  <2>1. n \div W \in Nat
    BY LaneIndex
  <2>2. {TopBit} \in Word
    BY WAssumption DEF TopBit, Word, Bits
  <2>3. Padded(b, W * (n \div W), n % W) \in Word
    BY <2>2, IsapLoadType DEF Padded
  <2>4. Absorbing(b, s)[n \div W] \in State
    BY <2>1, AbsorbingIs
  <2> QED BY <2>3, <2>4, AddWordType, PermType DEF AllAbsorbed
<1>2. ASSUME NEW c PROVE MacBegun(c) \in State
  <2> DEFINE z == [i \in 0..4 |-> CASE i = 0 -> LOAD(c.nonce, 0) [] i = 1 -> LOAD(c.nonce, W)
                             [] i = 2 -> LOAD(ISAP_IV(1), 0) [] i \in {3, 4} -> {}]
  <2>1. z \in State
    BY Starts, IsapLoadType
  <2>2. MacBegun(c) = PERM(sH, z)
    BY DEF MacBegun
  <2> HIDE DEF z
  <2> QED BY <2>1, <2>2, PermType
<1> QED BY <1>1, <1>2

------------------------------------------------------------------------------
(* What a call has computed, at every step of it.                           *)

Given == Slice(entryMem, call.src, call.len)
Made  == Slice(mem, call.dst, call.len)
Cipher == IF call.op = "encrypt" THEN Made ELSE Given

Verdict ==
  IF TagOf(call, Given, call.len) = Slice(entryMem, call.tag, TagLen) THEN 0 ELSE -1

Places ==
  /\ call.op = "encrypt" /\ pc \in {"start", "rk_enc"} => pos = 0 \/ call.len = 0
  /\ call.op = "encrypt" /\ pc \in {"mac", "ad", "ct", "rk_mac", "returned"} => pos = call.len
  /\ call.op = "decrypt" /\ pc \notin {"squeeze", "returned"} => pos = 0
  /\ call.op = "decrypt" /\ pc = "returned" => pos = call.len \/ ret = -1

Keys ==
  /\ pc = "rk_enc" => rk = Rekeying(call.key, call.nonce, ISAP_IV(3))[bit]
  /\ pc = "rk_mac" => rk = Rekeying(call.key, KeyInput(x), ISAP_IV(2))[bit]

Text ==
  /\ pc = "squeeze" => \E k \in Nat : pos = W * k /\ x = Squeezing(call)[k]
  /\ \A i \in 0..(pos - 1) : mem[call.dst + i] = XOR(entryMem[call.src + i], KeyByte(call, i))

Mac ==
  /\ pc = "ad" => \E k \in Nat : absorbed = W * k /\ x = Absorbing(call.ad, MacBegun(call))[k]
  /\ pc = "ct" => \E k \in Nat : absorbed = W * k /\ x = Absorbing(Cipher, AdAbsorbed(call))[k]
  /\ pc = "rk_mac" => x = MacAbsorbed(call, Cipher, call.len)
  /\ pc = "verify" => x = MacEnded(call, Cipher, call.len)
  /\ call.op = "decrypt" /\ pc \in {"rk_enc", "squeeze", "returned"} => ret = Verdict

Computes == Places /\ Keys /\ Text /\ Mac

LEMMA PlacesStep == TypeOK /\ Places /\ [Next]_vars => Places'
<1> SUFFICES ASSUME TypeOK, Places, [Next]_vars PROVE Places'
  OBVIOUS
<1>0. call.op \in {"encrypt", "decrypt"} /\ pos \in 0..call.len /\ call.len \in Nat
  BY DEF TypeOK, IsCall
<1> USE DEF Places
<1>1. CASE EncryptStart
  BY <1>1 DEF EncryptStart, EnterEnc
<1>2. CASE RkBit
  BY <1>2 DEF RkBit
<1>3. CASE EncKey
  BY <1>3 DEF EncKey
<1>4. CASE SqueezeLane
  BY <1>4 DEF SqueezeLane
<1>5. CASE SqueezeLast
  <2>1. pos' = call.len
    BY <1>0, <1>5 DEF SqueezeLast, Squeeze
  <2> QED BY <1>5, <2>1 DEF SqueezeLast
<1>6. CASE MacStart
  BY <1>0, <1>6 DEF MacStart
<1>7. CASE AbsorbLane
  BY <1>7 DEF AbsorbLane
<1>8. CASE AbsorbLastAd
  BY <1>8 DEF AbsorbLastAd
<1>9. CASE AbsorbLastCt
  BY <1>9 DEF AbsorbLastCt
<1>10. CASE MacTag
  BY <1>10 DEF MacTag
<1>11. CASE Verify
  <2>1. call.op = "decrypt"
    BY <1>11 DEF Verify, TypeOK
  <2>2. success \in {0, -1}
    BY DEF success
  <2> QED BY <1>0, <1>11, <2>1, <2>2 DEF Verify, EnterEnc
<1>12. CASE CallerStep
  BY <1>12 DEF CallerStep, EnterCall
<1>13. CASE UNCHANGED vars
  BY <1>13 DEF vars
<1> QED BY <1>1, <1>2, <1>3, <1>4, <1>5, <1>6, <1>7, <1>8, <1>9, <1>10, <1>11, <1>12,
           <1>13 DEF Next, CallStep

LEMMA KeyInputAt ==
  \A j \in 0..(2 * W - 1) :
    KeyInput(x)[j] = OutByte(IF TARGET_ARCH \in BI32 THEN OUT(x[j \div W]) ELSE x[j \div W], j % W)
  BY DEF KeyInput

(* A bit of the nonce, or of what isap_mac has absorbed, on its way in. *)
LEMMA AddBitIs ==
  ASSUME TypeOK, NEW s
  PROVE  /\ pc = "rk_enc" => AbsorbBit(s) = AddBit(s, call.nonce, bit)
         /\ pc = "rk_mac" => AbsorbBit(s) = AddBit(s, KeyInput(x), bit)
<1>1. bit \div 8 \in 0..(2 * W - 1)
  BY WAssumption DEF TypeOK, LastBit
<1>2. pc = "rk_enc" => YByte(bit \div 8) = call.nonce[bit \div 8]
  BY DEF YByte
<1>3. pc = "rk_mac" => YByte(bit \div 8) = KeyInput(x)[bit \div 8]
  BY <1>1, KeyInputAt DEF YByte
<1> QED BY <1>2, <1>3 DEF AbsorbBit, AddBit

LEMMA LastRkStateIs ==
  ASSUME TypeOK, Keys, bit = LastBit
  PROVE  /\ pc = "rk_enc" => LastRkState = Rekeyed(call.key, call.nonce, ISAP_IV(3))
         /\ pc = "rk_mac" => LastRkState = Rekeyed(call.key, KeyInput(x), ISAP_IV(2))
  BY AddBitIs DEF Keys, LastRkState, Rekeyed

LEMMA RkStateIs ==
  ASSUME NEW y, NEW iv PROVE RkState(iv) = Rekeying(call.key, y, iv)[0]
<1>1. RkState(iv) = RkBegun(call.key, iv)
  BY DEF RkState, RkBegun
<1> QED BY <1>1, RekeyingIs

LEMMA KeysStep == TypeOK /\ Keys /\ [Next]_vars => Keys'
<1> SUFFICES ASSUME TypeOK, Keys, [Next]_vars PROVE Keys'
  OBVIOUS
<1>1. CASE EncryptStart \/ Verify
  <2>1. \/ EnterEnc /\ UNCHANGED call
        \/ pc' = "returned"
    BY <1>1 DEF EncryptStart, Verify
  <2> QED BY <2>1, RkStateIs DEF EnterEnc, Keys
<1>2. CASE RkBit
  <2>1. /\ pc \in {"rk_enc", "rk_mac"} /\ UNCHANGED <<call, x, pc>>
        /\ rk' = PERM(sB, AbsorbBit(rk)) /\ bit' = bit + 1 /\ bit \in Nat
    BY <1>2, LaneIndex DEF RkBit, TypeOK
  <2>2. CASE pc = "rk_enc"
    <3>1. rk = Rekeying(call.key, call.nonce, ISAP_IV(3))[bit]
          /\ AbsorbBit(rk) = AddBit(rk, call.nonce, bit)
      BY <2>2, AddBitIs DEF Keys
    <3> DEFINE r == Rekeying(call.key, call.nonce, ISAP_IV(3))
    <3>2. \A p \in Nat : r[p + 1] = PERM(sB, AddBit(r[p], call.nonce, p))
      BY RekeyingIs
    <3>4. rk' = r[bit'] /\ bit' = bit + 1
      <4> HIDE DEF r
      <4>1. rk = r[bit]
        BY <3>1 DEF r
      <4> QED BY <2>1, <3>1, <3>2, <4>1
    <3> QED BY <2>1, <2>2, <3>4 DEF Keys
  <2>3. CASE pc = "rk_mac"
    <3>1. rk = Rekeying(call.key, KeyInput(x), ISAP_IV(2))[bit]
          /\ AbsorbBit(rk) = AddBit(rk, KeyInput(x), bit)
      BY <2>3, AddBitIs DEF Keys
    <3> DEFINE r == Rekeying(call.key, KeyInput(x), ISAP_IV(2))
    <3>2. \A p \in Nat : r[p + 1] = PERM(sB, AddBit(r[p], KeyInput(x), p))
      BY RekeyingIs
    <3>4. rk' = r[bit'] /\ bit' = bit + 1
      <4> HIDE DEF r
      <4>1. rk = r[bit]
        BY <3>1 DEF r
      <4> QED BY <2>1, <3>1, <3>2, <4>1
    <3>3. KeyInput(x)' = KeyInput(x)
      BY <2>1 DEF KeyInput
    <3> QED BY <2>1, <2>3, <3>4, <3>3 DEF Keys
  <2> QED BY <2>1, <2>2, <2>3
<1>3. CASE AbsorbLastCt
  BY <1>3, RkStateIs DEF AbsorbLastCt, Keys
<1>4. CASE EncKey \/ SqueezeLane \/ SqueezeLast \/ MacStart \/ AbsorbLane \/ AbsorbLastAd
           \/ MacTag \/ CallerStep
  BY <1>4 DEF EncKey, SqueezeLane, SqueezeLast, MacStart, AbsorbLane, AbsorbLastAd, MacTag,
              CallerStep, EnterCall, Keys
<1>5. CASE UNCHANGED vars
  BY <1>5 DEF vars, Keys, KeyInput
<1> QED BY <1>1, <1>2, <1>3, <1>4, <1>5 DEF Next, CallStep

(* The next n bytes of the text, at most a lane of them. *)
LEMMA SqueezeText ==
  ASSUME TypeOK, WritesOnlyOutput, Text, pc = "squeeze", NEW n \in 1..W,
         pos + n <= call.len, Squeeze(n)
  PROVE  /\ \E k \in Nat : pos = W * k /\ x' = Squeezing(call)[k + 1]
         /\ \A i \in 0..((pos + n) - 1) :
              mem'[call.dst + i] = XOR(entryMem[call.src + i], KeyByte(call, i))
<1>0. /\ W \in Nat /\ n \in Nat /\ pos \in Nat /\ call.len \in Nat
      /\ call.src \in Nat /\ call.dst \in Nat
      /\ call.dst <= call.src \/ call.src + call.len <= call.dst
      /\ \A i \in 0..(call.len - 1) : call.dst + i \in Addr
      /\ \A i \in 0..(call.len - 1) : call.src + i \in Addr
  <2>1. /\ call.src + call.len <= MemSize /\ call.dst + call.len <= MemSize
        /\ call.src \in Nat /\ call.dst \in Nat /\ call.len \in Nat
    BY DEF TypeOK, IsCall
  <2>2. \A p, n0 \in Nat : p + n0 <= MemSize => \A i \in 0..(n0 - 1) : p + i \in Addr
    BY MemAssumption DEF Addr
  <2> QED BY <2>1, <2>2, LaneIndex DEF TypeOK, IsCall
<1>1. PICK k \in Nat : pos = W * k /\ x = Squeezing(call)[k]
  BY DEF Text
<1>2. x' = Squeezing(call)[k + 1]
  <2>1. \A p \in Nat : Squeezing(call)[p + 1] = PERM(sE, Squeezing(call)[p])
    BY SqueezingIs
  <2> QED BY <1>1, <2>1 DEF Squeeze
<1>3. ASSUME NEW i \in 0..((pos + n) - 1)
      PROVE  mem'[call.dst + i] = XOR(entryMem[call.src + i], KeyByte(call, i))
  <2>1. CASE i < pos
    <3>1. call.dst + i \notin Region(call.dst + pos, n) /\ call.dst + i \in Addr
      BY <1>0, <1>3, <2>1 DEF Region
    <3>2. mem'[call.dst + i] = mem[call.dst + i]
      BY <1>0, <3>1, SqueezeStep
    <3>3. i \in 0..(pos - 1)
      BY <1>0, <2>1
    <3> QED BY <3>2, <3>3 DEF Text
  <2>2. CASE ~(i < pos)
    <3> DEFINE j == i - pos
               a == call.dst + i
    <3>1. /\ j \in 0..(W - 1) /\ j \in 0..(n - 1) /\ a \in Region(call.dst + pos, n)
          /\ a \in Addr /\ a - (call.dst + pos) = j /\ call.src + pos + j = call.src + i
          /\ i = pos + j /\ call.src + i \in Addr
          /\ call.src + i \notin Region(call.dst, pos)
      BY <1>0, <1>3, <2>2 DEF Region
    <3> HIDE DEF j, a
    <3>2. mem' = XorText(x'[0], n)
      BY DEF Squeeze
    <3>3. mem'[a] = XOR(mem[call.src + pos + j], OutByte(OUT(x'[0]), j))
      BY <3>1, <3>2 DEF XorText
    <3>4. mem[call.src + i] = entryMem[call.src + i]
      BY <3>1 DEF WritesOnlyOutput
    <3>5. i \div W = k /\ i % W = j
      BY <1>1, <3>1, LaneIndex
    <3>6. KeyByte(call, i) = OutByte(OUT(x'[0]), j)
      BY <1>2, <3>5 DEF KeyByte
    <3> QED BY <3>1, <3>3, <3>4, <3>6 DEF a
  <2> QED BY <2>1, <2>2
<1> QED BY <1>1, <1>2, <1>3

(* Nothing but the tag is written outside isap_enc, and that apart. *)
LEMMA TextKept ==
  ASSUME TypeOK, Text, pc' # "squeeze", UNCHANGED <<call, entryMem, pos>>,
         mem' = mem \/ MacTag
  PROVE  Text'
<1>1. ASSUME NEW i \in 0..(pos - 1) PROVE mem'[call.dst + i] = mem[call.dst + i]
  <2>1. CASE mem' = mem
    BY <2>1
  <2>2. CASE mem' = Tag(mem, call.tag, x')
    <3>1. call.dst + i \in Addr /\ call.dst + i \notin Region(call.tag, TagLen)
      <4>1. /\ call.dst \in Nat /\ call.tag \in Nat /\ i \in Nat /\ i < call.len
            /\ call.len \in Nat /\ TagLen \in Nat /\ call.dst + call.len <= MemSize
            /\ call.tag + TagLen <= call.dst \/ call.dst + call.len <= call.tag
        BY LaneIndex DEF TypeOK, IsCall, TagLen
      <4> QED BY <4>1, MemAssumption DEF Addr, Region
    <3> QED BY <2>2, <3>1, TagType DEF TypeOK
  <2> QED BY <2>1, <2>2 DEF MacTag
<1> QED BY <1>1 DEF Text, KeyByte, Squeezing, EncBegun

LEMMA TextStep ==
  TypeOK /\ WritesOnlyOutput /\ Places /\ Keys /\ Text /\ [Next]_vars => Text'
<1> SUFFICES ASSUME TypeOK, WritesOnlyOutput, Places, Keys, Text, [Next]_vars PROVE Text'
  OBVIOUS
<1>0. /\ W \in Nat /\ W > 0 /\ pos \in Nat /\ call.len \in Nat /\ pos <= call.len
      /\ call.op \in {"encrypt", "decrypt"}
  BY LaneIndex DEF TypeOK, IsCall
<1>1. CASE EncryptStart
  BY <1>1, TextKept DEF EncryptStart, EnterEnc
<1>2. CASE Verify
  BY <1>2, TextKept DEF Verify, EnterEnc
<1>3. CASE RkBit \/ MacStart \/ AbsorbLane \/ AbsorbLastAd \/ AbsorbLastCt \/ MacTag
  BY <1>3, TextKept DEF RkBit, MacStart, AbsorbLane, AbsorbLastAd, AbsorbLastCt, MacTag
<1>4. CASE EncKey
  <2>1. UNCHANGED <<mem, call, pos, entryMem>> /\ pc = "rk_enc" /\ bit = LastBit /\ rk' = LastRkState
    BY <1>4 DEF EncKey
  <2>2. x' = EncBegun(call, rk')
    BY <1>4, Zenon DEF EncKey, EncBegun
  <2>3. rk' = Rekeyed(call.key, call.nonce, ISAP_IV(3))
    BY <2>1, LastRkStateIs
  <2>4. x' = Squeezing(call)[0]
    BY <2>2, <2>3, SqueezingIs
  <2>5. pos = W * 0
    BY <1>0, <2>1 DEF Places
  <2>6. \E k \in Nat : pos = W * k /\ x' = Squeezing(call)[k]
    BY <2>4, <2>5
  <2> QED BY <2>1, <2>6 DEF Text
<1>5. CASE SqueezeLane
  <2>1. /\ UNCHANGED <<call, pc, entryMem>> /\ pc = "squeeze" /\ W \in 1..W
        /\ pos + W <= call.len /\ Squeeze(W) /\ pos' = pos + W
    BY <1>0, <1>5 DEF SqueezeLane, Squeeze
  <2>2. /\ \E k \in Nat : pos = W * k /\ x' = Squeezing(call)[k + 1]
        /\ \A i \in 0..((pos + W) - 1) :
              mem'[call.dst + i] = XOR(entryMem[call.src + i], KeyByte(call, i))
    BY <2>1, SqueezeText
  <2>3. \E k \in Nat : pos' = W * k /\ x' = Squeezing(call)[k]
    <3>1. PICK k \in Nat : pos = W * k /\ x' = Squeezing(call)[k + 1]
      BY <2>2
    <3>2. pos' = W * (k + 1) /\ k + 1 \in Nat
      BY <2>1, <3>1, LaneIndex
    <3> QED BY <3>1, <3>2
  <2> QED BY <2>1, <2>2, <2>3 DEF Text
<1>6. CASE SqueezeLast
  <2>1. UNCHANGED <<call, entryMem>> /\ pc = "squeeze" /\ pc' # "squeeze"
    BY <1>6 DEF SqueezeLast
  <2>2. CASE call.len > pos
    <3> DEFINE n == call.len - pos
    <3>1. n \in 1..W /\ pos + n <= call.len /\ Squeeze(n)
      BY <1>0, <1>6, <2>2 DEF SqueezeLast
    <3> HIDE DEF n
    <3>2. \A i \in 0..((pos + n) - 1) :
            mem'[call.dst + i] = XOR(entryMem[call.src + i], KeyByte(call, i))
      BY <2>1, <3>1, SqueezeText
    <3>3. pos' = pos + n
      BY <3>1 DEF Squeeze
    <3> QED BY <2>1, <3>2, <3>3 DEF Text
  <2>3. CASE ~(call.len > pos)
    BY <1>6, <2>1, <2>3, TextKept DEF SqueezeLast
  <2> QED BY <2>2, <2>3
<1>7. CASE CallerStep
  BY <1>7 DEF CallerStep, EnterCall, Text
<1>8. CASE UNCHANGED vars
  BY <1>8 DEF vars, Text
<1> QED BY <1>1, <1>2, <1>3, <1>4, <1>5, <1>6, <1>7, <1>8 DEF Next, CallStep

------------------------------------------------------------------------------

LEMMA LoadAgrees ==
  ASSUME NEW b, NEW p, NEW d, NEW q, \A j \in 0..(W - 1) : b[p + j] = d[q + j]
  PROVE  LOAD(b, p) = LOAD(d, q)
<1>1. \A i \in Bits : i \div 8 \in 0..(W - 1)
  BY LaneIndex DEF Bits
<1>2. {i \in Bits : (i % 8) \in b[p + (i \div 8)]} = {i \in Bits : (i % 8) \in d[q + (i \div 8)]}
  BY <1>1
<1> QED BY <1>2 DEF LOAD

(* Before isap_enc a decryption has the memory that it was called with. *)
LEMMA Untouched ==
  ASSUME TypeOK, WritesOnlyOutput, Places, call.op = "decrypt", pc \notin {"squeeze", "returned"}
  PROVE  \A a \in Addr : mem[a] = entryMem[a]
<1>1. pos = 0 /\ call.dst \in Nat
  BY DEF Places, TypeOK, IsCall
<1>2. Region(call.dst, 0) = {}
  BY <1>1 DEF Region
<1> QED BY <1>1, <1>2 DEF WritesOnlyOutput

LEMMA SourceIs ==
  ASSUME TypeOK, WritesOnlyOutput, Places
  PROVE  /\ pc = "ad" => /\ SourceLen = call.adlen /\ From \in Nat
                         /\ \A i \in 0..(SourceLen - 1) : Source[From + i] = call.ad[i]
         /\ pc = "ct" => /\ SourceLen = call.len /\ From \in Nat
                         /\ \A i \in 0..(SourceLen - 1) : Source[From + i] = Cipher[i]
<1>0. /\ call.op \in {"encrypt", "decrypt"} /\ call.src \in Nat /\ call.dst \in Nat
      /\ call.len \in Nat /\ call.adlen \in Nat /\ call.src + call.len <= MemSize
  BY DEF TypeOK, IsCall
<1>1. CASE pc = "ad"
  <2>1. Source = call.ad /\ From = 0 /\ SourceLen = call.adlen
    BY <1>1 DEF Source, From, SourceLen
  <2> QED BY <1>0, <1>1, <2>1
<1>2. CASE pc = "ct" /\ call.op = "encrypt"
  <2>1. Source = mem /\ From = call.dst /\ SourceLen = call.len /\ Cipher = Made
    BY <1>2 DEF Source, From, SourceLen, Cipher
  <2> QED BY <1>0, <1>2, <2>1 DEF Made, Slice
<1>3. CASE pc = "ct" /\ call.op = "decrypt"
  <2>1. Source = mem /\ From = call.src /\ SourceLen = call.len /\ Cipher = Given
    BY <1>3 DEF Source, From, SourceLen, Cipher
  <2>2. \A i \in 0..(call.len - 1) : call.src + i \in Addr
    BY <1>0, MemAssumption DEF Addr
  <2>3. \A i \in 0..(call.len - 1) : mem[call.src + i] = entryMem[call.src + i]
    BY <1>3, <2>2, Untouched
  <2> QED BY <1>0, <1>3, <2>1, <2>3 DEF Given, Slice
<1> QED BY <1>0, <1>1, <1>2, <1>3

(* A lane of b, and the last bytes of it. *)
LEMMA AbsorbTurn ==
  ASSUME SourceLen \in Nat, absorbed \in Nat, From \in Nat, NEW b,
         \A i \in 0..(SourceLen - 1) : Source[From + i] = b[i],
         NEW s \in State, NEW k \in Nat, absorbed = W * k, x = Absorbing(b, s)[k]
  PROVE  /\ AbsorbLane => \E l \in Nat : absorbed' = W * l /\ x' = Absorbing(b, s)[l]
         /\ SourceLen - absorbed < W /\ absorbed <= SourceLen
              => AbsorbLast(SourceLen - absorbed) = AllAbsorbed(b, SourceLen, s)
<1>0. W \in Nat /\ W > 0 /\ W * (k + 1) = (W * k) + W
  BY LaneIndex
<1>1. ASSUME AbsorbLane
      PROVE  \E l \in Nat : absorbed' = W * l /\ x' = Absorbing(b, s)[l]
  <2>1. /\ SourceLen - absorbed >= W /\ absorbed' = absorbed + W
        /\ x' = PERM(sH, AddWord(x, 0, LOAD(Source, From + absorbed)))
    BY <1>1 DEF AbsorbLane
  <2>2. LOAD(Source, From + absorbed) = LOAD(b, W * k)
    <3>1. ASSUME NEW j \in 0..(W - 1)
          PROVE  Source[(From + absorbed) + j] = b[(W * k) + j]
      <4> DEFINE i == absorbed + j
      <4>1. i \in 0..(SourceLen - 1) /\ (From + absorbed) + j = From + i /\ (W * k) + j = i
        BY <1>0, <2>1
      <4> HIDE DEF i
      <4> QED BY <4>1
    <3> QED BY <3>1, LoadAgrees
  <2>3. Absorbing(b, s)[k + 1] = PERM(sH, AddWord(Absorbing(b, s)[k], 0, LOAD(b, W * k)))
    BY AbsorbingIs
  <2>4. absorbed' = W * (k + 1) /\ x' = Absorbing(b, s)[k + 1] /\ k + 1 \in Nat
    BY <1>0, <2>1, <2>2, <2>3
  <2> QED BY <2>4
<1>2. ASSUME SourceLen - absorbed < W, absorbed <= SourceLen
      PROVE  AbsorbLast(SourceLen - absorbed) = AllAbsorbed(b, SourceLen, s)
  <2> DEFINE n == SourceLen - absorbed
  <2>1. n \in 0..(W - 1) /\ SourceLen = W * k + n
    BY <1>0, <1>2
  <2>2. SourceLen \div W = k /\ SourceLen % W = n
    BY <2>1, LaneIndex
  <2>3. ASSUME NEW j \in 0..(W - 1), j < n
        PROVE  Source[From + absorbed + j] = b[(W * k) + j]
    <3> DEFINE i == absorbed + j
    <3>1. i \in 0..(SourceLen - 1) /\ From + absorbed + j = From + i /\ (W * k) + j = i
      BY <1>0, <2>3
    <3> HIDE DEF i
    <3> QED BY <3>1
  <2> HIDE DEF n
  <2>4. PaddedLane(n) = Padded(b, W * k, n)
    BY <2>3 DEF PaddedLane, Padded
  <2>5. AbsorbLast(n) = AllAbsorbed(b, SourceLen, s)
    BY <2>2, <2>4 DEF AbsorbLast, AllAbsorbed
  <2> QED BY <2>5 DEF n
<1> QED BY <1>1, <1>2

LEMMA AdLength == TypeOK => Length(call.ad) = call.adlen
  BY LengthOf DEF TypeOK, IsCall

LEMMA AdAbsorbedType ==
  ASSUME TypeOK PROVE AdAbsorbed(call) \in State
<1>1. AllAbsorbed(call.ad, Length(call.ad), MacBegun(call)) \in State
  BY AdLength, AllAbsorbedType DEF TypeOK, IsCall
<1>2. {0} \in Word
  BY WAssumption DEF Word, Bits
<1> QED BY <1>1, <1>2, AddWordType DEF AdAbsorbed

(* The end of isap_mac. *)
LEMMA MacTagIs ==
  ASSUME TypeOK, Keys, Mac, MacTag
  PROVE  x' = MacEnded(call, Cipher, call.len)
<1> DEFINE y == MacAbsorbed(call, Cipher, call.len)
<1>1. x = y /\ bit = LastBit /\ pc = "rk_mac"
  BY DEF Mac, MacTag
<1>2. rk' = Rekeyed(call.key, KeyInput(y), ISAP_IV(2))
  BY <1>1, LastRkStateIs DEF MacTag
<1>3. x' = PERM(sH, [y EXCEPT ![0] = rk'[0], ![1] = rk'[1]])
  BY <1>1 DEF MacTag
<1> QED BY <1>2, <1>3 DEF MacEnded

LEMMA VerdictIs ==
  ASSUME TypeOK, WritesOnlyOutput, Places, Mac, pc = "verify"
  PROVE  success = Verdict
<1> DEFINE t == TagOf(call, Given, call.len)
           g == Slice(entryMem, call.tag, TagLen)
<1>1. call.op = "decrypt" /\ x = MacEnded(call, Given, call.len)
  BY DEF TypeOK, Mac, Cipher
<1>2. TagLen \in Nat /\ \A i \in 0..(TagLen - 1) : call.tag + i \in Addr
  <2>1. TagLen \in Nat /\ call.tag \in Nat /\ call.tag + TagLen <= MemSize
    BY LaneIndex DEF TypeOK, IsCall, TagLen
  <2> QED BY <2>1, MemAssumption DEF Addr
<1>3. \A i \in 0..(TagLen - 1) : mem[call.tag + i] = entryMem[call.tag + i]
  BY <1>1, <1>2, Untouched
<1>4. success = IF \A i \in 0..(TagLen - 1) : t[i] = mem[call.tag + i] THEN 0 ELSE -1
  BY <1>1 DEF success, TagOf
<1>5. t = [i \in 0..(TagLen - 1) |-> t[i]] /\ g = [i \in 0..(TagLen - 1) |-> entryMem[call.tag + i]]
  BY DEF TagOf, Tag, Slice
<1> HIDE DEF t, g
<1>6. t = g <=> \A i \in 0..(TagLen - 1) : t[i] = entryMem[call.tag + i]
  BY <1>5
<1>7. (\A i \in 0..(TagLen - 1) : t[i] = mem[call.tag + i]) <=> t = g
  BY <1>3, <1>6
<1> QED BY <1>4, <1>7 DEF Verdict, t, g

LEMMA MacStep ==
  ASSUME TypeOK, TypeOK', WritesOnlyOutput, Places, Keys, Mac, [Next]_vars
  PROVE  Mac'
<1>a. ASSUME UNCHANGED <<call, entryMem>>
      PROVE  /\ Given' = Given /\ Verdict' = Verdict
             /\ \A b, n : MacAbsorbed(call, b, n)' = MacAbsorbed(call, b, n)
             /\ \A b, n : MacEnded(call, b, n)' = MacEnded(call, b, n)
             /\ MacBegun(call)' = MacBegun(call) /\ AdAbsorbed(call)' = AdAbsorbed(call)
             /\ mem' = mem => Cipher' = Cipher
  BY <1>a DEF Given, Verdict, Cipher, Made
<1>b. \A b : Absorbing(b, MacBegun(call))[0] = MacBegun(call)
  BY AllAbsorbedType, AbsorbingIs
<1>1. CASE EncryptStart
  BY <1>a, <1>1 DEF EncryptStart, EnterEnc, Mac
<1>2. CASE RkBit
  BY <1>a, <1>2 DEF RkBit, Mac
<1>3. CASE EncKey
  BY <1>a, <1>3 DEF EncKey, Mac
<1>4. CASE SqueezeLane \/ SqueezeLast
  BY <1>a, <1>4 DEF SqueezeLane, SqueezeLast, Mac
<1>5. CASE MacStart
  <2>1. x' = MacBegun(call) /\ absorbed' = 0 /\ pc' = "ad" /\ UNCHANGED <<call, entryMem>>
    BY <1>5, Zenon DEF MacStart, MacBegun, TypeOK
  <2>2. W * 0 = 0
    BY LaneIndex
  <2>3. \E k \in Nat : absorbed' = W * k /\ x' = Absorbing(call.ad, MacBegun(call))[k]
    BY <1>b, <2>1, <2>2
  <2> QED BY <2>1, <2>3 DEF Mac
<1>6. CASE AbsorbLane
  <2>1. /\ UNCHANGED <<mem, call, pc, ret, entryMem>> /\ pc \in {"ad", "ct"}
        /\ absorbed \in Nat /\ SourceLen \in Nat /\ From \in Nat
    BY <1>6, SourceIs DEF AbsorbLane, TypeOK, IsCall
  <2>2. CASE pc = "ad"
    <3>1. \A i \in 0..(SourceLen - 1) : Source[From + i] = call.ad[i]
      BY <2>2, SourceIs
    <3>2. PICK k \in Nat : absorbed = W * k /\ x = Absorbing(call.ad, MacBegun(call))[k]
      BY <2>2 DEF Mac
    <3>3. MacBegun(call) \in State
      BY AllAbsorbedType
    <3>4. \E l \in Nat : absorbed' = W * l /\ x' = Absorbing(call.ad, MacBegun(call))[l]
      BY <1>6, <2>1, <3>1, <3>2, <3>3, AbsorbTurn
    <3> QED BY <2>1, <2>2, <3>4 DEF Mac
  <2>3. CASE pc = "ct"
    <3>1. \A i \in 0..(SourceLen - 1) : Source[From + i] = Cipher[i]
      BY <2>3, SourceIs
    <3>2. PICK k \in Nat : absorbed = W * k /\ x = Absorbing(Cipher, AdAbsorbed(call))[k]
      BY <2>3 DEF Mac
    <3>3. AdAbsorbed(call) \in State
      BY AdAbsorbedType
    <3>4. \E l \in Nat : absorbed' = W * l /\ x' = Absorbing(Cipher, AdAbsorbed(call))[l]
      BY <1>6, <2>1, <3>1, <3>2, <3>3, AbsorbTurn
    <3>5. Cipher' = Cipher /\ AdAbsorbed(call)' = AdAbsorbed(call)
      BY <1>a, <2>1
    <3> QED BY <2>1, <2>3, <3>4, <3>5 DEF Mac
  <2> QED BY <2>1, <2>2, <2>3
<1>7. CASE AbsorbLastAd
  <2>1. /\ UNCHANGED <<mem, call, ret, entryMem>> /\ pc = "ad" /\ pc' = "ct" /\ absorbed' = 0
        /\ x' = AddWord(AbsorbLast(SourceLen - absorbed), 4, {0})
        /\ SourceLen - absorbed < W /\ absorbed <= SourceLen
        /\ absorbed \in Nat /\ SourceLen \in Nat /\ SourceLen = call.adlen
    BY <1>7 DEF AbsorbLastAd, SourceLen, TypeOK, IsCall
  <2>2. /\ \A i \in 0..(SourceLen - 1) : Source[From + i] = call.ad[i]
        /\ From \in Nat
    BY <2>1, SourceIs
  <2>3. PICK k \in Nat : absorbed = W * k /\ x = Absorbing(call.ad, MacBegun(call))[k]
    BY <2>1 DEF Mac
  <2>4. MacBegun(call) \in State
    BY AllAbsorbedType
  <2>5. AbsorbLast(SourceLen - absorbed) = AllAbsorbed(call.ad, SourceLen, MacBegun(call))
    BY <2>1, <2>2, <2>3, <2>4, AbsorbTurn
  <2>6. x' = AdAbsorbed(call)
    BY <2>1, <2>5, AdLength DEF AdAbsorbed
  <2>7. Absorbing(Cipher', AdAbsorbed(call))[0] = AdAbsorbed(call)
    BY AdAbsorbedType, AbsorbingIs
  <2>8. W * 0 = 0 /\ 0 \in Nat
    BY LaneIndex
  <2>9. \E k0 \in Nat : absorbed' = W * k0 /\ x' = Absorbing(Cipher', AdAbsorbed(call))[k0]
    BY <2>1, <2>6, <2>7, <2>8
  <2>10. AdAbsorbed(call)' = AdAbsorbed(call)
    BY <1>a, <2>1
  <2> QED BY <2>1, <2>9, <2>10 DEF Mac
<1>8. CASE AbsorbLastCt
  <2>1. /\ UNCHANGED <<mem, call, ret, entryMem>> /\ pc = "ct" /\ pc' = "rk_mac"
        /\ SourceLen - absorbed < W /\ absorbed <= SourceLen
        /\ absorbed \in Nat /\ SourceLen \in Nat /\ SourceLen = call.len
    BY <1>8 DEF AbsorbLastCt, SourceLen, TypeOK, IsCall
  <2>2. /\ \A i \in 0..(SourceLen - 1) : Source[From + i] = Cipher[i]
        /\ From \in Nat
    BY <2>1, SourceIs
  <2>3. PICK k \in Nat : absorbed = W * k /\ x = Absorbing(Cipher, AdAbsorbed(call))[k]
    BY <2>1 DEF Mac
  <2>4. AbsorbLast(SourceLen - absorbed) = AllAbsorbed(Cipher, SourceLen, AdAbsorbed(call))
    BY <2>1, <2>2, <2>3, AdAbsorbedType, AbsorbTurn
  <2>5. x' = MacAbsorbed(call, Cipher, call.len)
    BY <1>8, <2>1, <2>4 DEF AbsorbLastCt, MacAbsorbed
  <2>6. Cipher' = Cipher /\ \A b, n : MacAbsorbed(call, b, n)' = MacAbsorbed(call, b, n)
    BY <1>a, <2>1
  <2>7. (MacAbsorbed(call, Cipher, call.len))' = MacAbsorbed(call, Cipher, call.len)
    BY <2>1, <2>6 DEF MacAbsorbed, AllAbsorbed, Absorbing, AdAbsorbed, MacBegun
  <2> QED BY <2>1, <2>5, <2>7 DEF Mac
<1>9. CASE MacTag
  <2>1. x' = MacEnded(call, Cipher, call.len)
    BY <1>9, MacTagIs
  <2>2. UNCHANGED <<call, entryMem>> /\ call.op \in {"encrypt", "decrypt"}
    BY <1>9 DEF MacTag, TypeOK, IsCall
  <2>3. CASE call.op = "encrypt"
    BY <1>9, <2>2, <2>3 DEF MacTag, Mac
  <2>4. CASE call.op = "decrypt"
    <3>1. pc' = "verify" /\ mem' = mem
      BY <1>9, <2>4 DEF MacTag
    <3>2. (MacEnded(call, Cipher, call.len))' = MacEnded(call, Cipher, call.len)
      BY <2>2, <3>1 DEF MacEnded, MacAbsorbed, AllAbsorbed, Absorbing, AdAbsorbed, MacBegun,
                        Cipher, Made, Given
    <3> QED BY <2>1, <3>1, <3>2 DEF Mac
  <2> QED BY <2>2, <2>3, <2>4
<1>10. CASE Verify
  <2>1. /\ UNCHANGED <<call, entryMem>> /\ pc = "verify" /\ pc' \in {"rk_enc", "returned"}
        /\ ret' = success
    BY <1>10 DEF Verify, EnterEnc
  <2>2. ret' = Verdict'
    BY <1>a, <2>1, VerdictIs
  <2> QED BY <2>1, <2>2 DEF Mac
<1>11. CASE CallerStep
  BY <1>11 DEF CallerStep, EnterCall, Mac
<1>12. CASE UNCHANGED vars
  <2>1. UNCHANGED <<mem, call, pc, x, absorbed, ret, entryMem>>
    BY <1>12 DEF vars
  <2> QED BY <2>1, <1>a DEF Mac
<1> QED BY <1>1, <1>2, <1>3, <1>4, <1>5, <1>6, <1>7, <1>8, <1>9, <1>10, <1>11,
           <1>12 DEF Next, CallStep

(* Whatever its caller does, a call is at every step where the functions    *)
(* above say: in the right turn of the right walk, with the right text      *)
(* written so far.                                                          *)
LEMMA ComputesAlways == Spec => []Computes
<1>1. Init => Computes
  BY DEF Init, Computes, Places, Keys, Text, Mac
<1>2. TypeOK /\ TypeOK' /\ WritesOnlyOutput /\ Computes /\ [Next]_vars => Computes'
  BY PlacesStep, KeysStep, TextStep, MacStep DEF Computes
<1> QED BY <1>1, <1>2, TypeCorrect, WritesConfined, PTL DEF Spec

------------------------------------------------------------------------------
(* What a completed call amounts to.                                        *)

(* The transaction t is what the functions above say: an encryption gives   *)
(* Crypt of the message and the tag of that; a decryption returns 0 if and  *)
(* only if it was given the tag of its ciphertext, and then the text.       *)
Computed(t) ==
  \E n \in Nat :
    /\ t.msg \in Array(n) /\ t.ct \in Array(n)
    /\ t.op = "encrypt" =>
         t.ret = 0 /\ t.ct = Crypt(t, t.msg, n) /\ t.tag = TagOf(t, t.ct, n)
    /\ t.op = "decrypt" =>
         /\ t.ret = IF TagOf(t, t.ct, n) = t.tag THEN 0 ELSE -1
         /\ t.ret = 0 => t.msg = Crypt(t, t.ct, n)

LEMMA SameContext ==
  ASSUME NEW c, NEW d, c.key = d.key, c.nonce = d.nonce, c.ad = d.ad, NEW b, NEW n
  PROVE  Crypt(c, b, n) = Crypt(d, b, n) /\ TagOf(c, b, n) = TagOf(d, b, n)
<1>1. Squeezing(c) = Squeezing(d)
  BY DEF Squeezing, EncBegun
<1>2. \A i : KeyByte(c, i) = KeyByte(d, i)
  BY <1>1 DEF KeyByte
<1>3. MacEnded(c, b, n) = MacEnded(d, b, n)
  BY DEF MacEnded, MacAbsorbed, AdAbsorbed, MacBegun
<1> QED BY <1>2, <1>3 DEF Crypt, TagOf

LEMMA CryptSlice ==
  ASSUME NEW c, NEW b, NEW m,
         \A i \in 0..(c.len - 1) : m[c.dst + i] = XOR(b[c.src + i], KeyByte(c, i))
  PROVE  Slice(m, c.dst, c.len) = Crypt(c, Slice(b, c.src, c.len), c.len)
  BY DEF Slice, Crypt

LEMMA TextTypes ==
  ASSUME NEW c, IsCall(c), NEW m \in [Addr -> Byte]
  PROVE  Slice(m, c.src, c.len) \in Array(c.len) /\ Slice(m, c.dst, c.len) \in Array(c.len)
<1>1. /\ c.src + c.len <= MemSize /\ c.dst + c.len <= MemSize
      /\ c.src \in Nat /\ c.dst \in Nat /\ c.len \in Nat
  BY DEF IsCall
<1>2. \A p, n \in Nat : p + n <= MemSize => \A i \in 0..(n - 1) : p + i \in Addr
  BY MemAssumption DEF Addr
<1> QED BY <1>1, <1>2, SliceType

LEMMA TagWritten ==
  ASSUME TypeOK, NEW s
  PROVE  Slice(Tag(mem, call.tag, s), call.tag, TagLen)
           = Tag([i \in 0..(TagLen - 1) |-> {}], 0, s)
<1>0. TagLen \in Nat /\ call.tag \in Nat /\ call.tag + TagLen <= MemSize
  BY LaneIndex DEF TypeOK, IsCall, TagLen
<1> DEFINE m == Tag(mem, call.tag, s)
           z == Tag([i \in 0..(TagLen - 1) |-> {}], 0, s)
<1>1. ASSUME NEW i \in 0..(TagLen - 1) PROVE m[call.tag + i] = z[i]
  <2> DEFINE a == call.tag + i
  <2>1. a \in Addr /\ a \in Region(call.tag, TagLen) /\ a - call.tag = i
        /\ i \in Region(0, TagLen) /\ i - 0 = i
    BY <1>0, MemAssumption DEF Addr, Region
  <2> HIDE DEF a
  <2>2. m[a] = OutByte(OUT(s[i \div W]), i % W)
    BY <2>1 DEF Tag, TypeOK
  <2>3. z[i] = OutByte(OUT(s[i \div W]), i % W)
    BY <2>1 DEF Tag
  <2> QED BY <2>2, <2>3 DEF a
<1>2. z = [i \in 0..(TagLen - 1) |-> z[i]]
  BY DEF Tag
<1> HIDE DEF m, z
<1>3. Slice(m, call.tag, TagLen) = z
  BY <1>1, <1>2 DEF Slice
<1> QED BY <1>3 DEF m, z

LEMMA CallComputed ==
  ASSUME TypeOK, TypeOK', Computes, Computes', CallStep, pc' = "returned"
  PROVE  Computed(Transaction(call, entryMem, mem', ret'))
<1> DEFINE t == Transaction(call, entryMem, mem', ret')
           out == Slice(mem', call.dst, call.len)
           n == call.len
<1>1. UNCHANGED <<call, entryMem>> /\ call.op \in {"encrypt", "decrypt"} /\ n \in Nat
  BY DEF CallStep, EncryptStart, RkBit, EncKey, SqueezeLane, SqueezeLast, MacStart, AbsorbLane,
         AbsorbLastAd, AbsorbLastCt, MacTag, Verify, TypeOK, IsCall
<1>2. Given \in Array(n) /\ out \in Array(n)
  BY TextTypes DEF TypeOK, Given
<1>3. pos' = n => out = Crypt(call, Given, n)
  <2>1. ASSUME pos' = n
        PROVE  \A i \in 0..(call.len - 1) :
                 mem'[call.dst + i] = XOR(entryMem[call.src + i], KeyByte(call, i))
    <3>1. \A i \in 0..(pos' - 1) :
            mem'[call'.dst + i] = XOR(entryMem'[call'.src + i], KeyByte(call', i))
      BY DEF Computes, Text, KeyByte, Squeezing, EncBegun
    <3> QED BY <1>1, <2>1, <3>1
  <2> QED BY <2>1, CryptSlice DEF Given
<1>4. /\ t.key = call.key /\ t.nonce = call.nonce /\ t.ad = call.ad /\ t.op = call.op
      /\ t.ret = ret'
      /\ call.op = "encrypt" => t.msg = Given /\ t.ct = out /\ t.tag = Slice(mem', call.tag, TagLen)
      /\ call.op = "decrypt" => t.msg = out /\ t.ct = Given
                                /\ t.tag = Slice(entryMem, call.tag, TagLen)
  BY DEF Transaction, Given
<1>5. \A b : Crypt(t, b, n) = Crypt(call, b, n) /\ TagOf(t, b, n) = TagOf(call, b, n)
  BY <1>4, SameContext
<1>6. CASE call.op = "encrypt"
  <2>1. MacTag /\ mem' = Tag(mem, call.tag, x') /\ ret' = 0 /\ UNCHANGED pos /\ pc = "rk_mac"
    BY <1>6 DEF CallStep, EncryptStart, EnterEnc, RkBit, EncKey, SqueezeLane, SqueezeLast,
         MacStart, AbsorbLane, AbsorbLastAd, AbsorbLastCt, MacTag, Verify, TypeOK
  <2>2. pos = n
    BY <1>6, <2>1 DEF Computes, Places
  <2>3. out = Crypt(call, Given, n)
    BY <1>3, <2>1, <2>2
  <2>4. Cipher = Crypt(call, Given, n)
    <3>1. \A i \in 0..(call.len - 1) :
                 mem[call.dst + i] = XOR(entryMem[call.src + i], KeyByte(call, i))
      BY <2>2 DEF Computes, Text
    <3> QED BY <1>6, <3>1, CryptSlice DEF Cipher, Made, Given
  <2>5. Slice(mem', call.tag, TagLen) = TagOf(call, Cipher, n)
    <3>1. x' = MacEnded(call, Cipher, n)
      BY <2>1, MacTagIs DEF Computes
    <3> QED BY <2>1, <3>1, TagWritten DEF TagOf
  <2> HIDE DEF t, out, n
  <2>6. /\ t.msg \in Array(n) /\ t.ct \in Array(n) /\ t.op = "encrypt" /\ t.ret = 0
        /\ t.ct = Crypt(t, t.msg, n) /\ t.tag = TagOf(t, t.ct, n)
    BY <1>2, <1>4, <1>5, <1>6, <2>1, <2>3, <2>4, <2>5
  <2>7. Computed(t)
    BY <1>1, <2>6 DEF Computed
  <2> QED BY <2>7 DEF t
<1>7. CASE call.op = "decrypt"
  <2>1. ret' = IF TagOf(call, Given, n) = Slice(entryMem, call.tag, TagLen) THEN 0 ELSE -1
    <3>1. ret' = Verdict'
      BY <1>1, <1>7 DEF Computes, Mac
    <3>2. Verdict' = Verdict
      BY <1>1 DEF Verdict, Given
    <3> QED BY <3>1, <3>2 DEF Verdict
  <2>2. ret' = 0 => pos' = n
    BY <1>1, <1>7 DEF Computes, Places
  <2> HIDE DEF t, out, n
  <2>3. /\ t.msg \in Array(n) /\ t.ct \in Array(n) /\ t.op = "decrypt"
        /\ t.ret = IF TagOf(t, t.ct, n) = t.tag THEN 0 ELSE -1
        /\ t.ret = 0 => t.msg = Crypt(t, t.ct, n)
    BY <1>2, <1>3, <1>4, <1>5, <1>7, <2>1, <2>2
  <2>4. Computed(t)
    BY <1>1, <2>3 DEF Computed
  <2> QED BY <2>4 DEF t
<1> QED BY <1>1, <1>6, <1>7

------------------------------------------------------------------------------
(* Sessions, in which callers write bytes.                                  *)

Typed == TypeOK /\ \A e \in log : Recorded(e)

LEMMA SessionStep ==
  ASSUME Typed, [SessionNext]_sessionVars
  PROVE  [Next]_vars /\ Typed'
<1>1. CASE Work
  <2>1. [Next]_vars
    BY <1>1 DEF Work, Next
  <2>2. TypeOK'
    BY <2>1, TypeStep DEF Typed
  <2>3. Recorded(Transaction(call, entryMem, mem', ret'))
    <3>1. mem' \in [Addr -> Byte]
      BY <2>2 DEF TypeOK
    <3> QED BY <3>1, RecordedCall DEF Typed, TypeOK
  <2>4. \A e \in log' : Recorded(e)
    BY <1>1, <2>3 DEF Work, Typed
  <2> QED BY <2>1, <2>2, <2>4 DEF Typed
<1>2. CASE EnterNext
  <2>1. PICK e \in log : \E n \in NextEntries(mem, e) : EnterCall(n.call, n.mem)
    BY <1>2 DEF EnterNext
  <2>2. PICK n \in NextEntries(mem, e) : EnterCall(n.call, n.mem)
    BY <2>1
  <2>3. IsCall(n.call) /\ n.mem \in [Addr -> Byte]
    BY EntryType DEF Typed, TypeOK
  <2>4. CallerStep
    BY <2>2, <2>3 DEF CallerStep, EnterCall
  <2>5. [Next]_vars
    BY <2>4 DEF Next
  <2> QED BY <1>2, <2>5, TypeStep DEF Typed, EnterNext
<1>3. CASE UNCHANGED sessionVars
  BY <1>3, TypeStep DEF Typed, sessionVars, vars
<1> QED BY <1>1, <1>2, <1>3 DEF SessionNext, Finished

LEMMA SessionStart == SessionInit => Init /\ Typed
<1> SUFFICES ASSUME SessionInit PROVE Init /\ Typed
  OBVIOUS
<1>1. PICK n \in FirstEntries : call = n.call /\ mem = n.mem
  BY DEF SessionInit
<1>2. IsCall(call) /\ mem \in [Addr -> Byte]
  BY <1>1, FirstEntryType
<1>3. x \in State /\ rk \in State
  BY DEF SessionInit, State, Word
<1> QED BY <1>2, <1>3, LaneIndex DEF SessionInit, Init, Typed, TypeOK, IsCall

LEMMA SessionInvariant ==
  SessionSpec => [](Typed /\ Computes /\ RefusedMeansUntouched)
<1>1. SessionSpec => []Typed /\ Spec
  BY SessionStart, SessionStep, PTL DEF SessionSpec, Spec
<1> QED BY <1>1, ComputesAlways, RefusedUntouched, PTL

AllComputed ==
  /\ last.op # "none" => Computed(last)
  /\ \A e \in log : e.op = "encrypt" /\ Computed(e)

LEMMA ReturnStep ==
  ASSUME Typed, Computes, Computes', Work, pc' = "returned"
  PROVE  /\ last' = Transaction(call, entryMem, mem', ret') /\ Computed(last')
         /\ last'.op = call.op /\ call.op \in {"encrypt", "decrypt"}
<1>1. /\ CallStep /\ last' = Transaction(call, entryMem, mem', ret')
      /\ TypeOK /\ Next /\ [Next]_vars
  BY DEF Work, Typed, Next
<1>2. TypeOK'
  BY <1>1, TypeStep
<1>3. Computed(Transaction(call, entryMem, mem', ret'))
  BY <1>1, <1>2, CallComputed
<1> QED BY <1>1, <1>3 DEF Transaction, TypeOK, IsCall

LEMMA AllComputedStep ==
  ASSUME Typed, Computes, Computes', AllComputed, [SessionNext]_sessionVars
  PROVE  AllComputed'
<1>1. CASE Work /\ pc' = "returned"
  <2>1. Computed(last') /\ last'.op = call.op
    BY <1>1, ReturnStep
  <2>2. log' = IF call.op = "encrypt" THEN log \cup {last'} ELSE log
    BY <1>1 DEF Work
  <2> QED BY <2>1, <2>2 DEF AllComputed
<1>2. CASE UNCHANGED <<log, last>>
  BY <1>2 DEF AllComputed
<1> QED BY <1>1, <1>2 DEF SessionNext, Work, EnterNext, Finished, sessionVars

(* Every call, in every build, variant, memory layout and sequence of       *)
(* calls, computes ISAP: isap_a_encrypt returns the text exclusive or the   *)
(* key stream of its key and nonce, and the tag of what it has written;     *)
(* isap_a_decrypt returns 0 if and only if the tag it was given is the tag  *)
(* of the ciphertext it was given, and then has written its text.  This is  *)
(* so in place and whatever was in memory, the calls before it included.    *)
THEOREM CallsCompute == SessionSpec => []AllComputed
<1>1. SessionInit => AllComputed
  BY DEF SessionInit, AllComputed
<1>2. Typed /\ Computes /\ Computes' /\ AllComputed /\ [SessionNext]_sessionVars => AllComputed'
  BY AllComputedStep
<1> QED BY <1>1, <1>2, SessionInvariant, PTL DEF SessionSpec

------------------------------------------------------------------------------
(* The ideal scheme.                                                        *)

(* Nobody but isap_a_encrypt makes tags: who presents the tag of a          *)
(* ciphertext to isap_a_decrypt has got them from an encryption.  No proof  *)
(* about the code can show this; it is what the permutation is for.         *)
Unforged ==
  call.op = "decrypt" /\ TagOf(call, Given, call.len) = Slice(entryMem, call.tag, TagLen) =>
    \E e \in log : /\ e.key = call.key /\ e.nonce = call.nonce /\ e.ad = call.ad
                   /\ e.ct = Given /\ e.tag = Slice(entryMem, call.tag, TagLen)

LEMMA CryptTwice ==
  ASSUME NEW c, NEW n, NEW b \in Array(n) PROVE Crypt(c, Crypt(c, b, n), n) = b
<1>1. \A i \in 0..(n - 1) : XOR(XOR(b[i], KeyByte(c, i)), KeyByte(c, i)) = b[i]
  BY DEF XOR
<1>2. b = [i \in 0..(n - 1) |-> b[i]]
  BY DEF Array
<1> QED BY <1>1, <1>2 DEF Crypt

LEMMA SameLength ==
  ASSUME NEW m \in Nat, NEW n \in Nat, NEW a \in Array(m), a \in Array(n) PROVE m = n
  BY LengthOf

LEMMA EncryptionIdeal ==
  ASSUME AllComputed, NEW t, t.op = "encrypt", Computed(t)
  PROVE  IdealScheme!Encryption(t)
<1>1. PICK n \in Nat : /\ t.msg \in Array(n) /\ t.ct \in Array(n) /\ t.ret = 0
                       /\ t.ct = Crypt(t, t.msg, n) /\ t.tag = TagOf(t, t.ct, n)
  BY DEF Computed
<1>2. DOMAIN t.ct = DOMAIN t.msg
  BY <1>1 DEF Array
<1>3. ASSUME NEW e \in log, e.key = t.key, e.nonce = t.nonce, e.ad = t.ad
      PROVE  (e.msg = t.msg) <=> (e.ct = t.ct /\ e.tag = t.tag)
  <2>1. PICK m \in Nat : /\ e.msg \in Array(m) /\ e.ct \in Array(m)
                         /\ e.ct = Crypt(e, e.msg, m) /\ e.tag = TagOf(e, e.ct, m)
    BY DEF AllComputed, Computed
  <2>2. /\ e.ct = Crypt(t, e.msg, m) /\ e.tag = TagOf(t, e.ct, m)
    BY <1>3, <2>1, SameContext
  <2>3. Crypt(t, e.ct, m) = e.msg /\ Crypt(t, t.ct, n) = t.msg
    BY <1>1, <2>1, <2>2, CryptTwice
  <2>4. e.msg = t.msg \/ e.ct = t.ct => m = n
    BY <1>1, <2>1, SameLength
  <2> QED BY <1>1, <2>2, <2>3, <2>4
<1> QED BY <1>1, <1>2, <1>3 DEF IdealScheme!Encryption, IdealScheme!Context

LEMMA PacketsOpen ==
  ASSUME NEW t, t.op = "decrypt", Computed(t), NEW e, e.op = "encrypt", Computed(e),
         IdealScheme!Packet(e) = IdealScheme!Packet(t)
  PROVE  t.ret = 0 /\ t.msg = e.msg
<1>1. e.key = t.key /\ e.nonce = t.nonce /\ e.ad = t.ad /\ e.ct = t.ct /\ e.tag = t.tag
  BY DEF IdealScheme!Packet, IdealScheme!Context
<1>2. PICK n \in Nat : /\ t.msg \in Array(n) /\ t.ct \in Array(n)
                       /\ t.ret = IF TagOf(t, t.ct, n) = t.tag THEN 0 ELSE -1
                       /\ t.ret = 0 => t.msg = Crypt(t, t.ct, n)
  BY DEF Computed
<1>3. PICK m \in Nat : /\ e.msg \in Array(m) /\ e.ct \in Array(m)
                       /\ e.ct = Crypt(e, e.msg, m) /\ e.tag = TagOf(e, e.ct, m)
  BY DEF Computed
<1>4. m = n
  BY <1>1, <1>2, <1>3, SameLength
<1>5. t.ct = Crypt(t, e.msg, n) /\ t.tag = TagOf(t, t.ct, n)
  BY <1>1, <1>3, <1>4, SameContext
<1>6. Crypt(t, t.ct, n) = e.msg
  BY <1>3, <1>4, <1>5, CryptTwice
<1> QED BY <1>2, <1>5, <1>6

(* A packet that arrives as it was made opens to its message, with the      *)
(* value 0, with other layouts and other old contents of memory, and        *)
(* whatever was called in between.                                          *)
THEOREM IntactPacketsOpen ==
  SessionSpec =>
    [](last.op = "decrypt" =>
         \A e \in log :
           IdealScheme!Packet(e) = IdealScheme!Packet(last) => last.ret = 0 /\ last.msg = e.msg)
<1>1. AllComputed => (last.op = "decrypt" =>
        \A e \in log :
          IdealScheme!Packet(e) = IdealScheme!Packet(last) => last.ret = 0 /\ last.msg = e.msg)
  BY PacketsOpen DEF AllComputed
<1> QED BY <1>1, CallsCompute, PTL

LEMMA DecryptionIdeal ==
  ASSUME AllComputed, NEW t, t.op = "decrypt", Computed(t),
         t.ret = 0 => \E e \in log : IdealScheme!Packet(e) = IdealScheme!Packet(t)
  PROVE  IdealScheme!Decryption(t)
<1>1. t.ret \in {0, -1}
  BY DEF Computed
<1>2. \A e \in log : IdealScheme!Packet(e) = IdealScheme!Packet(t)
                     => t.ret = 0 /\ t.msg = e.msg
  BY PacketsOpen DEF AllComputed
<1> QED BY <1>1, <1>2 DEF IdealScheme!Decryption

LEMMA IdealStep ==
  ASSUME Typed, Computes, Computes', AllComputed, Unforged, [SessionNext]_sessionVars
  PROVE  [IdealScheme!Next]_<<log, last>>
<1>1. CASE Work /\ pc' = "returned"
  <2>1. /\ last' = Transaction(call, entryMem, mem', ret') /\ Computed(last')
        /\ last'.op = call.op /\ call.op \in {"encrypt", "decrypt"}
    BY <1>1, ReturnStep
  <2>2. log' = IF call.op = "encrypt" THEN log \cup {last'} ELSE log
    BY <1>1 DEF Work
  <2>3. CASE call.op = "encrypt"
    BY <2>1, <2>2, <2>3, EncryptionIdeal DEF IdealScheme!Next
  <2>4. CASE call.op = "decrypt"
    <3>1. /\ last'.key = call.key /\ last'.nonce = call.nonce /\ last'.ad = call.ad
          /\ last'.ct = Given /\ last'.tag = Slice(entryMem, call.tag, TagLen)
      BY <2>1, <2>4 DEF Transaction, Given
    <3>2. call.len \in Nat /\ Given \in Array(call.len)
      BY TextTypes DEF Typed, TypeOK, IsCall, Given
    <3>3. PICK n \in Nat : /\ last'.ct \in Array(n)
                           /\ last'.ret = IF TagOf(last', last'.ct, n) = last'.tag THEN 0 ELSE -1
      BY <2>1, <2>4 DEF Computed
    <3>4. n = call.len
      BY <3>1, <3>2, <3>3, SameLength
    <3>5. last'.ret = 0 => TagOf(call, Given, call.len) = Slice(entryMem, call.tag, TagLen)
      BY <3>1, <3>3, <3>4, SameContext
    <3>6. last'.ret = 0
            => \E e \in log : IdealScheme!Packet(e) = IdealScheme!Packet(last')
      BY <2>4, <3>1, <3>5 DEF Unforged, IdealScheme!Packet, IdealScheme!Context
    <3>7. IdealScheme!Decryption(last')
      BY <2>1, <2>4, <3>6, DecryptionIdeal
    <3> QED BY <2>2, <2>4, <3>7 DEF IdealScheme!Next
  <2> QED BY <2>1, <2>3, <2>4
<1>2. CASE UNCHANGED <<log, last>>
  BY <1>2
<1> QED BY <1>1, <1>2 DEF SessionNext, Work, EnterNext, Finished, sessionVars

(* As long as nothing is forged isap_a_encrypt and isap_a_decrypt are the   *)
(* ideal scheme.  All of the rest the code has to do, and does: ciphertexts *)
(* as long as their messages, of one message under one key, nonce and       *)
(* associated data always the same packet and of two never, every packet    *)
(* opened that was made, and -1 for what is not accepted.                   *)
THEOREM IdealUnlessForged == SessionSpec /\ []Unforged => ImplementsIdeal
<1>1. SessionInit => IdealScheme!Init
  BY DEF SessionInit, IdealScheme!Init
<1>2. Typed /\ Computes /\ Computes' /\ AllComputed /\ Unforged /\ [SessionNext]_sessionVars
        => [IdealScheme!Next]_<<log, last>>
  BY IdealStep
<1> QED BY <1>1, <1>2, SessionInvariant, CallsCompute, PTL
           DEF SessionSpec, ImplementsIdeal, IdealScheme!Spec

(* And then a build without testing writes no byte of a text, not even for  *)
(* a while, that an encryption has not put into that very packet.           *)
THEOREM OnlyGenuineUnlessForged == SessionSpec /\ []Unforged => []OnlyGenuineReleased
<1>1. Typed /\ Computes /\ RefusedMeansUntouched /\ Unforged => OnlyGenuineReleased
  <2> SUFFICES ASSUME Typed, Computes, RefusedMeansUntouched, Unforged, call.op = "decrypt",
                      ~TESTING_ENABLED, mem # entryMem
               PROVE  \E e \in log :
                        /\ e.key = call.key /\ e.nonce = call.nonce /\ e.ad = call.ad
                        /\ e.ct = Slice(entryMem, call.src, call.len)
                        /\ e.tag = Slice(entryMem, call.tag, TagLen)
    BY DEF OnlyGenuineReleased
  <2>1. ret = 0 /\ pc \in {"squeeze", "returned"}
    BY DEF RefusedMeansUntouched
  <2>2. ret = Verdict
    BY <2>1 DEF Computes, Mac
  <2>3. TagOf(call, Given, call.len) = Slice(entryMem, call.tag, TagLen)
    BY <2>1, <2>2 DEF Verdict
  <2> QED BY <2>3 DEF Unforged, Given
<1> QED BY <1>1, SessionInvariant, PTL

==============================================================================
