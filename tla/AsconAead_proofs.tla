-------------------------- MODULE AsconAead_proofs --------------------------
(***************************************************************************)
(* Theorems about AsconAead and AeadSession for every build, word size and *)
(* rate, every memory size, any layouts, and every sequence of calls:      *)
(* types, what a call writes, what it has yet to read, and that it ends;   *)
(* which functions of their arguments the two calls compute; that what     *)
(* ascon_encrypt makes, ascon_decrypt opens; and that the two are the      *)
(* ideal scheme of module Aead as long as nothing is forged.               *)
(*                                                                         *)
(* CipherOf and TagOf are ciphertext and tag of a message as functions of  *)
(* its bytes: Absorbing is the walk of the state over the blocks, Last its *)
(* end, and memory has no part in them.  Computes, the invariant: a call   *)
(* underway is in the right turn of that walk for every message and every  *)
(* ciphertext that agree with what it was given and has written so far;    *)
(* the same for both calls, so that a returned one has computed the two    *)
(* functions (CallsCompute).  That two messages never have one ciphertext  *)
(* (SameText) goes by induction over the blocks.                           *)
(***************************************************************************)
EXTENDS AeadSession, Callers_proofs, AsconPermutation_proofs

------------------------------------------------------------------------------
(* Types of the pieces of a step. *)

LEMMA PBType == ASSUME NEW s \in State PROVE P_A(s) \in State /\ P_B(s) \in State
  BY PermutationType DEF P_A, P_B

LEMMA AddWordType ==
  ASSUME NEW s \in State, NEW i \in 0..4, NEW w \in Word
  PROVE  AddWord(s, i, w) \in State
  BY XorType DEF AddWord, State

LEMMA LiteralType == \A v : Literal(v) \in Word /\ BILiteral(v) \in Word
  BY DEF Literal, BILiteral, Word

LEMMA InitialStateType == \A c : InitialState(c) \in State
<1>1. \A c : /\ ASCON_IV(RateWords) \in Word
             /\ KeyWord(c, 0) \in Word /\ KeyWord(c, 1) \in Word
             /\ LOAD_N(c.nonce, 0, W) \in Word /\ LOAD_N(c.nonce, W, W) \in Word
  BY LiteralType, LoadType DEF ASCON_IV, KeyWord
<1> QED BY <1>1 DEF InitialState, State

LEMMA SeparateDomainType == ASSUME NEW s \in State PROVE SeparateDomain(s) \in State
<1>1. {0} \in Word
  BY WAssumption DEF Word, Bits
<1> QED BY <1>1, AddWordType DEF SeparateDomain

(* The state after a block of the bytes b at offset at, full or the last,   *)
(* whether they are absorbed or encrypted.                                  *)
Full(b, s, at) ==
  LET s0 == AddWord(s, 0, LOAD_N(b, at, W))
  IN  IF RateWords = 2 THEN AddWord(s0, 1, LOAD_N(b, at + W, W)) ELSE s0

Rest(b, s, at, n) ==
  IF RateWords = 2 /\ n >= W
    THEN AddWord(AddWord(AddWord(s, 0, LOAD_N(b, at, W)), 1, PAD(n - W)),
                 1, LOAD_N(b, at + W, n - W))
    ELSE AddWord(AddWord(s, 0, PAD(n)), 0, LOAD_N(b, at, n))

LEMMA BlockType ==
  ASSUME NEW b, NEW s \in State, NEW at
  PROVE  /\ Full(b, s, at) \in State
         /\ \A n \in Nat : n < Rate => Rest(b, s, at, n) \in State
<1>1. \A p, k : \A t \in State, i \in 0..1 : AddWord(t, i, LOAD_N(b, p, k)) \in State
  BY AddWordType, LoadType
<1>2. Full(b, s, at) \in State
  BY <1>1 DEF Full
<1>3. ASSUME NEW n \in Nat, n < Rate, RateWords = 2, n >= W
      PROVE  Rest(b, s, at, n) \in State
  <2>1. n - W \in 0..(W - 1)
    BY <1>3, WAssumption DEF Rate
  <2>2. AddWord(AddWord(s, 0, LOAD_N(b, at, W)), 1, PAD(n - W)) \in State
    BY <2>1, <1>1, PadType, AddWordType
  <2> QED BY <1>1, <1>3, <2>2 DEF Rest
<1>4. ASSUME NEW n \in Nat, n < Rate, ~(RateWords = 2 /\ n >= W)
      PROVE  Rest(b, s, at, n) \in State
  <2>1. n \in 0..(W - 1)
    BY <1>4, WAssumption, RateAssumption DEF Rate
  <2>2. AddWord(s, 0, PAD(n)) \in State
    BY <2>1, PadType, AddWordType
  <2> QED BY <1>1, <1>4, <2>2 DEF Rest
<1> QED BY <1>2, <1>3, <1>4

LEMMA AbsorbIs ==
  \A s, at, n : /\ AbsorbRate(s, at) = Full(call.ad, s, at)
                /\ AbsorbRest(s, at, n) = Rest(call.ad, s, at, n)
  BY DEF AbsorbRate, AbsorbRest, AbsorbWord, Full, Rest

LEMMA FinalizeType == ASSUME NEW s \in State PROVE Finalize(s) \in State
<1>1. KeyWord(call, 0) \in Word /\ KeyWord(call, 1) \in Word
  BY LoadType DEF KeyWord
<1>2. RateWords \in 0..4 /\ RateWords + 1 \in 0..4
  BY RateAssumption
<1> DEFINE t == AddWord(AddWord(s, RateWords, KeyWord(call, 0)),
                        RateWords + 1, KeyWord(call, 1))
<1>3. t \in State
  BY <1>1, <1>2, AddWordType
<1>4. AddWord(AddWord(P_A(t), 3, KeyWord(call, 0)), 4, KeyWord(call, 1)) \in State
  BY <1>1, <1>3, AddWordType, PBType
<1> QED BY <1>4 DEF Finalize

(* The comparison without branches: 0 if no bit differs, and -1 otherwise.  *)
LEMMA ValueOfType == \A b : ValueOf(b) \in 0..255
  BY DEF ValueOf

LEMMA ValueOfZero == ASSUME NEW b PROVE ValueOf(b) = 0 <=> b \cap (0..7) = {}
<1>1. ValueOf(b) = 0 <=> /\ 0 \notin b /\ 1 \notin b /\ 2 \notin b /\ 3 \notin b
                         /\ 4 \notin b /\ 5 \notin b /\ 6 \notin b /\ 7 \notin b
  BY DEF ValueOf
<1>2. \A i \in 0..7 : i = 0 \/ i = 1 \/ i = 2 \/ i = 3 \/ i = 4 \/ i = 5 \/ i = 6 \/ i = 7
  OBVIOUS
<1> QED BY <1>1, <1>2

LEMMA VerdictType == \A bytes, p, t : TagVerdict(bytes, p, t) \in {0, -1}
<1> TAKE bytes, p, t
<1>1. Differences(bytes, p, t) \in 0..255
  BY ValueOfType DEF Differences
<1> QED BY <1>1 DEF TagVerdict

LEMMA Verdict ==
  ASSUME NEW bytes, NEW p, NEW t,
         \A i \in 0..(TagLen - 1) : bytes[p + i] \in Byte /\ t[i] \in Byte
  PROVE  TagVerdict(bytes, p, t)
           = IF \A i \in 0..(TagLen - 1) : XOR(bytes[p + i], t[i]) = {} THEN 0 ELSE -1
<1> DEFINE d == {b \in 0..7 : \E i \in 0..(TagLen - 1) : b \in XOR(bytes[p + i], t[i])}
           v == ValueOf(d)
<1>1. d \cap (0..7) = {} <=> \A i \in 0..(TagLen - 1) : XOR(bytes[p + i], t[i]) = {}
  BY DEF XOR, Byte
<1>2. TagVerdict(bytes, p, t) = (((v - 1) \div 256) % 2) - 1
  BY DEF TagVerdict, Differences
<1> HIDE DEF d
<1>3. v \in 0..255 /\ (v = 0 <=> d \cap (0..7) = {})
  BY ValueOfType, ValueOfZero
<1> HIDE DEF v
<1>4. (((v - 1) \div 256) % 2) - 1 = IF v = 0 THEN 0 ELSE -1
  BY <1>3
<1> QED BY <1>1, <1>2, <1>3, <1>4

LEMMA StoreTagType ==
  ASSUME NEW D, NEW m \in [D -> Byte], NEW p, NEW s
  PROVE  StoreTag(m, p, s) \in [D -> Byte]
  BY StoreType DEF StoreTag

LEMMA StoreTagFrame ==
  ASSUME NEW D, NEW m \in [D -> Byte], NEW p \in Nat, NEW s, NEW a \in D,
         a \notin Region(p, TagLen)
  PROVE  StoreTag(m, p, s)[a] = m[a]
<1>1. a \notin p..(p + W - 1) /\ a \notin (p + W)..(p + W + W - 1)
  BY WAssumption DEF Region, TagLen
<1> DEFINE n == STORE_N(m, p, s[3], W)
<1>2. n \in [D -> Byte] /\ n[a] = m[a]
  BY <1>1, StoreType, StoreFrame
<1> HIDE DEF n
<1>3. STORE_N(n, p + W, s[4], W)[a] = n[a]
  BY <1>1, <1>2, StoreFrame
<1> QED BY <1>2, <1>3 DEF StoreTag, n

------------------------------------------------------------------------------
(* What one word, one block and the rest of a text do to state and memory.  *)

TextOK(s) == s.x \in State /\ s.mem \in [Addr -> Byte]

(* From s to t, only the n bytes at p have been written. *)
Frame(s, t, p, n) ==
  \A a \in Addr : a \notin Region(p, n) => t.mem[a] = s.mem[a]

LEMMA FrameCompose ==
  ASSUME NEW r, NEW s, NEW t, NEW p \in Nat, NEW m \in Nat, NEW n \in Nat,
         Frame(r, s, p, m), Frame(s, t, p + m, n)
  PROVE  Frame(r, t, p, m + n)
  BY DEF Frame, Region, Addr

LEMMA WordStep ==
  ASSUME IsCall(call), NEW s, TextOK(s), NEW i \in 0..1,
         NEW at \in Nat, NEW n \in Nat
  PROVE  /\ TextOK(EncryptWord(s, i, at, n))
         /\ TextOK(DecryptWord(s, i, at, n))
         /\ Frame(s, EncryptWord(s, i, at, n), call.dst + at, n)
         /\ Frame(s, DecryptWord(s, i, at, n), call.dst + at, n)
<1> DEFINE w == LOAD_N(s.mem, call.src + at, n)
           y == XOR(s.x[i], w)
           m == STORE_N(s.mem, call.dst + at, y, n)
<1>1. w \in Word /\ y \in Word /\ XOR(CLEAR_N(y, n), w) \in Word
  BY LoadType, XorType, ClearType DEF TextOK, State
<1>2. m \in [Addr -> Byte]
  BY StoreType DEF TextOK
<1>3. \A a \in Addr : a \notin Region(call.dst + at, n) => m[a] = s.mem[a]
  BY StoreFrame DEF TextOK, Region
<1>4. /\ EncryptWord(s, i, at, n) = [x |-> [s.x EXCEPT ![i] = y], mem |-> m]
      /\ DecryptWord(s, i, at, n)
           = [x |-> [s.x EXCEPT ![i] = XOR(CLEAR_N(y, n), w)], mem |-> m]
  BY DEF EncryptWord, DecryptWord
<1>5. /\ [s.x EXCEPT ![i] = y] \in State
      /\ [s.x EXCEPT ![i] = XOR(CLEAR_N(y, n), w)] \in State
  BY <1>1 DEF TextOK, State
<1> HIDE DEF w, y, m
<1> QED BY <1>2, <1>3, <1>4, <1>5 DEF TextOK, Frame

LEMMA PaddedStep ==
  ASSUME NEW s, TextOK(s), NEW i \in 0..1, NEW n \in 0..(W - 1)
  PROVE  TextOK(Padded(s, i, n)) /\ Padded(s, i, n).mem = s.mem
  BY PadType, AddWordType DEF TextOK, Padded

LEMMA RateStep ==
  ASSUME IsCall(call), NEW s, TextOK(s), NEW at \in Nat
  PROVE  /\ TextOK(EncryptRate(s, at)) /\ TextOK(DecryptRate(s, at))
         /\ Frame(s, EncryptRate(s, at), call.dst + at, Rate)
         /\ Frame(s, DecryptRate(s, at), call.dst + at, Rate)
<1> DEFINE e == EncryptWord(s, 0, at, W)
           d == DecryptWord(s, 0, at, W)
<1>0. 0 \in 0..1 /\ 1 \in 0..1
  OBVIOUS
<1>1. W \in Nat /\ at + W \in Nat /\ call.dst \in Nat
  BY WAssumption DEF IsCall
<1>2. /\ TextOK(e) /\ Frame(s, e, call.dst + at, W)
      /\ TextOK(d) /\ Frame(s, d, call.dst + at, W)
  BY <1>0, <1>1, WordStep
<1> HIDE DEF e, d
<1>3. CASE RateWords = 1
  BY <1>1, <1>2, <1>3 DEF EncryptRate, DecryptRate, Rate, e, d
<1>4. CASE RateWords = 2
  <2>1. /\ TextOK(EncryptWord(e, 1, at + W, W))
        /\ Frame(e, EncryptWord(e, 1, at + W, W), call.dst + (at + W), W)
        /\ TextOK(DecryptWord(d, 1, at + W, W))
        /\ Frame(d, DecryptWord(d, 1, at + W, W), call.dst + (at + W), W)
    BY <1>0, <1>1, <1>2, WordStep
  <2>2. call.dst + (at + W) = (call.dst + at) + W /\ Rate = W + W
    BY <1>1, <1>4 DEF Rate
  <2>3. /\ Frame(s, EncryptWord(e, 1, at + W, W), call.dst + at, Rate)
        /\ Frame(s, DecryptWord(d, 1, at + W, W), call.dst + at, Rate)
    BY <1>1, <1>2, <2>1, <2>2, FrameCompose
  <2> QED BY <1>4, <2>1, <2>3 DEF EncryptRate, DecryptRate, e, d
<1> QED BY <1>3, <1>4, RateAssumption

LEMMA RestStep ==
  ASSUME IsCall(call), NEW s, TextOK(s), NEW at \in Nat, NEW n \in Nat, n < Rate
  PROVE  /\ TextOK(EncryptRest(s, at, n)) /\ TextOK(DecryptRest(s, at, n))
         /\ Frame(s, EncryptRest(s, at, n), call.dst + at, n)
         /\ Frame(s, DecryptRest(s, at, n), call.dst + at, n)
<1>0. 0 \in 0..1 /\ 1 \in 0..1
  OBVIOUS
<1>1. W \in Nat /\ at + W \in Nat /\ call.dst \in Nat
  BY WAssumption DEF IsCall
<1>2. CASE ~(RateWords = 2 /\ n >= W)
  <2> DEFINE p == Padded(s, 0, n)
  <2>1. n \in 0..(W - 1)
    BY <1>2, WAssumption, RateAssumption DEF Rate
  <2>2. TextOK(p) /\ p.mem = s.mem
    BY <2>1, PaddedStep
  <2> HIDE DEF p
  <2>3. /\ TextOK(EncryptWord(p, 0, at, n)) /\ TextOK(DecryptWord(p, 0, at, n))
        /\ Frame(p, EncryptWord(p, 0, at, n), call.dst + at, n)
        /\ Frame(p, DecryptWord(p, 0, at, n), call.dst + at, n)
    BY <1>0, <2>2, WordStep
  <2>4. /\ EncryptRest(s, at, n) = EncryptWord(p, 0, at, n)
        /\ DecryptRest(s, at, n) = DecryptWord(p, 0, at, n)
    BY <1>2 DEF EncryptRest, DecryptRest, p
  <2> QED BY <2>2, <2>3, <2>4 DEF Frame
<1>3. CASE RateWords = 2 /\ n >= W
  <2> DEFINE e == EncryptWord(s, 0, at, W)
             d == DecryptWord(s, 0, at, W)
             pe == Padded(e, 1, n - W)
             pd == Padded(d, 1, n - W)
  <2>1. n - W \in 0..(W - 1) /\ n - W \in Nat
    BY <1>1, <1>3 DEF Rate
  <2>2. /\ TextOK(e) /\ Frame(s, e, call.dst + at, W)
        /\ TextOK(d) /\ Frame(s, d, call.dst + at, W)
    BY <1>0, <1>1, WordStep
  <2> HIDE DEF e, d
  <2>3. /\ TextOK(pe) /\ pe.mem = e.mem
        /\ TextOK(pd) /\ pd.mem = d.mem
    BY <2>1, <2>2, PaddedStep
  <2> HIDE DEF pe, pd
  <2>4. /\ TextOK(EncryptWord(pe, 1, at + W, n - W))
        /\ Frame(pe, EncryptWord(pe, 1, at + W, n - W), call.dst + (at + W), n - W)
        /\ TextOK(DecryptWord(pd, 1, at + W, n - W))
        /\ Frame(pd, DecryptWord(pd, 1, at + W, n - W), call.dst + (at + W), n - W)
    BY <1>0, <1>1, <2>1, <2>3, WordStep
  <2>5. /\ Frame(e, EncryptWord(pe, 1, at + W, n - W), (call.dst + at) + W, n - W)
        /\ Frame(d, DecryptWord(pd, 1, at + W, n - W), (call.dst + at) + W, n - W)
    <3>1. call.dst + (at + W) = (call.dst + at) + W
      BY <1>1
    <3> QED BY <2>3, <2>4, <3>1 DEF Frame
  <2>6. W + (n - W) = n
    BY <1>1
  <2>7. /\ Frame(s, EncryptWord(pe, 1, at + W, n - W), call.dst + at, n)
        /\ Frame(s, DecryptWord(pd, 1, at + W, n - W), call.dst + at, n)
    BY <1>1, <2>1, <2>2, <2>5, <2>6, FrameCompose
  <2>8. /\ EncryptRest(s, at, n) = EncryptWord(pe, 1, at + W, n - W)
        /\ DecryptRest(s, at, n) = DecryptWord(pd, 1, at + W, n - W)
    BY <1>3 DEF EncryptRest, DecryptRest, e, d, pe, pd
  <2> QED BY <2>4, <2>7, <2>8
<1> QED BY <1>2, <1>3

------------------------------------------------------------------------------
(* The steps over the text, as the invariants need them: in both kinds of   *)
(* call, what a step adds to memory lies in the n output bytes at pos.      *)

TextStep(n) ==
  /\ x' \in State /\ mem' \in [Addr -> Byte]
  /\ \A a \in Addr : a \notin Region(call.dst + pos, n) => mem'[a] = mem[a]

LEMMA BlockStep ==
  ASSUME TypeOK, EncryptBlock \/ DecryptBlock
  PROVE  TextStep(Rate) /\ pos + Rate \in 0..call.len
<1> DEFINE e == EncryptRate(Here, pos)
           d == DecryptRate(Here, pos)
<1>1. /\ IsCall(call) /\ pos \in Nat /\ TextOK(Here) /\ Here.mem = mem
      /\ call.len \in Nat
  BY DEF TypeOK, TextOK, Here, IsCall
<1>2. pos + Rate \in 0..call.len
  BY <1>1, WAssumption, RateAssumption DEF EncryptBlock, DecryptBlock, Rate
<1>3. /\ TextOK(e) /\ Frame(Here, e, call.dst + pos, Rate)
      /\ TextOK(d) /\ Frame(Here, d, call.dst + pos, Rate)
  BY <1>1, RateStep
<1>4. P_B(e.x) \in State /\ P_B(d.x) \in State
  BY <1>3, PBType DEF TextOK
<1>5. \/ x' = P_B(e.x) /\ mem' = e.mem
      \/ x' = P_B(d.x) /\ mem' = d.mem
  BY DEF EncryptBlock, DecryptBlock
<1> HIDE DEF e, d
<1> QED BY <1>1, <1>2, <1>3, <1>4, <1>5 DEF TextStep, TextOK, Frame

LEMMA LastStep ==
  ASSUME TypeOK, EncryptLast \/ DecryptLast
  PROVE  TextStep(call.len - pos)
<1> DEFINE n == call.len - pos
           e == EncryptRest(Here, pos, n)
           d == DecryptRest(Here, pos, n)
<1>1. /\ IsCall(call) /\ pos \in Nat /\ TextOK(Here) /\ Here.mem = mem
  BY DEF TypeOK, TextOK, Here, IsCall
<1>2. n \in Nat /\ n < Rate
  BY <1>1 DEF EncryptLast, DecryptLast, TypeOK, IsCall
<1>3. \/ x' = e.x /\ mem' = e.mem
      \/ x' = d.x /\ mem' = d.mem
  BY DEF EncryptLast, DecryptLast
<1> HIDE DEF n
<1>4. /\ TextOK(e) /\ Frame(Here, e, call.dst + pos, n)
      /\ TextOK(d) /\ Frame(Here, d, call.dst + pos, n)
  BY <1>1, <1>2, RestStep
<1> HIDE DEF e, d
<1>5. TextStep(n)
  BY <1>1, <1>3, <1>4 DEF TextStep, TextOK, Frame
<1> QED BY <1>5 DEF n

------------------------------------------------------------------------------

LEMMA TypeStep == TypeOK /\ [Next]_vars => TypeOK'
<1> SUFFICES ASSUME TypeOK, [Next]_vars PROVE TypeOK'
  OBVIOUS
<1> USE DEF TypeOK
<1>1. CASE Initialise
  <2>1. /\ KeyWord(call, 0) \in Word /\ KeyWord(call, 1) \in Word
        /\ P_A(InitialState(call)) \in State
    BY LoadType, InitialStateType, PBType DEF KeyWord
  <2>2. x' \in State
    BY <1>1, <2>1, AddWordType DEF Initialise
  <2> QED BY <1>1, <2>2 DEF Initialise
<1>2. CASE AbsorbBlock
  <2>1. 0 \in Nat /\ 0 < Rate
    BY WAssumption, RateAssumption DEF Rate
  <2>2. x' \in State
    BY <1>2, <2>1, AbsorbIs, BlockType, PBType DEF AbsorbBlock
  <2>3. absorbed' \in 0..call.adlen
    BY <1>2, WAssumption, RateAssumption DEF AbsorbBlock, IsCall, Rate
  <2> QED BY <1>2, <2>2, <2>3 DEF AbsorbBlock
<1>3. CASE AbsorbLast
  <2>1. call.adlen \in Nat /\ call.adlen - absorbed \in Nat
        /\ call.adlen - absorbed < Rate
    BY <1>3 DEF AbsorbLast, IsCall
  <2>2. AbsorbRest(x, absorbed, call.adlen - absorbed) \in State
    BY <2>1, AbsorbIs, BlockType
  <2>3. x' \in State
    BY <1>3, <2>2, PBType, SeparateDomainType DEF AbsorbLast
  <2> QED BY <1>3, <2>1, <2>3 DEF AbsorbLast
<1>4. CASE AbsorbNothing
  BY <1>4, SeparateDomainType DEF AbsorbNothing
<1>5. CASE EncryptBlock
  BY <1>5, BlockStep DEF EncryptBlock, TextStep
<1>6. CASE EncryptLast
  BY <1>6, LastStep DEF EncryptLast, TextStep, IsCall
<1>7. CASE EncryptTag
  BY <1>7, FinalizeType, StoreTagType DEF EncryptTag
<1>8. CASE DecryptBlock
  BY <1>8, BlockStep DEF DecryptBlock, TextStep
<1>9. CASE DecryptLast
  BY <1>9, LastStep DEF DecryptLast, TextStep, IsCall
<1>10. CASE DecryptTag
  <2> DEFINE t == StoreTag([i \in 0..(TagLen - 1) |-> {}], 0, x')
  <2>1. ret' = TagVerdict(mem, call.tag, t)
    BY <1>10 DEF DecryptTag
  <2>2. TagVerdict(mem, call.tag, t) \in {0, -1}
    BY VerdictType
  <2> HIDE DEF t
  <2> QED BY <1>10, <2>1, <2>2, FinalizeType DEF DecryptTag
<1>11. CASE CallerStep
  BY <1>11 DEF CallerStep, EnterCall, IsCall
<1>12. CASE UNCHANGED vars
  BY <1>12 DEF vars
<1> QED BY <1>1, <1>2, <1>3, <1>4, <1>5, <1>6, <1>7, <1>8, <1>9, <1>10,
           <1>11, <1>12 DEF Next, CallStep

(* Every variable keeps its type; in particular the counters never run past *)
(* the lengths they count to, which the code's unsigned subtractions of     *)
(* what is left rely on.                                                    *)
THEOREM TypeCorrect == Spec => []TypeOK
<1>1. Init => TypeOK
  BY DEF Init, TypeOK, IsCall
<1> QED BY <1>1, TypeStep, PTL DEF Spec

(* A call, in any state of any call, has written nothing but its output:    *)
(* the text up to pos, and the tag of an encryption that has returned.      *)
THEOREM WritesConfined == Spec => []WritesOnlyOutput
<1>1. Init => WritesOnlyOutput
  BY DEF Init, WritesOnlyOutput
<1>2. TypeOK /\ TypeOK' /\ WritesOnlyOutput /\ [Next]_vars => WritesOnlyOutput'
  <2> SUFFICES ASSUME TypeOK, TypeOK', WritesOnlyOutput, [Next]_vars,
                      NEW a \in Addr, mem'[a] # entryMem'[a]
               PROVE  \/ a \in Region(call'.dst, pos')
                      \/ /\ call'.op = "encrypt" /\ pc' = "returned"
                         /\ a \in Region(call'.tag, TagLen)
    BY DEF WritesOnlyOutput
  <2>1. CASE UNCHANGED <<mem, entryMem, call, pos>> /\ pc # "returned"
    BY <2>1 DEF WritesOnlyOutput
  <2>2. CASE EncryptBlock \/ DecryptBlock
    <3>1. /\ TextStep(Rate) /\ pos' = pos + Rate /\ pos \in Nat /\ call.dst \in Nat
          /\ UNCHANGED <<call, entryMem>> /\ pc = "text"
      BY <2>2, BlockStep DEF EncryptBlock, DecryptBlock, TypeOK, IsCall
    <3>2. a \in Region(call.dst, pos) \/ a \in Region(call.dst + pos, Rate)
      BY <3>1 DEF TextStep, WritesOnlyOutput
    <3>3. Rate \in Nat
      BY WAssumption, RateAssumption DEF Rate
    <3> QED BY <3>1, <3>2, <3>3 DEF Region
  <2>3. CASE EncryptLast \/ DecryptLast
    <3>1. /\ TextStep(call.len - pos) /\ pos' = call.len
          /\ pos \in 0..call.len /\ call.dst \in Nat /\ call.len \in Nat
          /\ UNCHANGED <<call, entryMem>> /\ pc = "text"
      BY <2>3, LastStep DEF EncryptLast, DecryptLast, TypeOK, IsCall
    <3>2. a \in Region(call.dst, pos) \/ a \in Region(call.dst + pos, call.len - pos)
      BY <3>1 DEF TextStep, WritesOnlyOutput
    <3> QED BY <3>1, <3>2 DEF Region
  <2>4. CASE EncryptTag
    <3>1. /\ mem' = StoreTag(mem, call.tag, x') /\ UNCHANGED <<call, pos, entryMem>>
          /\ call.op = "encrypt" /\ pc = "tag" /\ pc' = "returned"
          /\ mem \in [Addr -> Byte] /\ call.tag \in Nat
      BY <2>4 DEF EncryptTag, TypeOK, IsCall
    <3>2. a \notin Region(call.tag, TagLen) => mem'[a] = mem[a]
      BY <3>1, StoreTagFrame
    <3> QED BY <3>1, <3>2 DEF WritesOnlyOutput
  <2>5. CASE CallerStep
    BY <2>5 DEF CallerStep, EnterCall
  <2>6. CASE UNCHANGED vars
    BY <2>6 DEF vars, WritesOnlyOutput
  <2>7. CASE DecryptTag
    BY <2>7 DEF DecryptTag, WritesOnlyOutput
  <2> QED BY <2>1, <2>2, <2>3, <2>4, <2>5, <2>6, <2>7
          DEF Next, CallStep, Initialise, AbsorbBlock, AbsorbLast, AbsorbNothing
<1> QED BY <1>1, <1>2, TypeCorrect, PTL DEF Spec

(* In every layout a caller may use, in place and downward overlap          *)
(* included, the text that is still to be processed has not been touched.   *)
THEOREM InputIntact == Spec => []UnreadInputIntact
<1>1. Init => UnreadInputIntact
  BY DEF Init, UnreadInputIntact
<1>2. TypeOK /\ TypeOK' /\ UnreadInputIntact /\ [Next]_vars => UnreadInputIntact'
  <2> SUFFICES ASSUME TypeOK, TypeOK', UnreadInputIntact, [Next]_vars,
                      pc' # "returned", NEW i \in pos'..(call'.len - 1)
               PROVE  mem'[call'.src + i] = entryMem'[call'.src + i]
    BY DEF UnreadInputIntact
  <2>1. CASE UNCHANGED <<mem, entryMem, call, pos>> /\ pc # "returned"
    BY <2>1 DEF UnreadInputIntact
  <2>2. CASE EncryptBlock \/ DecryptBlock
    <3>1. /\ TextStep(Rate) /\ pos' = pos + Rate /\ pos \in Nat
          /\ UNCHANGED <<call, entryMem>> /\ pc = "text"
          /\ Rate \in Nat /\ IsCall(call)
      BY <2>2, BlockStep, WAssumption, RateAssumption
         DEF EncryptBlock, DecryptBlock, TypeOK, Rate
    <3>2. /\ call.src + i \in Addr
          /\ call.src + i \notin Region(call.dst + pos, Rate)
          /\ i \in pos..(call.len - 1)
      BY <3>1, MemAssumption DEF IsCall, Region, Addr
    <3> QED BY <3>1, <3>2 DEF TextStep, UnreadInputIntact
  <2>3. CASE EncryptLast \/ DecryptLast
    <3>1. pos' = call.len /\ UNCHANGED call /\ call.len \in Nat
      BY <2>3 DEF EncryptLast, DecryptLast, TypeOK, IsCall
    <3> QED BY <3>1
  <2>4. CASE EncryptTag \/ DecryptTag
    BY <2>4 DEF EncryptTag, DecryptTag
  <2>5. CASE CallerStep
    BY <2>5 DEF CallerStep, EnterCall
  <2>6. CASE UNCHANGED vars
    BY <2>6 DEF vars, UnreadInputIntact
  <2> QED BY <2>1, <2>2, <2>3, <2>4, <2>5, <2>6
          DEF Next, CallStep, Initialise, AbsorbBlock, AbsorbLast, AbsorbNothing
<1> QED BY <1>1, <1>2, TypeCorrect, PTL DEF Spec

(* Every call ends after at most adlen + len + 4 of its steps: a step that  *)
(* a call takes lowers a natural number.                                    *)
THEOREM CallsAreFinite == Spec => EveryStepAdvances
<1>1. TypeOK /\ TypeOK' /\ [Next]_vars => [pc # "returned" => Remaining' < Remaining]_vars
  <2> SUFFICES ASSUME TypeOK, TypeOK', Next, pc # "returned"
               PROVE  Remaining' < Remaining
    OBVIOUS
  <2>1. /\ Rate \in Nat /\ Rate > 0
    BY WAssumption, RateAssumption DEF Rate
  <2>2. /\ call.adlen \in Nat /\ call.len \in Nat
        /\ absorbed \in 0..call.adlen /\ pos \in 0..call.len
    BY DEF TypeOK, IsCall
  <2> USE DEF Remaining
  <2>3. CASE Initialise
    BY <2>2, <2>3 DEF Initialise
  <2>4. CASE AbsorbBlock
    BY <2>1, <2>2, <2>4 DEF AbsorbBlock
  <2>5. CASE AbsorbLast
    BY <2>2, <2>5 DEF AbsorbLast
  <2>6. CASE AbsorbNothing
    BY <2>2, <2>6 DEF AbsorbNothing
  <2>7. CASE EncryptBlock \/ DecryptBlock
    BY <2>1, <2>2, <2>7 DEF EncryptBlock, DecryptBlock
  <2>8. CASE EncryptLast \/ DecryptLast
    BY <2>2, <2>8 DEF EncryptLast, DecryptLast
  <2>9. CASE EncryptTag \/ DecryptTag
    BY <2>2, <2>9 DEF EncryptTag, DecryptTag
  <2>10. CASE CallerStep
    BY <2>10 DEF CallerStep, EnterCall
  <2> QED BY <2>3, <2>4, <2>5, <2>6, <2>7, <2>8, <2>9, <2>10 DEF Next, CallStep
<1> QED BY <1>1, TypeCorrect, PTL DEF Spec, EveryStepAdvances

------------------------------------------------------------------------------
(* Bits of a word and bytes of memory.                                      *)

(* The mirror image of a bit: the same bit of the byte that U64BIG puts in  *)
(* the place of its own.                                                    *)
LEMMA MirrorBit ==
  ASSUME NEW k \in Bits
  PROVE  LET r == W - 1 - (k \div 8)
             i == 8 * r + (k % 8)
         IN  /\ r \in 0..(W - 1) /\ i \in Bits /\ k % 8 \in 0..7
             /\ i \div 8 = r /\ i % 8 = k % 8 /\ W - 1 - r = k \div 8
             /\ 8 * (k \div 8) + (k % 8) = k
  BY WAssumption, SMT DEF Bits

LEMMA LoadMember ==
  ASSUME NEW m, NEW p, NEW n, NEW k \in Bits
  PROVE  k \in Standard(LOAD_N(m, p, n)) <=>
           /\ W - 1 - (k \div 8) < n
           /\ k % 8 \in m[p + (W - 1 - (k \div 8))]
<1> DEFINE a == {i \in Bits : i \div 8 < n /\ (i % 8) \in m[p + (i \div 8)]}
           r == W - 1 - (k \div 8)
           i == 8 * r + (k % 8)
<1>1. a \in Word
  BY DEF Word
<1>2. Standard(LOAD_N(m, p, n)) = U64BIG[a]
  BY <1>1, StandardExchange DEF LOAD_N
<1>3. k \in U64BIG[a] <=> i \in a
  BY <1>1 DEF U64BIG
<1>4. i \in Bits /\ i \div 8 = r /\ i % 8 = k % 8
  BY MirrorBit
<1> HIDE DEF i
<1>5. i \in a <=> r < n /\ k % 8 \in m[p + r]
  BY <1>4
<1> QED BY <1>2, <1>3, <1>5

LEMMA OutMember ==
  ASSUME NEW w \in Word, NEW j \in 0..(W - 1), NEW b \in 0..7
  PROVE  /\ 8 * (W - 1 - j) + b \in Bits
         /\ b \in OutByte(outbound_word(w), j) <=> 8 * (W - 1 - j) + b \in Standard(w)
<1> DEFINE k == 8 * j + b
           i == 8 * (W - 1 - j) + b
<1>1. k \in Bits /\ k \div 8 = j /\ k % 8 = b /\ i \in Bits
  BY WAssumption, SMT DEF Bits
<1>2. outbound_word(w) = U64BIG[Standard(w)] /\ Standard(w) \in Word
  BY StandardExchange, StandardType
<1>3. b \in OutByte(outbound_word(w), j) <=> k \in U64BIG[Standard(w)]
  BY <1>2 DEF OutByte
<1> HIDE DEF k
<1>4. k \in U64BIG[Standard(w)] <=> 8 * (W - 1 - (k \div 8)) + (k % 8) \in Standard(w)
  BY <1>1, <1>2 DEF U64BIG
<1> QED BY <1>1, <1>3, <1>4

(* Standard loses nothing. *)
LEMMA StandardInjective ==
  ASSUME NEW v \in Word, NEW w \in Word, Standard(v) = Standard(w)
  PROVE  v = w
<1>1. CASE TARGET_ARCH \notin BI32
  BY <1>1 DEF Standard
<1>2. CASE TARGET_ARCH \in BI32
  <2> SUFFICES ASSUME NEW k \in Bits PROVE k \in v <=> k \in w
    BY DEF Word
  <2>1. CASE k < 4 * W
    <3>1. 2 * k \in Bits /\ (2 * k) % 2 = 0 /\ (2 * k) \div 2 = k
      BY <2>1, WAssumption, SMT DEF Bits
    <3> DEFINE i == 2 * k
    <3> HIDE DEF i
    <3>2. i \in Bits /\ i % 2 = 0 /\ i \div 2 = k
      BY <3>1 DEF i
    <3> QED BY <1>2, <3>2, StandardMember
  <2>2. CASE ~(k < 4 * W)
    <3>1. LET i == 2 * (k - 4 * W) + 1
          IN  i \in Bits /\ i % 2 = 1 /\ (i \div 2) + 4 * W = k
      BY <2>2, WAssumption, SMT DEF Bits
    <3> DEFINE i == 2 * (k - 4 * W) + 1
    <3>2. i \in Bits /\ i % 2 = 1 /\ (i \div 2) + 4 * W = k
      BY <3>1
    <3> HIDE DEF i
    <3> QED BY <1>2, <3>2, StandardMember
  <2> QED BY <2>1, <2>2
<1> QED BY <1>1, <1>2

(* The word that encryption makes of a word and n bytes of text, and what   *)
(* decryption makes of the same word and the bytes stored: the state word   *)
(* is the same, and the bytes that come out are the text.                   *)
LEMMA OpenWord ==
  ASSUME NEW w \in Word, NEW n \in 0..W, NEW m, NEW p \in Int, NEW c, NEW q \in Int,
         \A j \in 0..(W - 1) : j < n => m[p + j] \in Byte,
         \A j \in 0..(W - 1) :
           j < n => c[q + j] = OutByte(outbound_word(XOR(w, LOAD_N(m, p, n))), j)
  PROVE  LET y == XOR(w, LOAD_N(c, q, n))
         IN  /\ XOR(CLEAR_N(y, n), LOAD_N(c, q, n)) = XOR(w, LOAD_N(m, p, n))
             /\ \A j \in 0..(W - 1) :
                  j < n => OutByte(outbound_word(y), j) = m[p + j]
<1> DEFINE L == LOAD_N(m, p, n)
           K == LOAD_N(c, q, n)
           v == XOR(w, L)
           y == XOR(w, K)
           z == XOR(CLEAR_N(y, n), K)
           sL == Standard(L)
           sK == Standard(K)
           sw == Standard(w)
<1>1. L \in Word /\ K \in Word
  BY LoadType
<1>2. v \in Word /\ y \in Word /\ CLEAR_N(y, n) \in Word /\ z \in Word
  BY <1>1, XorType, ClearType
<1>3. /\ Standard(v) = XOR(sw, sL) /\ Standard(y) = XOR(sw, sK)
      /\ Standard(z) = XOR({i \in Standard(y) : i < 8 * (W - n)}, sK)
  <2>1. Standard(CLEAR_N(y, n)) = {i \in Standard(y) : i < 8 * (W - n)}
    <3> HIDE DEF y
    <3> QED BY <1>2, StandardClear
  <2>2. Standard(v) = XOR(sw, sL) /\ Standard(y) = XOR(sw, sK)
    BY StandardXor
  <2>3. Standard(z) = XOR(Standard(CLEAR_N(y, n)), sK)
    <3> HIDE DEF y
    <3> QED BY StandardXor
  <2> QED BY <2>1, <2>2, <2>3
<1>4. \A k \in Bits : k \in sL => ~(k < 8 * (W - n))
  <2> SUFFICES ASSUME NEW k \in Bits, k \in sL PROVE ~(k < 8 * (W - n))
    OBVIOUS
  <2>1. W - 1 - (k \div 8) < n
    BY LoadMember
  <2> QED BY <2>1, WAssumption, SMT DEF Bits
<1>5. \A k \in Bits : k \in sK <=> ~(k < 8 * (W - n)) /\ k \in Standard(v)
  <2> SUFFICES ASSUME NEW k \in Bits
               PROVE  k \in sK <=> ~(k < 8 * (W - n)) /\ k \in Standard(v)
    OBVIOUS
  <2> DEFINE r == W - 1 - (k \div 8)
             b == k % 8
  <2>1. r \in 0..(W - 1) /\ b \in 0..7 /\ 8 * (W - 1 - r) + b = k
    <3>1. r \in 0..(W - 1) /\ b \in 0..7 /\ W - 1 - r = k \div 8 /\ 8 * (k \div 8) + b = k
      BY MirrorBit
    <3> HIDE DEF r, b
    <3> QED BY <3>1
  <2>2. r < n <=> ~(k < 8 * (W - n))
    BY WAssumption, SMT DEF Bits
  <2>3. k \in sK <=> r < n /\ b \in c[q + r]
    BY LoadMember
  <2> HIDE DEF r, b
  <2>4. r < n => (b \in c[q + r] <=> k \in Standard(v))
    <3> HIDE DEF v
    <3>1. b \in OutByte(outbound_word(v), r) <=> k \in Standard(v)
      BY <1>2, <2>1, OutMember
    <3>2. r < n => c[q + r] = OutByte(outbound_word(v), r)
      BY <2>1 DEF v
    <3> QED BY <3>1, <3>2
  <2> QED BY <2>2, <2>3, <2>4
<1>6. sL \in Word /\ sK \in Word /\ sw \in Word
  BY <1>1, StandardType
<1>7. z = v
  <2>1. Standard(z) = Standard(v)
    <3> HIDE DEF L, K, v, y, z, sL, sK, sw
    <3> SUFFICES ASSUME NEW k \in Bits
                 PROVE  k \in Standard(z) <=> k \in Standard(v)
      BY <1>2, StandardType DEF Word
    <3> QED BY <1>3, <1>4, <1>5 DEF XOR
  <2> QED BY <1>2, <2>1, StandardInjective
<1>8. ASSUME NEW j \in 0..(W - 1), j < n
      PROVE  OutByte(outbound_word(y), j) = m[p + j]
  <2> SUFFICES ASSUME NEW b \in 0..7
               PROVE  b \in OutByte(outbound_word(y), j) <=> b \in m[p + j]
    <3>1. m[p + j] \in Byte
      BY <1>8
    <3> QED BY <3>1 DEF OutByte, Byte
  <2> DEFINE i == 8 * (W - 1 - j) + b
  <2>1. i \in Bits /\ (b \in OutByte(outbound_word(y), j) <=> i \in Standard(y))
    BY <1>2, OutMember
  <2>2. W - 1 - (i \div 8) = j /\ i % 8 = b /\ ~(i < 8 * (W - n))
    BY <1>8, WAssumption, SMT
  <2> HIDE DEF i
  <2>3. i \in sL <=> b \in m[p + j]
    BY <1>8, <2>1, <2>2, LoadMember
  <2>4. i \in Standard(y) <=> i \in sL
    <3> HIDE DEF L, K, v, y, z, sL, sK, sw
    <3> QED BY <1>3, <1>5, <2>1, <2>2 DEF XOR
  <2> QED BY <2>1, <2>3, <2>4
<1> QED BY <1>7, <1>8

------------------------------------------------------------------------------
(* Words of a text, encrypted and opened.                                   *)

LEMMA LoadSame ==
  ASSUME NEW m, NEW p, NEW c, NEW q, NEW n,
         \A j \in 0..(W - 1) : j < n => m[p + j] = c[q + j]
  PROVE  LOAD_N(m, p, n) = LOAD_N(c, q, n)
<1>1. \A i \in Bits : i \div 8 \in 0..(W - 1)
  BY WAssumption, SMT DEF Bits
<1>2. {i \in Bits : i \div 8 < n /\ (i % 8) \in m[p + (i \div 8)]}
        = {i \in Bits : i \div 8 < n /\ (i % 8) \in c[q + (i \div 8)]}
  BY <1>1
<1> QED BY <1>2 DEF LOAD_N

(* The n bytes at p in memory are those of b at offset at. *)
Holds(mm, p, b, at, n) == \A j \in 0..(n - 1) : mm[p + at + j] = b[at + j]

(* The n bytes of c at p are the first of the word w, in the order of       *)
(* memory.                                                                  *)
Shows(c, p, w, n) == \A j \in 0..(n - 1) : c[p + j] = OutByte(outbound_word(w), j)

AreBytes(m, at, n) == \A j \in 0..(n - 1) : m[at + j] \in Byte

LEMMA AddWordValue ==
  ASSUME NEW s \in State, NEW i \in 0..4, NEW w
  PROVE  /\ AddWord(s, i, w)[i] = XOR(s[i], w)
         /\ \A k \in 0..4 : k # i => AddWord(s, i, w)[k] = s[k]
  BY DEF AddWord, State

LEMMA StoreValue ==
  ASSUME NEW D, NEW m \in [D -> Byte], NEW p \in Int, NEW w, NEW n \in Int,
         NEW j \in Int, 0 <= j, j < n, p + j \in D
  PROVE  STORE_N(m, p, w, n)[p + j] = OutByte(outbound_word(w), j)
<1>1. p + j \in p..(p + n - 1) /\ (p + j) - p = j
  OBVIOUS
<1> DEFINE a == p + j
<1>2. a \in p..(p + n - 1) /\ a - p = j /\ a \in D
  BY <1>1
<1> HIDE DEF a
<1>3. STORE_N(m, p, w, n)[a] = OutByte(outbound_word(w), a - p)
  BY <1>2 DEF STORE_N
<1> QED BY <1>2, <1>3 DEF a

------------------------------------------------------------------------------
(* A step of either call, from s to r, over n bytes of text at offset at: b *)
(* is the message and c the ciphertext, of which one is read and the other  *)
(* made.                                                                    *)

Reads(m, b, c, at, n) ==
  LET in == IF call.op = "encrypt" THEN b ELSE c
  IN  Holds(m, call.src, in, at, n) /\ AreBytes(in, at, n)
Makes(m, b, c, at, n) == Holds(m, call.dst, IF call.op = "encrypt" THEN c ELSE b, at, n)
TextWord(s, i, at, n) ==
  IF call.op = "encrypt" THEN EncryptWord(s, i, at, n) ELSE DecryptWord(s, i, at, n)

LEMMA WordIs ==
  ASSUME IsCall(call), NEW s, TextOK(s), NEW i \in 0..1, NEW at \in Nat, NEW n \in 0..W,
         at + n <= call.len, NEW b, NEW c, Reads(s.mem, b, c, at, n),
         Makes(TextWord(s, i, at, n).mem, b, c, at, n)
  PROVE  /\ TextWord(s, i, at, n).x = AddWord(s.x, i, LOAD_N(b, at, n))
         /\ Shows(c, at, TextWord(s, i, at, n).x[i], n)
<1> DEFINE in == IF call.op = "encrypt" THEN b ELSE c
           L == LOAD_N(b, at, n)
           K == LOAD_N(c, at, n)
           w == s.x[i]
           p == call.dst + at
           r == TextWord(s, i, at, n)
<1>a. r = TextWord(s, i, at, n) /\ Makes(r.mem, b, c, at, n)
  OBVIOUS
<1> SUFFICES r.x = AddWord(s.x, i, L) /\ Shows(c, at, r.x[i], n)
  OBVIOUS
<1> HIDE DEF r
<1>0. /\ at \in Int /\ n \in Int /\ p \in Int
      /\ \A j \in 0..(n - 1) : p + j \in Addr /\ j \in 0..(W - 1) /\ j < n
      /\ \A j \in 0..(W - 1) : j < n => j \in 0..(n - 1)
  BY WAssumption, MemAssumption DEF IsCall, Addr
<1>1. /\ \A j \in 0..(n - 1) : s.mem[call.src + at + j] = in[at + j]
      /\ \A j \in 0..(n - 1) : in[at + j] \in Byte
  BY DEF Reads, Holds, AreBytes
<1>2. LOAD_N(s.mem, call.src + at, n) = LOAD_N(in, at, n)
  <2> HIDE DEF in
  <2> QED BY <1>0, <1>1, LoadSame
<1>3. w \in Word /\ s.mem \in [Addr -> Byte]
  BY DEF TextOK, State
<1>4. ASSUME NEW y PROVE \A j \in 0..(n - 1) :
        STORE_N(s.mem, p, y, n)[p + j] = OutByte(outbound_word(y), j)
  <2> SUFFICES ASSUME NEW j \in 0..(n - 1)
               PROVE  STORE_N(s.mem, p, y, n)[p + j] = OutByte(outbound_word(y), j)
    OBVIOUS
  <2>1. p + j \in Addr /\ j \in Int /\ 0 <= j /\ j < n
    BY <1>0
  <2> HIDE DEF p
  <2> QED BY <1>0, <1>3, <2>1, StoreValue
<1>5. CASE call.op = "encrypt"
  <2> DEFINE y == XOR(w, L)
  <2>1. r = [x |-> [s.x EXCEPT ![i] = y], mem |-> STORE_N(s.mem, p, y, n)]
    BY <1>a, <1>2, <1>5 DEF TextWord, EncryptWord
  <2>2. r.x = AddWord(s.x, i, L) /\ r.x[i] = y
    BY <2>1 DEF AddWord, TextOK, State
  <2>3. \A j \in 0..(n - 1) : r.mem[p + j] = c[at + j]
    BY <1>a, <1>5 DEF Makes, Holds
  <2> HIDE DEF y, p
  <2>4. \A j \in 0..(n - 1) : c[at + j] = OutByte(outbound_word(y), j)
    BY <1>4, <2>1, <2>3
  <2> QED BY <2>2, <2>4 DEF Shows
<1>6. CASE call.op # "encrypt"
  <2> DEFINE y == XOR(w, K)
             v == XOR(w, L)
             z == XOR(CLEAR_N(y, n), K)
  <2>1. r = [x |-> [s.x EXCEPT ![i] = z], mem |-> STORE_N(s.mem, p, y, n)]
    BY <1>a, <1>2, <1>6 DEF TextWord, DecryptWord
  <2>2. \A j \in 0..(n - 1) : r.mem[p + j] = b[at + j]
    BY <1>a, <1>6 DEF Makes, Holds
  <2>3. \A j \in 0..(n - 1) : b[at + j] = OutByte(outbound_word(y), j)
    <3> HIDE DEF y, p
    <3> QED BY <1>4, <2>1, <2>2
  <2>4. \A j \in 0..(n - 1) : c[at + j] \in Byte /\ b[at + j] \in Byte
    <3>1. \A j : OutByte(outbound_word(y), j) \in Byte
      BY DEF OutByte, Byte
    <3> QED BY <1>1, <1>6, <2>3, <3>1
  <2>5. \A j \in 0..(n - 1) : c[at + j] = OutByte(outbound_word(v), j)
    <3> HIDE DEF w
    <3>1. \A j \in 0..(W - 1) : j < n => c[at + j] \in Byte
      BY <1>0, <2>4
    <3>2. \A j \in 0..(W - 1) : j < n => b[at + j] = OutByte(outbound_word(XOR(w, K)), j)
      BY <1>0, <2>3
    <3>3. \A j \in 0..(W - 1) : j < n => OutByte(outbound_word(v), j) = c[at + j]
      BY <1>0, <1>3, <3>1, <3>2, OpenWord
    <3> QED BY <1>0, <3>3
  <2>6. z = v
    <3> HIDE DEF w
    <3>1. \A j \in 0..(W - 1) : j < n => b[at + j] \in Byte
      BY <1>0, <2>4
    <3>2. \A j \in 0..(W - 1) : j < n => c[at + j] = OutByte(outbound_word(XOR(w, L)), j)
      BY <1>0, <2>5
    <3> QED BY <1>0, <1>3, <3>1, <3>2, OpenWord
  <2>7. r.x = AddWord(s.x, i, L) /\ r.x[i] = v
    <3>1. r.x = [s.x EXCEPT ![i] = v]
      BY <2>1, <2>6
    <3> QED BY <3>1 DEF AddWord, TextOK, State
  <2> HIDE DEF v
  <2> QED BY <2>5, <2>7 DEF Shows
<1> QED BY <1>5, <1>6

------------------------------------------------------------------------------
(* Blocks of two words.                                                     *)

(* A block of one or two words, in parts. *)
LEMMA Parts ==
  ASSUME NEW at \in Nat, NEW n \in 0..W
  PROVE  /\ \A mm, b : \A p \in Nat :
              Holds(mm, p, b, at, W + n)
                <=> Holds(mm, p, b, at, W) /\ Holds(mm, p, b, at + W, n)
         /\ \A m : AreBytes(m, at, W + n)
                     <=> AreBytes(m, at, W) /\ AreBytes(m, at + W, n)
<1>0. W \in Nat /\ W > 0
  BY WAssumption
<1>1. ASSUME NEW mm, NEW b, NEW p \in Nat
      PROVE  Holds(mm, p, b, at, W + n)
               <=> Holds(mm, p, b, at, W) /\ Holds(mm, p, b, at + W, n)
  <2>1. ASSUME Holds(mm, p, b, at, W + n)
        PROVE  Holds(mm, p, b, at, W) /\ Holds(mm, p, b, at + W, n)
    <3>1. ASSUME NEW j \in 0..(W - 1)
          PROVE  mm[p + at + j] = b[at + j]
      BY <1>0, <2>1, <3>1 DEF Holds
    <3>2. ASSUME NEW j \in 0..(n - 1)
          PROVE  mm[p + (at + W) + j] = b[(at + W) + j]
      <4> DEFINE k == W + j
      <4>1. /\ k \in 0..(W + n - 1) /\ p + (at + W) + j = p + at + k
            /\ (at + W) + j = at + k
        BY <1>0, <3>2
      <4> HIDE DEF k
      <4> QED BY <1>0, <2>1, <4>1 DEF Holds
    <3> QED BY <3>1, <3>2 DEF Holds
  <2>2. ASSUME Holds(mm, p, b, at, W), Holds(mm, p, b, at + W, n),
               NEW j \in 0..(W + n - 1)
        PROVE  mm[p + at + j] = b[at + j]
    <3>1. CASE j < W
      BY <1>0, <2>2, <3>1 DEF Holds
    <3>2. CASE ~(j < W)
      <4> DEFINE k == j - W
      <4>1. /\ k \in 0..(n - 1) /\ p + (at + W) + k = p + at + j
            /\ (at + W) + k = at + j
        BY <1>0, <3>2
      <4> HIDE DEF k
      <4> QED BY <2>2, <4>1 DEF Holds
    <3> QED BY <3>1, <3>2
  <2> QED BY <1>0, <2>1, <2>2 DEF Holds
<1>2. ASSUME NEW m
      PROVE  AreBytes(m, at, W + n) <=> AreBytes(m, at, W) /\ AreBytes(m, at + W, n)
  <2>1. ASSUME AreBytes(m, at, W + n)
        PROVE  AreBytes(m, at, W) /\ AreBytes(m, at + W, n)
    <3>1. ASSUME NEW j \in 0..(W - 1)
          PROVE  m[at + j] \in Byte
      BY <1>0, <2>1, <3>1 DEF AreBytes
    <3>2. ASSUME NEW j \in 0..(n - 1)
          PROVE  m[(at + W) + j] \in Byte
      <4> DEFINE k == W + j
      <4>1. k \in 0..(W + n - 1) /\ (at + W) + j = at + k
        BY <1>0, <3>2
      <4> HIDE DEF k
      <4> QED BY <1>0, <2>1, <4>1 DEF AreBytes
    <3> QED BY <3>1, <3>2 DEF AreBytes
  <2>2. ASSUME AreBytes(m, at, W), AreBytes(m, at + W, n), NEW j \in 0..(W + n - 1)
        PROVE  m[at + j] \in Byte
    <3>1. CASE j < W
      BY <1>0, <2>2, <3>1 DEF AreBytes
    <3>2. CASE ~(j < W)
      <4> DEFINE k == j - W
      <4>1. k \in 0..(n - 1) /\ (at + W) + k = at + j
        BY <1>0, <3>2
      <4> HIDE DEF k
      <4> QED BY <2>2, <4>1 DEF AreBytes
    <3> QED BY <3>1, <3>2
  <2>3. AreBytes(m, at, W) /\ AreBytes(m, at + W, n) => AreBytes(m, at, W + n)
    <3>1. 0..(W + n - 1) = 0..((W + n) - 1)
      BY <1>0
    <3> QED BY <2>2, <3>1 DEF AreBytes
  <2> QED BY <2>1, <2>3
<1> QED BY <1>1, <1>2

(* What the first word of a block has stored is not what the second loads. *)
LEMMA SecondLoads ==
  ASSUME IsCall(call), NEW s, NEW r, NEW at \in Nat, NEW n \in 0..W,
         at + W + n <= call.len, Frame(s, r, call.dst + at, W), NEW b,
         Holds(s.mem, call.src, b, at + W, n)
  PROVE  Holds(r.mem, call.src, b, at + W, n)
<1> SUFFICES ASSUME NEW j \in 0..(n - 1)
             PROVE  r.mem[call.src + (at + W) + j] = b[(at + W) + j]
  BY DEF Holds
<1> DEFINE a == call.src + (at + W) + j
<1>1. a \in Addr /\ a \notin Region(call.dst + at, W)
  BY WAssumption, MemAssumption DEF IsCall, Addr, Region
<1>2. r.mem[a] = s.mem[a]
  <2> HIDE DEF a
  <2> QED BY <1>1 DEF Frame
<1>3. s.mem[a] = b[(at + W) + j]
  BY DEF Holds
<1> QED BY <1>2, <1>3

(* What the first word has stored stays when the second is stored.          *)
LEMMA FirstStays ==
  ASSUME IsCall(call), NEW q, NEW r, NEW at \in Nat, NEW n \in 0..W,
         at + W + n <= call.len, Frame(q, r, call.dst + (at + W), n), NEW b,
         Holds(r.mem, call.dst, b, at, W)
  PROVE  Holds(q.mem, call.dst, b, at, W)
<1>1. ASSUME NEW j \in 0..(W - 1)
      PROVE  r.mem[call.dst + at + j] = q.mem[call.dst + at + j]
  <2> DEFINE a == call.dst + at + j
  <2>1. a \in Addr /\ a \notin Region(call.dst + (at + W), n)
    BY WAssumption, MemAssumption DEF IsCall, Addr, Region
  <2> HIDE DEF a
  <2>2. r.mem[a] = q.mem[a]
    BY <2>1 DEF Frame
  <2> QED BY <2>2 DEF a
<1> QED BY <1>1 DEF Holds

LEMMA SecondIs ==
  ASSUME IsCall(call), NEW s, TextOK(s), NEW at \in Nat, NEW n \in 0..W,
         at + W + n <= call.len, NEW b, NEW c, Reads(s.mem, b, c, at, W + n),
         NEW q, TextOK(q), q.mem = TextWord(s, 0, at, W).mem,
         q.x[0] = TextWord(s, 0, at, W).x[0],
         Makes(TextWord(q, 1, at + W, n).mem, b, c, at, W + n)
  PROVE  /\ TextWord(s, 0, at, W).x = AddWord(s.x, 0, LOAD_N(b, at, W))
         /\ TextWord(q, 1, at + W, n).x = AddWord(q.x, 1, LOAD_N(b, at + W, n))
         /\ Shows(c, at, TextWord(q, 1, at + W, n).x[0], W)
         /\ Shows(c, at + W, TextWord(q, 1, at + W, n).x[1], n)
<1> DEFINE k == at + W
           in == IF call.op = "encrypt" THEN b ELSE c
           out == IF call.op = "encrypt" THEN c ELSE b
           e == TextWord(s, 0, at, W)
           r == TextWord(q, 1, k, n)
<1>0. /\ 0 \in 0..1 /\ 1 \in 0..1 /\ W \in 0..W /\ W \in Nat /\ k \in Nat /\ n \in Nat
      /\ at + W <= call.len /\ k + n <= call.len /\ call.src \in Nat /\ call.dst \in Nat
  BY WAssumption DEF IsCall
<1>1. /\ Holds(s.mem, call.src, in, at, W) /\ Holds(s.mem, call.src, in, k, n)
      /\ AreBytes(in, at, W) /\ AreBytes(in, k, n)
  <2>1. Holds(s.mem, call.src, in, at, W + n) /\ AreBytes(in, at, W + n)
    BY DEF Reads
  <2> HIDE DEF in
  <2> QED BY <1>0, <2>1, Parts
<1>2. Holds(r.mem, call.dst, out, at, W) /\ Holds(r.mem, call.dst, out, k, n)
  <2>1. Holds(r.mem, call.dst, out, at, W + n)
    BY DEF Makes
  <2> HIDE DEF out, r
  <2> QED BY <1>0, <2>1, Parts
<1>3. TextOK(e) /\ Frame(s, e, call.dst + at, W)
  BY <1>0, WordStep DEF TextWord
<1>4. Frame(s, q, call.dst + at, W)
  BY <1>3 DEF Frame
<1>5. Holds(q.mem, call.src, in, k, n)
  <2> HIDE DEF in
  <2> QED BY <1>1, <1>4, SecondLoads
<1>6. Frame(q, r, call.dst + k, n)
  BY <1>0, WordStep DEF TextWord
<1>7. Holds(e.mem, call.dst, out, at, W)
  <2>1. Frame(q, r, call.dst + (at + W), n)
    BY <1>6
  <2> HIDE DEF out, r, e
  <2>2. Holds(q.mem, call.dst, out, at, W)
    BY <1>2, <2>1, FirstStays
  <2> QED BY <2>2 DEF e
<1>8. Reads(s.mem, b, c, at, W) /\ Makes(e.mem, b, c, at, W)
      /\ Reads(q.mem, b, c, k, n) /\ Makes(r.mem, b, c, k, n)
  BY <1>1, <1>2, <1>5, <1>7 DEF Reads, Makes
<1>9. e.x = AddWord(s.x, 0, LOAD_N(b, at, W)) /\ Shows(c, at, e.x[0], W)
  BY ONLY IsCall(call), TextOK(s), at \in Nat, <1>0, <1>8, WordIs
<1>10. r.x = AddWord(q.x, 1, LOAD_N(b, k, n)) /\ Shows(c, k, r.x[1], n)
  <2> HIDE DEF k
  <2> QED BY ONLY IsCall(call), TextOK(q), n \in 0..W, <1>0, <1>8, WordIs
<1>11. r.x[0] = e.x[0]
  <2>1. q.x \in State /\ 1 \in 0..4 /\ 0 \in 0..4
    BY DEF TextOK
  <2> HIDE DEF r
  <2> QED BY <1>10, <2>1, AddWordValue
<1> QED BY <1>9, <1>10, <1>11
(* The n bytes of c at offset at are those that a block of encryption ends  *)
(* up with in the state s.                                                  *)
Emitted(s, c, at, n) ==
  IF RateWords = 2 /\ n >= W
    THEN Shows(c, at, s[0], W) /\ Shows(c, at + W, s[1], n - W)
    ELSE Shows(c, at, s[0], n)

LEMMA RateValue ==
  /\ W \in Nat /\ W > 0 /\ Rate \in Nat /\ Rate > 0
  /\ RateWords = 1 => Rate = W
  /\ RateWords = 2 => Rate = W + W /\ Rate >= W /\ Rate - W = W
  BY WAssumption, RateAssumption DEF Rate

LEMMA RateIs ==
  ASSUME IsCall(call), NEW s, TextOK(s), NEW at \in Nat, at + Rate <= call.len,
         NEW b, NEW c, Reads(s.mem, b, c, at, Rate),
         NEW r, r = IF call.op = "encrypt" THEN EncryptRate(s, at) ELSE DecryptRate(s, at),
         Makes(r.mem, b, c, at, Rate)
  PROVE  r.x = Full(b, s.x, at) /\ Emitted(r.x, c, at, Rate)
<1>0. 0 \in 0..1 /\ W \in 0..W /\ W \in Nat
  BY RateValue
<1> DEFINE e == TextWord(s, 0, at, W)
<1>1. CASE RateWords = 1
  <2>1. Rate = W /\ r = e /\ Full(b, s.x, at) = AddWord(s.x, 0, LOAD_N(b, at, W))
    BY <1>1, RateValue DEF EncryptRate, DecryptRate, TextWord, Full
  <2>2. at + W <= call.len /\ Reads(s.mem, b, c, at, W) /\ Makes(e.mem, b, c, at, W)
    BY <2>1
  <2>3. e.x = AddWord(s.x, 0, LOAD_N(b, at, W)) /\ Shows(c, at, e.x[0], W)
    BY ONLY IsCall(call), TextOK(s), at \in Nat, <1>0, <2>2, WordIs
  <2> HIDE DEF e
  <2> QED BY <1>1, <2>1, <2>3 DEF Emitted
<1>2. CASE RateWords = 2
  <2>1. Rate = W + W /\ r = TextWord(e, 1, at + W, W)
    BY <1>2, RateValue DEF EncryptRate, DecryptRate, TextWord
  <2>2. TextOK(e)
    BY <1>0, WordStep DEF TextWord
  <2>3. Rate >= W /\ Rate - W = W /\ at + W + W <= call.len
    BY <1>2, RateValue DEF IsCall
  <2>4. /\ Reads(s.mem, b, c, at, W + W)
        /\ Makes(TextWord(e, 1, at + W, W).mem, b, c, at, W + W)
        /\ e.mem = TextWord(s, 0, at, W).mem /\ e.x[0] = TextWord(s, 0, at, W).x[0]
    BY <2>1
  <2> HIDE DEF e
  <2>5. /\ TextWord(s, 0, at, W).x = AddWord(s.x, 0, LOAD_N(b, at, W))
        /\ TextWord(e, 1, at + W, W).x = AddWord(e.x, 1, LOAD_N(b, at + W, W))
        /\ Shows(c, at, TextWord(e, 1, at + W, W).x[0], W)
        /\ Shows(c, at + W, TextWord(e, 1, at + W, W).x[1], W)
    BY ONLY IsCall(call), TextOK(s), at \in Nat, <1>0, <2>2, <2>3, <2>4, SecondIs
  <2>6. e.x = AddWord(s.x, 0, LOAD_N(b, at, W))
    BY <2>5 DEF e
  <2>7. Full(b, s.x, at) = r.x
    BY <1>2, <2>1, <2>5, <2>6 DEF Full
  <2> QED BY <1>2, <2>1, <2>3, <2>5, <2>7 DEF Emitted
<1> QED BY <1>1, <1>2, RateAssumption

LEMMA RestIs ==
  ASSUME IsCall(call), NEW s, TextOK(s), NEW at \in Nat, NEW n \in Nat, n < Rate,
         at + n <= call.len, NEW b, NEW c, Reads(s.mem, b, c, at, n),
         NEW r, r = IF call.op = "encrypt" THEN EncryptRest(s, at, n) ELSE DecryptRest(s, at, n),
         Makes(r.mem, b, c, at, n)
  PROVE  r.x = Rest(b, s.x, at, n) /\ Emitted(r.x, c, at, n)
<1>0. 0 \in 0..1 /\ 1 \in 0..1 /\ W \in 0..W /\ W \in Nat
  BY RateValue
<1>1. CASE ~(RateWords = 2 /\ n >= W)
  <2> DEFINE q == Padded(s, 0, n)
             t == TextWord(q, 0, at, n)
  <2>1. n \in 0..(W - 1) /\ n \in 0..W
    BY <1>1, RateValue, RateAssumption
  <2>2. TextOK(q) /\ q.mem = s.mem /\ q.x = AddWord(s.x, 0, PAD(n))
    BY <1>0, <2>1, PaddedStep DEF Padded
  <2>3. r = t /\ Rest(b, s.x, at, n) = AddWord(q.x, 0, LOAD_N(b, at, n))
    BY <1>1, <2>2 DEF EncryptRest, DecryptRest, TextWord, Rest
  <2>4. Reads(q.mem, b, c, at, n) /\ Makes(t.mem, b, c, at, n)
    BY <2>2, <2>3
  <2> HIDE DEF q
  <2>5. t.x = AddWord(q.x, 0, LOAD_N(b, at, n)) /\ Shows(c, at, t.x[0], n)
    BY ONLY IsCall(call), at \in Nat, at + n <= call.len, <1>0, <2>1, <2>2, <2>4, WordIs
  <2> HIDE DEF t
  <2> QED BY <1>1, <2>3, <2>5 DEF Emitted
<1>2. CASE RateWords = 2 /\ n >= W
  <2> DEFINE k == n - W
             e == TextWord(s, 0, at, W)
             q == Padded(e, 1, k)
             t == TextWord(q, 1, at + W, k)
  <2>1. k \in 0..(W - 1) /\ k \in 0..W /\ W + k = n /\ at + W + k <= call.len
    <3>1. call.len \in Nat
      BY DEF IsCall
    <3> QED BY ONLY at \in Nat, n \in Nat, n < Rate, at + n <= call.len, <1>2, <3>1, RateValue
  <2>2. TextOK(e)
    BY <1>0, WordStep DEF TextWord
  <2>3. r = t
    BY <1>2 DEF EncryptRest, DecryptRest, TextWord
  <2> HIDE DEF k, e
  <2>4. TextOK(q) /\ q.mem = e.mem /\ q.x = AddWord(e.x, 1, PAD(k)) /\ q.x[0] = e.x[0]
    <3>1. e.x \in State /\ 0 \in 0..4 /\ 1 \in 0..4
      BY <2>2 DEF TextOK
    <3> QED BY <1>0, <2>1, <2>2, <3>1, PaddedStep, AddWordValue DEF Padded
  <2> HIDE DEF q
  <2>5. /\ Reads(s.mem, b, c, at, W + k) /\ Makes(t.mem, b, c, at, W + k)
        /\ q.mem = TextWord(s, 0, at, W).mem /\ q.x[0] = TextWord(s, 0, at, W).x[0]
    BY <2>1, <2>3, <2>4 DEF e
  <2>6. /\ TextWord(s, 0, at, W).x = AddWord(s.x, 0, LOAD_N(b, at, W))
        /\ t.x = AddWord(q.x, 1, LOAD_N(b, at + W, k))
        /\ Shows(c, at, t.x[0], W) /\ Shows(c, at + W, t.x[1], k)
    BY ONLY IsCall(call), TextOK(s), at \in Nat, <2>1, <2>4, <2>5, SecondIs
  <2> HIDE DEF t
  <2>7. e.x = AddWord(s.x, 0, LOAD_N(b, at, W))
    BY <2>6 DEF e
  <2>8. Rest(b, s.x, at, n) = r.x
    BY <1>2, <2>3, <2>4, <2>6, <2>7 DEF Rest, k
  <2> QED BY <1>2, <2>3, <2>6, <2>8 DEF Emitted, k
<1> QED BY <1>1, <1>2

------------------------------------------------------------------------------
(* What the two functions compute.                                          *)

(* The state after k full blocks of b. *)
Absorbing(b, s) == Walk([k \in Nat |-> [z \in State |-> P_B(Full(b, z, k * Rate))]], s)

(* The state that the last block of n bytes ends up with. *)
Last(b, n, s) == Rest(b, Absorbing(b, s)[n \div Rate], (n \div Rate) * Rate, n % Rate)

(* The state a call begins with, the one after the associated data, and the *)
(* one the tag is taken from.                                               *)
Begun(c) == AddWord(AddWord(P_A(InitialState(c)), 3, KeyWord(c, 0)), 4, KeyWord(c, 1))
Bound(c) == SeparateDomain(IF Length(c.ad) = 0 THEN Begun(c)
                                               ELSE P_B(Last(c.ad, Length(c.ad), Begun(c))))
Ended(c, s) ==
  AddWord(AddWord(P_A(AddWord(AddWord(s, RateWords, KeyWord(c, 0)),
                              RateWords + 1, KeyWord(c, 1))),
                  3, KeyWord(c, 0)), 4, KeyWord(c, 1))

(* Ciphertext and tag of the message b of n bytes, under the key, nonce and *)
(* associated data of c.                                                    *)
TextByte(z, r) == OutByte(outbound_word(z[r \div W]), r % W)
CipherOf(c, b, n) ==
  [i \in 0..(n - 1) |->
     LET k == i \div Rate
     IN  TextByte(IF k < n \div Rate THEN Full(b, Absorbing(b, Bound(c))[k], k * Rate)
                                     ELSE Last(b, n, Bound(c)), i % Rate)]
TagOf(c, b, n) == StoreTag([i \in 0..(TagLen - 1) |-> {}], 0, Ended(c, Last(b, n, Bound(c))))

(* The first k blocks of c are those of the message b. *)
Blocks(b, s, c, k) ==
  \A j \in 0..(k - 1) : Emitted(Full(b, Absorbing(b, s)[j], j * Rate), c, j * Rate, Rate)

(* c, of n bytes, is the ciphertext of b, from the state s. *)
Seals(b, s, c, n) ==
  /\ Blocks(b, s, c, n \div Rate)
  /\ Emitted(Last(b, n, s), c, (n \div Rate) * Rate, n % Rate)

LEMMA RateIndex ==
  /\ \A k \in Nat : /\ k * Rate \in Nat /\ (k + 1) * Rate = k * Rate + Rate
                    /\ \A r \in 0..(Rate - 1) :
                         (k * Rate + r) \div Rate = k /\ (k * Rate + r) % Rate = r
                    /\ \A j \in Nat : j < k => j * Rate + Rate <= k * Rate
  /\ \A n \in Nat : /\ n \div Rate \in Nat /\ n % Rate \in 0..(Rate - 1)
                    /\ (n \div Rate) * Rate + (n % Rate) = n
<1>1. CASE Rate = 2
  BY <1>1
<1>2. CASE Rate = 4
  BY <1>2
<1>3. CASE Rate = 8
  BY <1>3
<1>4. CASE Rate = 16
  BY <1>4
<1>5. Rate \in {2, 4, 8, 16}
  BY WAssumption, RateAssumption DEF Rate
<1> QED BY <1>1, <1>2, <1>3, <1>4, <1>5

(* Where the last block begins.                                             *)
LEMMA LastIndex ==
  ASSUME NEW n \in Nat, NEW k \in Nat, k * Rate <= n, n - k * Rate < Rate
  PROVE  k = n \div Rate /\ n - k * Rate = n % Rate
<1> DEFINE at == k * Rate
           r == n - at
<1>1. at \in Nat /\ r \in 0..(Rate - 1) /\ at + r = n
  BY RateIndex, RateValue
<1>2. (at + r) \div Rate = k /\ (at + r) % Rate = r
  BY <1>1, RateIndex
<1> HIDE DEF at, r
<1>3. n \div Rate = k /\ n % Rate = r
  BY <1>1, <1>2
<1> QED BY <1>3 DEF r, at

LEMMA WordIndex ==
  \A j \in 0..(W - 1) : /\ j \div W = 0 /\ j % W = j
                        /\ (W + j) \div W = 1 /\ (W + j) % W = j
<1>1. CASE W = 2
  BY <1>1
<1>2. CASE W = 4
  BY <1>2
<1>3. CASE W = 8
  BY <1>3
<1> QED BY <1>1, <1>2, <1>3, WAssumption

LEMMA EmittedIs ==
  ASSUME NEW z, NEW c, NEW at \in Nat, NEW m \in Nat, m <= Rate
  PROVE  Emitted(z, c, at, m) <=> \A r \in 0..(m - 1) : c[at + r] = TextByte(z, r)
<1>0. W \in Nat /\ W > 0
  BY RateValue
<1>1. \A r \in 0..(W - 1) : /\ TextByte(z, r) = OutByte(outbound_word(z[0]), r)
                            /\ TextByte(z, W + r) = OutByte(outbound_word(z[1]), r)
  BY WordIndex DEF TextByte
<1>2. CASE ~(RateWords = 2 /\ m >= W)
  <2>1. \A r \in 0..(m - 1) : r \in 0..(W - 1)
    BY <1>0, <1>2, RateValue, RateAssumption
  <2> QED BY <1>1, <1>2, <2>1 DEF Emitted, Shows
<1>3. CASE RateWords = 2 /\ m >= W
  <2>1. Emitted(z, c, at, m) <=> /\ \A r \in 0..(W - 1) : c[at + r] = TextByte(z, r)
                                 /\ \A r \in 0..((m - W) - 1) :
                                      c[(at + W) + r] = TextByte(z, W + r)
    <3>1. \A r \in 0..((m - W) - 1) : r \in 0..(W - 1)
      BY <1>0, <1>3, RateValue
    <3> QED BY <1>1, <1>3, <3>1 DEF Emitted, Shows
  <2>2. ASSUME \A r \in 0..(m - 1) : c[at + r] = TextByte(z, r)
        PROVE  /\ \A r \in 0..(W - 1) : c[at + r] = TextByte(z, r)
               /\ \A r \in 0..((m - W) - 1) : c[(at + W) + r] = TextByte(z, W + r)
    <3>1. ASSUME NEW r \in 0..((m - W) - 1) PROVE c[(at + W) + r] = TextByte(z, W + r)
      <4> DEFINE i == W + r
      <4>1. i \in 0..(m - 1) /\ (at + W) + r = at + i
        BY <1>0, <1>3
      <4> HIDE DEF i
      <4>2. c[(at + W) + r] = TextByte(z, i)
        BY <2>2, <4>1
      <4> QED BY <4>2 DEF i
    <3> QED BY <1>0, <1>3, <2>2, <3>1
  <2>3. ASSUME \A r \in 0..(W - 1) : c[at + r] = TextByte(z, r),
               \A r \in 0..((m - W) - 1) : c[(at + W) + r] = TextByte(z, W + r),
               NEW i \in 0..(m - 1)
        PROVE  c[at + i] = TextByte(z, i)
    <3>1. CASE i < W
      BY <1>0, <2>3, <3>1
    <3>2. CASE ~(i < W)
      <4> DEFINE r == i - W
      <4>1. r \in 0..((m - W) - 1) /\ (at + W) + r = at + i /\ W + r = i
        BY <1>0, <1>3, <3>2
      <4> HIDE DEF r
      <4> QED BY <2>3, <4>1
    <3> QED BY <3>1, <3>2
  <2> QED BY <2>1, <2>2, <2>3
<1> QED BY <1>2, <1>3

LEMMA CipherIs ==
  ASSUME NEW d, NEW b, NEW n \in Nat, NEW c \in Array(n)
  PROVE  c = CipherOf(d, b, n) <=> Seals(b, Bound(d), c, n)
<1> DEFINE s == Bound(d)
           m == n \div Rate
           z(k) == IF k < m THEN Full(b, Absorbing(b, s)[k], k * Rate) ELSE Last(b, n, s)
           At(i) == TextByte(z(i \div Rate), i % Rate)
<1>0. m \in Nat /\ n % Rate \in Nat /\ n % Rate <= Rate /\ m * Rate \in Nat /\ m * Rate + (n % Rate) = n
      /\ Rate \in Nat /\ Rate <= Rate
  BY RateIndex, RateValue
<1>1. c = CipherOf(d, b, n) <=> \A i \in 0..(n - 1) : c[i] = At(i)
  <2>1. CipherOf(d, b, n) = [i \in 0..(n - 1) |-> At(i)]
    BY DEF CipherOf
  <2>2. c = [i \in 0..(n - 1) |-> c[i]]
    BY DEF Array
  <2> HIDE DEF At
  <2> QED BY <2>1, <2>2
<1>2. \A k \in Nat : \A r \in 0..(Rate - 1) : At(k * Rate + r) = TextByte(z(k), r)
  <2> HIDE DEF z
  <2> QED BY RateIndex
<1>3. Blocks(b, s, c, m)
        <=> \A k \in 0..(m - 1) : \A r \in 0..(Rate - 1) : c[k * Rate + r] = TextByte(z(k), r)
  <2>1. ASSUME NEW k \in 0..(m - 1)
        PROVE  Emitted(Full(b, Absorbing(b, s)[k], k * Rate), c, k * Rate, Rate)
                 <=> \A r \in 0..(Rate - 1) : c[k * Rate + r] = TextByte(z(k), r)
    <3> DEFINE y == Full(b, Absorbing(b, s)[k], k * Rate)
               at == k * Rate
    <3>1. z(k) = y /\ at \in Nat
      BY <1>0, RateIndex
    <3> HIDE DEF y, at, z
    <3> DEFINE q == Rate
    <3>a. q \in Nat /\ q <= Rate /\ at \in Nat
      BY <1>0, <3>1
    <3> HIDE DEF q
    <3>b. Emitted(y, c, at, q) <=> \A r \in 0..(q - 1) : c[at + r] = TextByte(y, r)
      BY ONLY <3>a, EmittedIs
    <3>2. Emitted(y, c, at, Rate) <=> \A r \in 0..(Rate - 1) : c[at + r] = TextByte(y, r)
      BY <3>b DEF q
    <3> QED BY <3>1, <3>2 DEF y, at
  <2> HIDE DEF z, m, s
  <2> QED BY <2>1 DEF Blocks
<1>4. Emitted(Last(b, n, s), c, m * Rate, n % Rate)
        <=> \A r \in 0..((n % Rate) - 1) : c[m * Rate + r] = TextByte(z(m), r)
  <2> DEFINE y == Last(b, n, s)
             at == m * Rate
             q == n % Rate
  <2>1. z(m) = y
    BY <1>0
  <2>0. at \in Nat /\ q \in Nat /\ q <= Rate
    BY <1>0
  <2> HIDE DEF y, at, z, q
  <2>2. Emitted(y, c, at, q) <=> \A r \in 0..(q - 1) : c[at + r] = TextByte(y, r)
    BY <2>0, EmittedIs
  <2> QED BY <2>1, <2>2 DEF y, at, q
<1> HIDE DEF z, s, At
<1>5. ASSUME \A i \in 0..(n - 1) : c[i] = At(i)
      PROVE  /\ \A k \in 0..(m - 1) : \A r \in 0..(Rate - 1) : c[k * Rate + r] = TextByte(z(k), r)
             /\ \A r \in 0..((n % Rate) - 1) : c[m * Rate + r] = TextByte(z(m), r)
  <2>1. ASSUME NEW k \in 0..(m - 1), NEW r \in 0..(Rate - 1)
        PROVE  c[k * Rate + r] = TextByte(z(k), r)
    <3>1. k \in Nat /\ k * Rate \in Nat /\ k * Rate + Rate <= m * Rate
      <4>1. k \in Nat /\ k < m
        BY <1>0
      <4> HIDE DEF m
      <4> QED BY <1>0, <4>1, RateIndex
    <3> DEFINE i == k * Rate + r
    <3>2. i \in 0..(n - 1)
      BY <1>0, <3>1
    <3>3. At(i) = TextByte(z(k), r)
      BY <1>2, <3>1
    <3> HIDE DEF i
    <3>4. c[i] = TextByte(z(k), r)
      BY <1>5, <3>2, <3>3
    <3> QED BY <3>4 DEF i
  <2>2. ASSUME NEW r \in 0..((n % Rate) - 1)
        PROVE  c[m * Rate + r] = TextByte(z(m), r)
    <3> DEFINE i == m * Rate + r
    <3>2. i \in 0..(n - 1) /\ r \in 0..(Rate - 1)
      BY <1>0
    <3>3. At(i) = TextByte(z(m), r)
      BY <1>0, <1>2, <3>2
    <3> HIDE DEF i
    <3>4. c[i] = TextByte(z(m), r)
      BY <1>5, <3>2, <3>3
    <3> QED BY <3>4 DEF i
  <2> QED BY <2>1, <2>2
<1>6. ASSUME \A k \in 0..(m - 1) : \A r \in 0..(Rate - 1) : c[k * Rate + r] = TextByte(z(k), r),
             \A r \in 0..((n % Rate) - 1) : c[m * Rate + r] = TextByte(z(m), r),
             NEW i \in 0..(n - 1)
      PROVE  c[i] = At(i)
  <2> DEFINE k == i \div Rate
             r == i % Rate
  <2>1. k \in Nat /\ r \in 0..(Rate - 1) /\ k * Rate + r = i /\ k * Rate \in Nat
    <3>1. i \in Nat
      OBVIOUS
    <3>2. k \in Nat /\ r \in 0..(Rate - 1) /\ k * Rate + r = i
      BY <3>1, RateIndex
    <3> HIDE DEF k
    <3> QED BY <3>2, RateIndex
  <2>2. At(i) = TextByte(z(k), r)
    BY DEF At
  <2> HIDE DEF k, r
  <2>3. k \in 0..(m - 1) \/ k = m
    <3>1. m < k => m * Rate + Rate <= k * Rate
      BY <1>0, <2>1, RateIndex
    <3> QED BY <1>0, <2>1, <3>1
  <2>4. k = m => r \in 0..((n % Rate) - 1)
    BY <1>0, <2>1
  <2> QED BY <1>6, <2>1, <2>2, <2>3, <2>4
<1> HIDE DEF m
<1> QED BY <1>1, <1>3, <1>4, <1>5, <1>6 DEF s, m, Seals

------------------------------------------------------------------------------
(* One ciphertext, one message.                                             *)

(* A word of two encryptions from the same state word: the same text if and *)
(* only if the same bytes come out.                                         *)
LEMMA SameWord ==
  ASSUME NEW w \in Word, NEW n \in 0..W, NEW p \in Nat,
         NEW b, AreBytes(b, p, n), NEW d, AreBytes(d, p, n), NEW c, NEW f,
         Shows(c, p, XOR(w, LOAD_N(b, p, n)), n), Shows(f, p, XOR(w, LOAD_N(d, p, n)), n)
  PROVE  /\ Holds(b, 0, d, p, n) <=> Holds(c, 0, f, p, n)
         /\ Holds(b, 0, d, p, n) => LOAD_N(b, p, n) = LOAD_N(d, p, n)
<1>0. W \in Nat /\ p \in Int
  BY RateValue
<1>1. \A k, l : Holds(k, 0, l, p, n)
                  <=> \A j \in 0..(W - 1) : j < n => k[p + j] = l[p + j]
  <2>1. \A j \in 0..(n - 1) : j \in 0..(W - 1) /\ j < n /\ 0 + p + j = p + j
    BY <1>0
  <2>2. \A j \in 0..(W - 1) : j < n => j \in 0..(n - 1)
    BY <1>0
  <2> QED BY <2>1, <2>2 DEF Holds
<1>2. Holds(b, 0, d, p, n) => LOAD_N(b, p, n) = LOAD_N(d, p, n)
  BY <1>1, LoadSame
<1>3. Holds(c, 0, f, p, n) => LOAD_N(c, p, n) = LOAD_N(f, p, n)
  BY <1>1, LoadSame
<1>4. Holds(b, 0, d, p, n) => Holds(c, 0, f, p, n)
  BY <1>0, <1>1, <1>2 DEF Shows
<1>5. ASSUME NEW k, AreBytes(k, p, n), NEW l, Shows(l, p, XOR(w, LOAD_N(k, p, n)), n)
      PROVE  \A j \in 0..(W - 1) :
               j < n => OutByte(outbound_word(XOR(w, LOAD_N(l, p, n))), j) = k[p + j]
  <2>1. /\ \A j \in 0..(W - 1) : j < n => k[p + j] \in Byte
        /\ \A j \in 0..(W - 1) :
             j < n => l[p + j] = OutByte(outbound_word(XOR(w, LOAD_N(k, p, n))), j)
    BY <1>0, <1>5 DEF Shows, AreBytes
  <2> QED BY ONLY w \in Word, n \in 0..W, p \in Int, <1>0, <2>1, OpenWord
<1>6. /\ \A j \in 0..(W - 1) :
           j < n => OutByte(outbound_word(XOR(w, LOAD_N(c, p, n))), j) = b[p + j]
      /\ \A j \in 0..(W - 1) :
           j < n => OutByte(outbound_word(XOR(w, LOAD_N(f, p, n))), j) = d[p + j]
  BY <1>5
<1>7. Holds(c, 0, f, p, n) => Holds(b, 0, d, p, n)
  BY <1>1, <1>3, <1>6
<1> QED BY <1>2, <1>4, <1>7

(* The words that a block and a rest end up with. *)
LEMMA BlockWords ==
  ASSUME NEW s \in State, NEW at, NEW b
  PROVE  /\ Full(b, s, at)[0] = XOR(s[0], LOAD_N(b, at, W))
         /\ RateWords = 2 => Full(b, s, at)[1] = XOR(s[1], LOAD_N(b, at + W, W))
<1> DEFINE a == AddWord(s, 0, LOAD_N(b, at, W))
           c == AddWord(a, 1, LOAD_N(b, at + W, W))
<1>1. a \in State /\ a[0] = XOR(s[0], LOAD_N(b, at, W)) /\ a[1] = s[1]
  BY AddWordType, AddWordValue, LoadType
<1> HIDE DEF a
<1>2. c[0] = a[0] /\ c[1] = XOR(a[1], LOAD_N(b, at + W, W))
  BY <1>1, AddWordValue
<1>3. Full(b, s, at) = IF RateWords = 2 THEN c ELSE a
  BY DEF Full, a
<1> QED BY <1>1, <1>2, <1>3

LEMMA RestWords ==
  ASSUME NEW s \in State, NEW at, NEW n \in Nat, n < Rate
  PROVE  IF RateWords = 2 /\ n >= W
           THEN \E u, v \in Word : \A b :
                  /\ Rest(b, s, at, n)[0] = XOR(u, LOAD_N(b, at, W))
                  /\ Rest(b, s, at, n)[1] = XOR(v, LOAD_N(b, at + W, n - W))
           ELSE \E u \in Word : \A b :
                  Rest(b, s, at, n)[0] = XOR(u, LOAD_N(b, at, n))
<1>0. s[0] \in Word /\ s[1] \in Word
  BY DEF State
<1>1. CASE RateWords = 2 /\ n >= W
  <2> DEFINE k == n - W
  <2>1. k \in 0..(W - 1)
    BY <1>1, RateValue
  <2>2. PAD(k) \in Word
    BY <2>1, PadType
  <2> HIDE DEF k
  <2>3. ASSUME NEW b
        PROVE  /\ Rest(b, s, at, n)[0] = XOR(s[0], LOAD_N(b, at, W))
               /\ Rest(b, s, at, n)[1] = XOR(XOR(s[1], PAD(k)), LOAD_N(b, at + W, k))
    <3> DEFINE a == AddWord(s, 0, LOAD_N(b, at, W))
               c == AddWord(a, 1, PAD(k))
               e == AddWord(c, 1, LOAD_N(b, at + W, k))
    <3>1. a \in State /\ a[0] = XOR(s[0], LOAD_N(b, at, W)) /\ a[1] = s[1]
      BY AddWordType, AddWordValue, LoadType
    <3> HIDE DEF a
    <3>2. c \in State /\ c[0] = a[0] /\ c[1] = XOR(a[1], PAD(k))
      BY <2>2, <3>1, AddWordType, AddWordValue
    <3> HIDE DEF c
    <3>3. e[0] = c[0] /\ e[1] = XOR(c[1], LOAD_N(b, at + W, k))
      BY <3>2, AddWordValue
    <3>4. Rest(b, s, at, n) = e
      BY <1>1 DEF Rest, a, c, k
    <3> QED BY <3>1, <3>2, <3>3, <3>4
  <2>4. XOR(s[1], PAD(k)) \in Word
    BY <1>0, <2>2, XorType
  <2> QED BY <1>0, <1>1, <2>3, <2>4 DEF k
<1>2. CASE ~(RateWords = 2 /\ n >= W)
  <2>1. n \in 0..(W - 1)
    BY <1>2, RateValue, RateAssumption
  <2>2. PAD(n) \in Word
    BY <2>1, PadType
  <2>3. ASSUME NEW b
        PROVE  Rest(b, s, at, n)[0] = XOR(XOR(s[0], PAD(n)), LOAD_N(b, at, n))
    <3> DEFINE a == AddWord(s, 0, PAD(n))
    <3>1. a \in State /\ a[0] = XOR(s[0], PAD(n))
      BY <2>2, AddWordType, AddWordValue
    <3> HIDE DEF a
    <3>2. AddWord(a, 0, LOAD_N(b, at, n))[0] = XOR(a[0], LOAD_N(b, at, n))
      BY <3>1, AddWordValue
    <3> QED BY <1>2, <3>1, <3>2 DEF Rest, a
  <2>4. XOR(s[0], PAD(n)) \in Word
    BY <1>0, <2>2, XorType
  <2> QED BY <1>2, <2>3, <2>4
<1> QED BY <1>1, <1>2

(* The same of a block, full or the last. *)
LEMMA SameBlock ==
  ASSUME NEW s \in State, NEW at \in Nat, NEW b, AreBytes(b, at, Rate),
         NEW d, AreBytes(d, at, Rate), NEW c, NEW f,
         Emitted(Full(b, s, at), c, at, Rate), Emitted(Full(d, s, at), f, at, Rate)
  PROVE  /\ Holds(b, 0, d, at, Rate) <=> Holds(c, 0, f, at, Rate)
         /\ Holds(b, 0, d, at, Rate) => Full(b, s, at) = Full(d, s, at)
<1>0. s[0] \in Word /\ s[1] \in Word /\ W \in 0..W /\ W \in Nat /\ 0 \in Nat /\ at + W \in Nat
  BY RateValue DEF State
<1>1. /\ Full(b, s, at)[0] = XOR(s[0], LOAD_N(b, at, W))
      /\ Full(d, s, at)[0] = XOR(s[0], LOAD_N(d, at, W))
  BY BlockWords
<1>2. CASE RateWords = 1
  <2>1. Rate = W /\ Shows(c, at, Full(b, s, at)[0], W) /\ Shows(f, at, Full(d, s, at)[0], W)
    BY <1>2, RateValue DEF Emitted
  <2>2. /\ Holds(b, 0, d, at, W) <=> Holds(c, 0, f, at, W)
        /\ Holds(b, 0, d, at, W) => LOAD_N(b, at, W) = LOAD_N(d, at, W)
    BY <1>0, <1>1, <2>1, SameWord
  <2> QED BY <1>2, <2>1, <2>2 DEF Full
<1>3. CASE RateWords = 2
  <2>1. Rate = W + W /\ Rate >= W /\ Rate - W = W
    BY <1>3, RateValue
  <2>2. /\ Shows(c, at, Full(b, s, at)[0], W) /\ Shows(c, at + W, Full(b, s, at)[1], W)
        /\ Shows(f, at, Full(d, s, at)[0], W) /\ Shows(f, at + W, Full(d, s, at)[1], W)
    BY <1>3, <2>1 DEF Emitted
  <2>3. /\ AreBytes(b, at, W) /\ AreBytes(b, at + W, W)
        /\ AreBytes(d, at, W) /\ AreBytes(d, at + W, W)
    BY <1>0, <2>1, Parts
  <2>4. \A k, l : Holds(k, 0, l, at, Rate) <=> Holds(k, 0, l, at, W) /\ Holds(k, 0, l, at + W, W)
    BY <1>0, <2>1, Parts
  <2>5. /\ Full(b, s, at)[1] = XOR(s[1], LOAD_N(b, at + W, W))
        /\ Full(d, s, at)[1] = XOR(s[1], LOAD_N(d, at + W, W))
    BY <1>3, BlockWords
  <2>6. /\ Holds(b, 0, d, at, W) <=> Holds(c, 0, f, at, W)
        /\ Holds(b, 0, d, at, W) => LOAD_N(b, at, W) = LOAD_N(d, at, W)
    BY <1>0, <1>1, <2>2, <2>3, SameWord
  <2>7. /\ Holds(b, 0, d, at + W, W) <=> Holds(c, 0, f, at + W, W)
        /\ Holds(b, 0, d, at + W, W) => LOAD_N(b, at + W, W) = LOAD_N(d, at + W, W)
    BY <1>0, <2>2, <2>3, <2>5, SameWord
  <2> QED BY <1>3, <2>4, <2>6, <2>7 DEF Full
<1> QED BY <1>2, <1>3, RateAssumption

LEMMA SameRest ==
  ASSUME NEW s \in State, NEW at \in Nat, NEW n \in Nat, n < Rate,
         NEW b, AreBytes(b, at, n), NEW d, AreBytes(d, at, n), NEW c, NEW f,
         Emitted(Rest(b, s, at, n), c, at, n), Emitted(Rest(d, s, at, n), f, at, n)
  PROVE  /\ Holds(b, 0, d, at, n) <=> Holds(c, 0, f, at, n)
         /\ Holds(b, 0, d, at, n) => Rest(b, s, at, n) = Rest(d, s, at, n)
<1>0. W \in 0..W /\ W \in Nat /\ 0 \in Nat /\ at + W \in Nat
  BY RateValue
<1>1. CASE ~(RateWords = 2 /\ n >= W)
  <2>1. n \in 0..W
    BY <1>1, RateValue, RateAssumption
  <2>2. PICK u \in Word : \A e : Rest(e, s, at, n)[0] = XOR(u, LOAD_N(e, at, n))
    BY <1>1, RestWords
  <2>3. Shows(c, at, Rest(b, s, at, n)[0], n) /\ Shows(f, at, Rest(d, s, at, n)[0], n)
    BY <1>1 DEF Emitted
  <2>4. /\ Holds(b, 0, d, at, n) <=> Holds(c, 0, f, at, n)
        /\ Holds(b, 0, d, at, n) => LOAD_N(b, at, n) = LOAD_N(d, at, n)
    BY <2>1, <2>2, <2>3, SameWord
  <2> QED BY <1>1, <2>4 DEF Rest
<1>2. CASE RateWords = 2 /\ n >= W
  <2> DEFINE k == n - W
  <2>1. k \in 0..W /\ W + k = n
    BY <1>2, RateValue
  <2>2. PICK u, v \in Word : \A e : /\ Rest(e, s, at, n)[0] = XOR(u, LOAD_N(e, at, W))
                                    /\ Rest(e, s, at, n)[1] = XOR(v, LOAD_N(e, at + W, k))
    BY <1>2, RestWords
  <2>3. /\ Shows(c, at, Rest(b, s, at, n)[0], W) /\ Shows(c, at + W, Rest(b, s, at, n)[1], k)
        /\ Shows(f, at, Rest(d, s, at, n)[0], W) /\ Shows(f, at + W, Rest(d, s, at, n)[1], k)
    BY <1>2 DEF Emitted
  <2>a. Rest(b, s, at, n) = Rest(d, s, at, n)
          \/ LOAD_N(b, at, W) # LOAD_N(d, at, W) \/ LOAD_N(b, at + W, k) # LOAD_N(d, at + W, k)
    BY <1>2 DEF Rest
  <2> HIDE DEF k
  <2>4. /\ AreBytes(b, at, W) /\ AreBytes(b, at + W, k)
        /\ AreBytes(d, at, W) /\ AreBytes(d, at + W, k)
    BY <1>0, <2>1, Parts
  <2>5. \A g, l : Holds(g, 0, l, at, n) <=> Holds(g, 0, l, at, W) /\ Holds(g, 0, l, at + W, k)
    BY <1>0, <2>1, Parts
  <2>6. /\ Holds(b, 0, d, at, W) <=> Holds(c, 0, f, at, W)
        /\ Holds(b, 0, d, at, W) => LOAD_N(b, at, W) = LOAD_N(d, at, W)
    BY <1>0, <2>2, <2>3, <2>4, SameWord
  <2>7. /\ Holds(b, 0, d, at + W, k) <=> Holds(c, 0, f, at + W, k)
        /\ Holds(b, 0, d, at + W, k) => LOAD_N(b, at + W, k) = LOAD_N(d, at + W, k)
    BY <1>0, <2>1, <2>2, <2>3, <2>4, SameWord
  <2> QED BY <2>a, <2>5, <2>6, <2>7
<1> QED BY <1>1, <1>2

LEMMA HoldsParts ==
  ASSUME NEW b, NEW d, NEW p \in Nat, NEW n \in Nat
  PROVE  Holds(b, 0, d, 0, p + n) <=> Holds(b, 0, d, 0, p) /\ Holds(b, 0, d, p, n)
<1>1. ASSUME Holds(b, 0, d, 0, p + n)
      PROVE  Holds(b, 0, d, 0, p) /\ Holds(b, 0, d, p, n)
  <2>1. \A i \in 0..((p + n) - 1) : b[0 + 0 + i] = d[0 + i]
    BY <1>1 DEF Holds
  <2>2. ASSUME NEW j \in 0..(n - 1) PROVE b[0 + p + j] = d[p + j]
    <3> DEFINE k == p + j
    <3>1. k \in 0..((p + n) - 1) /\ 0 + p + j = 0 + 0 + k /\ p + j = 0 + k
      OBVIOUS
    <3> HIDE DEF k
    <3> QED BY <2>1, <3>1
  <2> QED BY <2>1, <2>2 DEF Holds
<1>2. ASSUME Holds(b, 0, d, 0, p), Holds(b, 0, d, p, n)
      PROVE  Holds(b, 0, d, 0, p + n)
  <2> SUFFICES ASSUME NEW i \in 0..((p + n) - 1) PROVE b[0 + 0 + i] = d[0 + i]
    BY DEF Holds
  <2>1. CASE i < p
    BY <1>2, <2>1 DEF Holds
  <2>2. CASE ~(i < p)
    <3> DEFINE j == i - p
    <3>1. j \in 0..(n - 1) /\ 0 + p + j = 0 + 0 + i /\ p + j = 0 + i
      BY <2>2
    <3> HIDE DEF j
    <3> QED BY <1>2, <3>1 DEF Holds
  <2> QED BY <2>1, <2>2
<1> QED BY <1>1, <1>2

LEMMA HoldsAll ==
  ASSUME NEW n \in Nat, NEW b \in Array(n), NEW d \in Array(n)
  PROVE  Holds(b, 0, d, 0, n) <=> b = d
<1>1. Holds(b, 0, d, 0, n) <=> \A i \in 0..(n - 1) : b[i] = d[i]
  BY DEF Holds
<1>2. b = [i \in 0..(n - 1) |-> b[i]] /\ d = [i \in 0..(n - 1) |-> d[i]]
  BY DEF Array
<1> QED BY <1>1, <1>2

LEMMA BytesWithin ==
  ASSUME NEW l \in Nat, NEW m \in Array(l), NEW p \in Nat, NEW n \in Nat, p + n <= l
  PROVE  AreBytes(m, p, n)
<1>1. \A i \in 0..(l - 1) : m[i] \in Byte
  BY DEF Array
<1>2. \A j \in 0..(n - 1) : p + j \in 0..(l - 1)
  OBVIOUS
<1> QED BY <1>1, <1>2 DEF AreBytes

LEMMA AbsorbingIs ==
  ASSUME NEW b, NEW s \in State
  PROVE  /\ Absorbing(b, s)[0] = s
         /\ \A k \in Nat : /\ Absorbing(b, s)[k] \in State
                           /\ Absorbing(b, s)[k + 1]
                                = P_B(Full(b, Absorbing(b, s)[k], k * Rate))
<1> DEFINE g == [k \in Nat |-> [z \in State |-> P_B(Full(b, z, k * Rate))]]
           r == Absorbing(b, s)
<1>1. \A k \in Nat : \A z \in State : g[k][z] = P_B(Full(b, z, k * Rate)) /\ g[k][z] \in State
  BY BlockType, PBType
<1>2. r = Walk(g, s)
  BY DEF Absorbing
<1> HIDE DEF g, r
<1>3. r[0] = s /\ \A k \in Nat : r[k + 1] = g[k][r[k]]
  BY <1>2, WalkIs
<1>4. \A k \in Nat : r[k] \in State
  BY <1>1, <1>2, WalkType
<1>5. r[0] = s /\ \A k \in Nat : r[k] \in State /\ r[k + 1] = P_B(Full(b, r[k], k * Rate))
  BY <1>1, <1>3, <1>4
<1> QED BY <1>5 DEF r

(* Two messages with one ciphertext: after each block the same state, so    *)
(* that the next has the same text.                                         *)
LEMMA SameText ==
  ASSUME NEW n \in Nat, NEW b \in Array(n), NEW d \in Array(n), NEW s \in State,
         NEW c, Seals(b, s, c, n), Seals(d, s, c, n)
  PROVE  b = d
<1> DEFINE m == n \div Rate
           q == n % Rate
           B == Absorbing(b, s)
           D == Absorbing(d, s)
<1>0. m \in Nat /\ q \in Nat /\ q < Rate /\ m * Rate \in Nat /\ m * Rate + q = n /\ Rate \in Nat
  BY RateIndex, RateValue
<1>1. /\ B[0] = s /\ D[0] = s
      /\ \A k \in Nat : B[k] \in State /\ B[k + 1] = P_B(Full(b, B[k], k * Rate))
      /\ \A k \in Nat : D[k] \in State /\ D[k + 1] = P_B(Full(d, D[k], k * Rate))
  BY AbsorbingIs
<1>2. /\ \A k \in 0..(m - 1) : /\ Emitted(Full(b, B[k], k * Rate), c, k * Rate, Rate)
                               /\ Emitted(Full(d, D[k], k * Rate), c, k * Rate, Rate)
      /\ Emitted(Rest(b, B[m], m * Rate, q), c, m * Rate, q)
      /\ Emitted(Rest(d, D[m], m * Rate, q), c, m * Rate, q)
  BY DEF Seals, Blocks, Last
<1> HIDE DEF m, q, B, D
<1> DEFINE S == {k \in Nat : k <= m => B[k] = D[k] /\ Holds(b, 0, d, 0, k * Rate)}
<1>3. 0 \in S
  <2>1. 0 * Rate = 0
    BY <1>0
  <2> QED BY <1>1, <2>1 DEF Holds
<1>4. ASSUME NEW k \in Nat, k \in S PROVE k + 1 \in S
  <2> SUFFICES ASSUME k + 1 <= m
               PROVE  B[k + 1] = D[k + 1] /\ Holds(b, 0, d, 0, (k + 1) * Rate)
    OBVIOUS
  <2> DEFINE at == k * Rate
             z == B[k]
  <2>1. at \in Nat /\ (k + 1) * Rate = at + Rate /\ at + Rate <= n /\ k \in 0..(m - 1)
    <3>1. k * Rate \in Nat /\ (k + 1) * Rate = k * Rate + Rate
      BY RateIndex
    <3>2. k * Rate + Rate <= m * Rate
      BY <1>0, RateIndex
    <3> QED BY <1>0, <3>1, <3>2
  <2>2. D[k] = z /\ z \in State /\ Holds(b, 0, d, 0, at)
    BY <1>1, <1>4, <1>0
  <2>3. Emitted(Full(b, z, at), c, at, Rate) /\ Emitted(Full(d, z, at), c, at, Rate)
    BY <1>2, <2>1, <2>2
  <2>4. B[k + 1] = P_B(Full(b, z, at)) /\ D[k + 1] = P_B(Full(d, z, at))
    BY <1>1, <2>2
  <2> HIDE DEF at, z, S
  <2>5. AreBytes(b, at, Rate) /\ AreBytes(d, at, Rate)
    BY <1>0, <2>1, BytesWithin
  <2>6. Holds(c, 0, c, at, Rate)
    BY <2>1 DEF Holds
  <2>7. Holds(b, 0, d, at, Rate) /\ Full(b, z, at) = Full(d, z, at)
    BY <2>1, <2>2, <2>3, <2>5, <2>6, SameBlock
  <2>8. Holds(b, 0, d, 0, at + Rate)
    BY <1>0, <2>1, <2>2, <2>7, HoldsParts
  <2> QED BY <2>1, <2>4, <2>7, <2>8
<1> HIDE DEF S
<1>5. \A k \in Nat : k \in S
  BY <1>3, <1>4, Induction
<1>6. B[m] = D[m] /\ Holds(b, 0, d, 0, m * Rate)
  BY <1>0, <1>5 DEF S
<1> DEFINE at == m * Rate
           z == B[m]
<1>7. /\ at \in Nat /\ at + q = n /\ z \in State /\ Holds(b, 0, d, 0, at)
      /\ Emitted(Rest(b, z, at, q), c, at, q) /\ Emitted(Rest(d, z, at, q), c, at, q)
  BY <1>0, <1>1, <1>2, <1>6
<1> HIDE DEF at, z
<1>8. AreBytes(b, at, q) /\ AreBytes(d, at, q)
  BY <1>0, <1>7, BytesWithin
<1>9. Holds(c, 0, c, at, q)
  BY <1>7 DEF Holds
<1>10. Holds(b, 0, d, at, q)
  BY <1>0, <1>7, <1>8, <1>9, SameRest
<1>11. Holds(b, 0, d, 0, at + q)
  BY ONLY <1>0, <1>7, <1>10, HoldsParts
<1> QED BY <1>7, <1>11, HoldsAll

LEMMA LastType ==
  ASSUME NEW b, NEW s \in State, NEW n \in Nat PROVE Last(b, n, s) \in State
<1>1. n \div Rate \in Nat /\ n % Rate \in Nat /\ n % Rate < Rate
  BY RateIndex, RateValue
<1>2. Absorbing(b, s)[n \div Rate] \in State
  BY <1>1, AbsorbingIs
<1> QED BY <1>1, <1>2, BlockType DEF Last

LEMMA BoundType ==
  ASSUME NEW c, IsBytes(c.ad) PROVE Begun(c) \in State /\ Bound(c) \in State
<1>1. PICK n \in Nat : c.ad \in Array(n)
  BY DEF IsBytes
<1>2. Length(c.ad) = n
  BY <1>1, LengthOf
<1>3. P_A(InitialState(c)) \in State /\ KeyWord(c, 0) \in Word /\ KeyWord(c, 1) \in Word
  BY InitialStateType, PBType, LoadType DEF KeyWord
<1>4. Begun(c) \in State
  BY <1>3, AddWordType DEF Begun
<1>5. P_B(Last(c.ad, n, Begun(c))) \in State
  BY <1>4, LastType, PBType
<1> QED BY <1>2, <1>4, <1>5, SeparateDomainType DEF Bound

------------------------------------------------------------------------------
(* The steps of a text.                                                     *)

(* The text passed in. *)
Input == Slice(entryMem, call.src, call.len)

LEMMA TagAddresses ==
  ASSUME TypeOK
  PROVE  /\ \A i \in 0..(TagLen - 1) : call.tag + i \in Addr
         /\ call.tag \in Nat /\ call.dst \in Nat /\ call.len \in Nat
         /\ \A i \in 0..(call.len - 1) :
              call.dst + i \in Addr /\ call.dst + i \notin Region(call.tag, TagLen)
         /\ \A i \in 0..(TagLen - 1) : call.tag + i \notin Region(call.dst, pos)
<1>1. /\ call.tag \in Nat /\ call.dst \in Nat /\ call.len \in Nat /\ TagLen \in Nat
      /\ call.tag + TagLen <= MemSize /\ call.dst + call.len <= MemSize
      /\ call.tag + TagLen <= call.dst \/ call.dst + call.len <= call.tag
      /\ pos \in 0..call.len
  BY RateValue DEF TypeOK, IsCall, TagLen
<1>2. \A p, n \in Nat : p + n <= MemSize => \A i \in 0..(n - 1) : p + i \in Addr
  BY MemAssumption DEF Addr
<1>3. \A i \in 0..(call.len - 1) : call.dst + i \notin Region(call.tag, TagLen)
  BY <1>1 DEF Region
<1>4. \A i \in 0..(TagLen - 1) : call.tag + i \notin Region(call.dst, pos)
  BY <1>1 DEF Region
<1> QED BY <1>1, <1>2, <1>3, <1>4

LEMMA TextArrays ==
  ASSUME TypeOK
  PROVE  /\ call.len \in Nat /\ call.adlen \in Nat /\ call.ad \in Array(call.adlen)
         /\ Input \in Array(call.len)
         /\ \A m \in [Addr -> Byte] : Slice(m, call.dst, call.len) \in Array(call.len)
<1>1. /\ call.len \in Nat /\ call.adlen \in Nat /\ call.ad \in Array(call.adlen)
      /\ call.src \in Nat /\ call.dst \in Nat
      /\ \A i \in 0..(call.len - 1) : call.src + i \in Addr /\ call.dst + i \in Addr
  <2>1. \A i \in 0..(call.len - 1) : call.src + i \in Addr
    <3>1. call.src \in Nat /\ call.len \in Nat /\ call.src + call.len <= MemSize
      BY DEF TypeOK, IsCall
    <3>2. MemSize \in Nat
      BY MemAssumption
    <3> QED BY ONLY <3>1, <3>2 DEF Addr
  <2> QED BY <2>1, TagAddresses DEF TypeOK, IsCall
<1> QED BY <1>1, SliceType DEF TypeOK, Input

LEMMA InputHeld ==
  ASSUME TypeOK, UnreadInputIntact, pc # "returned", NEW n \in Nat, pos + n <= call.len
  PROVE  Holds(mem, call.src, Input, pos, n)
<1> SUFFICES ASSUME NEW j \in 0..(n - 1)
             PROVE  mem[call.src + pos + j] = Input[pos + j]
  BY DEF Holds
<1>1. /\ pos \in Nat /\ call.src \in Nat /\ call.len \in Nat
      /\ pos + j \in pos..(call.len - 1) /\ pos + j \in 0..(call.len - 1)
  BY DEF TypeOK, IsCall
<1> DEFINE k == pos + j
<1>2. k \in pos..(call.len - 1) /\ k \in 0..(call.len - 1)
      /\ call.src + k = call.src + pos + j
  BY <1>1
<1> HIDE DEF k
<1>3. mem[call.src + k] = entryMem[call.src + k]
  BY <1>2 DEF UnreadInputIntact
<1>4. Input[k] = entryMem[call.src + k]
  BY <1>2 DEF Input, Slice
<1> QED BY <1>2, <1>3, <1>4 DEF k

(* What a text step leaves of the output before it. *)
LEMMA OutputKept ==
  ASSUME TypeOK, NEW n, TextStep(n)
  PROVE  \A i \in 0..(pos - 1) : mem'[call.dst + i] = mem[call.dst + i]
<1> SUFFICES ASSUME NEW i \in 0..(pos - 1)
             PROVE  mem'[call.dst + i] = mem[call.dst + i]
  OBVIOUS
<1>1. /\ i \in 0..(call.len - 1) /\ call.dst + i \in Addr
      /\ call.dst + i < call.dst + pos
  BY MemAssumption DEF TypeOK, IsCall, Addr
<1>2. call.dst + i \notin Region(call.dst + pos, n)
  <2>1. call.dst + i \in Int /\ call.dst + pos \in Int
    BY DEF TypeOK, IsCall
  <2>2. \A k \in (call.dst + pos)..(call.dst + pos + n - 1) : k >= call.dst + pos
    OBVIOUS
  <2> QED BY <1>1, <2>1, <2>2 DEF Region
<1> QED BY <1>1, <1>2 DEF TextStep

(* Of message and ciphertext of a call one is passed in, and the other is   *)
(* what has been written so far.                                            *)
Texts(b, c) ==
  IF call.op = "encrypt" THEN b = Input /\ Holds(mem, call.dst, c, 0, pos)
                         ELSE c = Input /\ Holds(mem, call.dst, b, 0, pos)

LEMMA TextsStep ==
  ASSUME TypeOK, UnreadInputIntact, pc = "text", NEW n \in Nat, pos + n <= call.len,
         TextStep(n), pos' = pos + n, UNCHANGED <<call, entryMem>>, NEW b, NEW c, Texts(b, c)'
  PROVE  Texts(b, c) /\ Reads(mem, b, c, pos, n) /\ Makes(mem', b, c, pos, n)
<1> DEFINE in == IF call.op = "encrypt" THEN b ELSE c
           out == IF call.op = "encrypt" THEN c ELSE b
<1>0. pos \in Nat /\ call.dst \in Nat /\ Input \in Array(call.len) /\ call.len \in Nat
  BY TextArrays DEF TypeOK, IsCall
<1>1. in = Input /\ Holds(mem', call.dst, out, 0, pos + n)
  BY DEF Texts, Input
<1> HIDE DEF in, out
<1>2. AreBytes(in, pos, n)
  BY <1>0, <1>1, BytesWithin
<1>3. Holds(mem, call.src, in, pos, n)
  BY <1>1, InputHeld
<1>4. Holds(mem', call.dst, out, pos, n)
  <2> SUFFICES ASSUME NEW j \in 0..(n - 1)
               PROVE  mem'[call.dst + pos + j] = out[pos + j]
    BY DEF Holds
  <2> DEFINE k == pos + j
  <2>1. k \in 0..((pos + n) - 1) /\ call.dst + 0 + k = call.dst + pos + j /\ 0 + k = k
    BY <1>0
  <2> HIDE DEF k
  <2>2. mem'[call.dst + 0 + k] = out[0 + k]
    BY <1>1, <2>1 DEF Holds
  <2>3. mem'[call.dst + pos + j] = out[k]
    BY <2>1, <2>2
  <2> QED BY <2>3 DEF k
<1>5. Holds(mem, call.dst, out, 0, pos)
  <2> SUFFICES ASSUME NEW i \in 0..(pos - 1) PROVE mem[call.dst + 0 + i] = out[0 + i]
    BY DEF Holds
  <2>1. i \in 0..((pos + n) - 1) /\ call.dst + 0 + i = call.dst + i
    BY <1>0
  <2>2. mem'[call.dst + 0 + i] = out[0 + i]
    BY <1>1, <2>1 DEF Holds
  <2> QED BY <2>1, <2>2, OutputKept
<1> QED BY <1>1, <1>2, <1>3, <1>4, <1>5 DEF Texts, Reads, Makes, in, out

LEMMA BlockIs ==
  ASSUME TypeOK, UnreadInputIntact, EncryptBlock \/ DecryptBlock, NEW b, NEW c, Texts(b, c)'
  PROVE  Texts(b, c) /\ x' = P_B(Full(b, x, pos)) /\ Emitted(Full(b, x, pos), c, pos, Rate)
<1> DEFINE r == IF call.op = "encrypt" THEN EncryptRate(Here, pos) ELSE DecryptRate(Here, pos)
<1>1. /\ pc = "text" /\ pos' = pos + Rate /\ UNCHANGED <<call, entryMem>>
      /\ x' = P_B(r.x) /\ mem' = r.mem
  BY DEF EncryptBlock, DecryptBlock
<1>2. TextStep(Rate) /\ pos + Rate <= call.len /\ Rate \in Nat /\ pos \in Nat
  BY BlockStep, RateValue DEF TypeOK
<1>3. IsCall(call) /\ TextOK(Here) /\ Here.mem = mem /\ Here.x = x
  BY DEF TypeOK, TextOK, Here
<1>4. Texts(b, c) /\ Reads(mem, b, c, pos, Rate) /\ Makes(mem', b, c, pos, Rate)
  <2> DEFINE n == Rate
  <2>1. TextStep(n) /\ pos + n <= call.len /\ n \in Nat /\ pos' = pos + n
    BY <1>1, <1>2
  <2> HIDE DEF n
  <2>2. Texts(b, c) /\ Reads(mem, b, c, pos, n) /\ Makes(mem', b, c, pos, n)
    BY ONLY TypeOK, UnreadInputIntact, Texts(b, c)', <1>1, <2>1, TextsStep
  <2> QED BY <2>2 DEF n
<1>5. r.x = Full(b, Here.x, pos) /\ Emitted(r.x, c, pos, Rate)
  <2>1. /\ r = IF call.op = "encrypt" THEN EncryptRate(Here, pos) ELSE DecryptRate(Here, pos)
        /\ Reads(Here.mem, b, c, pos, Rate) /\ Makes(r.mem, b, c, pos, Rate)
    BY <1>1, <1>3, <1>4
  <2> HIDE DEF r
  <2> QED BY ONLY <1>2, <1>3, <2>1, RateIs
<1> HIDE DEF r
<1> QED BY <1>1, <1>3, <1>4, <1>5

LEMMA LastIs ==
  ASSUME TypeOK, UnreadInputIntact, EncryptLast \/ DecryptLast, NEW b, NEW c, Texts(b, c)'
  PROVE  /\ Texts(b, c) /\ x' = Rest(b, x, pos, call.len - pos)
         /\ Emitted(x', c, pos, call.len - pos)
<1> DEFINE n == call.len - pos
           r == IF call.op = "encrypt" THEN EncryptRest(Here, pos, n) ELSE DecryptRest(Here, pos, n)
<1>1. /\ pc = "text" /\ pos' = call.len /\ UNCHANGED <<call, entryMem>>
      /\ x' = r.x /\ mem' = r.mem /\ n < Rate
  BY DEF EncryptLast, DecryptLast
<1>2. /\ TextStep(n) /\ n \in Nat /\ pos \in Nat /\ pos + n <= call.len
      /\ pos' = pos + n
  <2>1. call.len \in Nat /\ pos \in 0..call.len
    BY DEF TypeOK, IsCall
  <2> QED BY <1>1, <2>1, LastStep
<1>3. IsCall(call) /\ TextOK(Here) /\ Here.mem = mem /\ Here.x = x
  BY DEF TypeOK, TextOK, Here
<1> HIDE DEF n
<1>4. Texts(b, c) /\ Reads(mem, b, c, pos, n) /\ Makes(mem', b, c, pos, n)
  BY ONLY TypeOK, UnreadInputIntact, Texts(b, c)', <1>1, <1>2, TextsStep
<1>5. r.x = Rest(b, Here.x, pos, n) /\ Emitted(r.x, c, pos, n)
  <2>1. /\ r = IF call.op = "encrypt" THEN EncryptRest(Here, pos, n)
                                      ELSE DecryptRest(Here, pos, n)
        /\ Reads(Here.mem, b, c, pos, n) /\ Makes(r.mem, b, c, pos, n)
    BY <1>1, <1>3, <1>4
  <2> HIDE DEF r
  <2> QED BY ONLY <1>1, <1>2, <1>3, <2>1, RestIs
<1> HIDE DEF r
<1> QED BY <1>1, <1>3, <1>4, <1>5 DEF n

------------------------------------------------------------------------------
(* Where a call is.                                                         *)

Places ==
  /\ pc = "init" => absorbed = 0
  /\ pc \in {"init", "ad"} => pos = 0
  /\ pc = "tag" => pos = call.len

(* In the right turn of the right walk, with the blocks so far put out.     *)
Computes ==
  /\ Places
  /\ pc = "ad" => \E k \in Nat : absorbed = k * Rate /\ x = Absorbing(call.ad, Begun(call))[k]
  /\ pc = "text" => \E k \in Nat :
       /\ pos = k * Rate
       /\ \A b, c : Texts(b, c) => /\ x = Absorbing(b, Bound(call))[k]
                                   /\ Blocks(b, Bound(call), c, k)
  /\ pc = "tag" =>
       \A b, c : Texts(b, c) => /\ x = Last(b, call.len, Bound(call))
                                /\ Seals(b, Bound(call), c, call.len)

LEMMA PlacesStep == TypeOK /\ Places /\ [Next]_vars => Places'
<1> SUFFICES ASSUME TypeOK, Places, [Next]_vars PROVE Places'
  OBVIOUS
<1> QED BY DEF Places, Next, CallStep, vars, Initialise, AbsorbBlock, AbsorbLast,
               AbsorbNothing, EncryptBlock, EncryptLast, EncryptTag, DecryptBlock,
               DecryptLast, DecryptTag, CallerStep, EnterCall

LEMMA CallTypes ==
  ASSUME TypeOK
  PROVE  /\ Begun(call) \in State /\ Bound(call) \in State /\ Length(call.ad) = call.adlen
         /\ call.adlen \in Nat /\ absorbed \in 0..call.adlen
<1>1. call.adlen \in Nat /\ call.ad \in Array(call.adlen) /\ absorbed \in 0..call.adlen
  BY DEF TypeOK, IsCall
<1>2. IsBytes(call.ad)
  BY <1>1 DEF IsBytes
<1> QED BY <1>1, <1>2, BoundType, LengthOf

(* The associated data. *)
LEMMA AdStep ==
  ASSUME TypeOK, Computes
  PROVE  /\ Initialise => absorbed' = 0 * Rate /\ x' = Absorbing(call.ad, Begun(call))[0]
         /\ AbsorbBlock => \E k \in Nat : /\ absorbed' = k * Rate
                                          /\ x' = Absorbing(call.ad, Begun(call))[k]
         /\ AbsorbLast \/ AbsorbNothing => x' = Bound(call)
<1> DEFINE r == Absorbing(call.ad, Begun(call))
<1>0. /\ Begun(call) \in State /\ Length(call.ad) = call.adlen
      /\ call.adlen \in Nat /\ absorbed \in 0..call.adlen
  BY CallTypes
<1>1. /\ r[0] = Begun(call)
      /\ \A k \in Nat : r[k + 1] = P_B(Full(call.ad, r[k], k * Rate))
  BY <1>0, AbsorbingIs
<1>2. ASSUME pc = "ad"
      PROVE  \E k \in Nat : absorbed = k * Rate /\ x = r[k]
  BY <1>2 DEF Computes
<1>3. \A s, at, n : /\ AbsorbRate(s, at) = Full(call.ad, s, at)
                    /\ AbsorbRest(s, at, n) = Rest(call.ad, s, at, n)
  BY AbsorbIs
<1>4. Bound(call) = SeparateDomain(IF call.adlen = 0 THEN Begun(call)
                      ELSE P_B(Rest(call.ad, r[call.adlen \div Rate],
                                    (call.adlen \div Rate) * Rate, call.adlen % Rate)))
  BY <1>0 DEF Bound, Last
<1> HIDE DEF r
<1>5. Initialise => absorbed' = 0 * Rate /\ x' = r[0]
  <2>1. Rate \in Nat
    BY RateValue
  <2> QED BY <1>1, <2>1 DEF Initialise, Begun, Computes, Places
<1>6. ASSUME AbsorbBlock PROVE \E k \in Nat : absorbed' = k * Rate /\ x' = r[k]
  <2>1. pc = "ad" /\ x' = P_B(Full(call.ad, x, absorbed)) /\ absorbed' = absorbed + Rate
    BY <1>3, <1>6 DEF AbsorbBlock
  <2>2. PICK k \in Nat : absorbed = k * Rate /\ x = r[k]
    BY <1>2, <2>1
  <2>3. (k + 1) * Rate = k * Rate + Rate /\ k + 1 \in Nat
    BY RateIndex
  <2>4. absorbed' = (k + 1) * Rate /\ x' = r[k + 1]
    BY <1>1, <2>1, <2>2, <2>3
  <2> QED BY <2>3, <2>4
<1>7. ASSUME AbsorbLast PROVE x' = Bound(call)
  <2>1. /\ pc = "ad" /\ call.adlen # 0 /\ call.adlen - absorbed < Rate
        /\ x' = SeparateDomain(P_B(Rest(call.ad, x, absorbed, call.adlen - absorbed)))
    BY <1>3, <1>7 DEF AbsorbLast
  <2>2. PICK k \in Nat : absorbed = k * Rate /\ x = r[k]
    BY <1>2, <2>1
  <2>3. k = call.adlen \div Rate /\ call.adlen - absorbed = call.adlen % Rate
    <3>1. k * Rate <= call.adlen /\ call.adlen - k * Rate < Rate
      BY <1>0, <2>1, <2>2
    <3> QED BY <1>0, <2>2, <3>1, LastIndex
  <2> QED BY <1>4, <2>1, <2>2, <2>3
<1>8. ASSUME AbsorbNothing PROVE x' = Bound(call)
  <2>1. pc = "ad" /\ call.adlen = 0 /\ x' = SeparateDomain(x)
    BY <1>8 DEF AbsorbNothing
  <2>2. PICK k \in Nat : absorbed = k * Rate /\ x = r[k]
    BY <1>2, <2>1
  <2>3. k = 0
    <3>1. k # 0 => 0 * Rate + Rate <= k * Rate
      BY RateIndex
    <3> QED BY <1>0, <2>1, <2>2, <3>1, RateValue
  <2> QED BY <1>1, <1>4, <2>1, <2>2, <2>3
<1> QED BY <1>5, <1>6, <1>7, <1>8 DEF r

LEMMA BlocksStep ==
  ASSUME TypeOK, UnreadInputIntact, Computes, EncryptBlock \/ DecryptBlock
  PROVE  \E k \in Nat :
           /\ pos' = k * Rate
           /\ \A b, c : Texts(b, c)' => /\ x' = Absorbing(b, Bound(call))[k]
                                        /\ Blocks(b, Bound(call), c, k)
<1>1. pc = "text" /\ pos' = pos + Rate
  BY DEF EncryptBlock, DecryptBlock
<1>2. PICK k \in Nat :
        /\ pos = k * Rate
        /\ \A b, c : Texts(b, c) => /\ x = Absorbing(b, Bound(call))[k]
                                    /\ Blocks(b, Bound(call), c, k)
  BY <1>1 DEF Computes
<1>3. (k + 1) * Rate = k * Rate + Rate /\ k + 1 \in Nat
  BY RateIndex
<1>4. ASSUME NEW b, NEW c, Texts(b, c)'
      PROVE  x' = Absorbing(b, Bound(call))[k + 1] /\ Blocks(b, Bound(call), c, k + 1)
  <2> DEFINE r == Absorbing(b, Bound(call))
  <2>1. Texts(b, c) /\ x' = P_B(Full(b, x, pos)) /\ Emitted(Full(b, x, pos), c, pos, Rate)
    BY <1>4, BlockIs
  <2>2. x = r[k] /\ Blocks(b, Bound(call), c, k)
    BY <1>2, <2>1
  <2>3. r[k + 1] = P_B(Full(b, r[k], k * Rate))
    BY CallTypes, AbsorbingIs
  <2>4. \A j \in 0..((k + 1) - 1) : j \in 0..(k - 1) \/ j = k
    OBVIOUS
  <2> QED BY <1>2, <2>1, <2>2, <2>3, <2>4 DEF Blocks
<1> QED BY <1>1, <1>2, <1>3, <1>4

LEMMA RestStepIs ==
  ASSUME TypeOK, UnreadInputIntact, Computes, EncryptLast \/ DecryptLast, NEW b, NEW c,
         Texts(b, c)'
  PROVE  x' = Last(b, call.len, Bound(call)) /\ Seals(b, Bound(call), c, call.len)
<1>1. pc = "text" /\ call.len - pos < Rate
  BY DEF EncryptLast, DecryptLast
<1>2. PICK k \in Nat :
        /\ pos = k * Rate
        /\ \A f, g : Texts(f, g) => /\ x = Absorbing(f, Bound(call))[k]
                                    /\ Blocks(f, Bound(call), g, k)
  BY <1>1 DEF Computes
<1>3. /\ Texts(b, c) /\ x' = Rest(b, x, pos, call.len - pos)
      /\ Emitted(x', c, pos, call.len - pos)
  BY LastIs
<1>4. k = call.len \div Rate /\ call.len - pos = call.len % Rate
  <2>1. call.len \in Nat /\ pos \in 0..call.len
    BY DEF TypeOK, IsCall
  <2>2. k * Rate <= call.len /\ call.len - k * Rate < Rate
    BY <1>1, <1>2, <2>1
  <2> QED BY <1>2, <2>1, <2>2, LastIndex
<1> QED BY <1>2, <1>3, <1>4 DEF Last, Seals

LEMMA ComputesStep ==
  ASSUME TypeOK, UnreadInputIntact, Computes, [Next]_vars
  PROVE  Computes'
<1>0. Places'
  BY PlacesStep DEF Computes
<1>1. CASE Initialise
  <2>1. /\ pc' = "ad" /\ call' = call /\ absorbed' = 0 * Rate
        /\ x' = Absorbing(call.ad, Begun(call))[0]
    BY <1>1, AdStep DEF Initialise
  <2> QED BY <1>0, <2>1 DEF Computes
<1>2. CASE AbsorbBlock
  <2>1. /\ pc' = "ad" /\ call' = call
        /\ \E k \in Nat : absorbed' = k * Rate /\ x' = Absorbing(call.ad, Begun(call))[k]
    BY <1>2, AdStep DEF AbsorbBlock
  <2> QED BY <1>0, <2>1 DEF Computes
<1>3. CASE AbsorbLast \/ AbsorbNothing
  <2>1. pc' = "text" /\ call' = call /\ pos' = 0 /\ x' = Bound(call)
    BY <1>3, AdStep DEF AbsorbLast, AbsorbNothing, Computes, Places
  <2>2. 0 * Rate = 0
    BY RateValue
  <2>3. \A b, c : x' = Absorbing(b, Bound(call))[0] /\ Blocks(b, Bound(call), c, 0)
    <3>1. \A b : Absorbing(b, Bound(call))[0] = Bound(call)
      BY CallTypes, AbsorbingIs
    <3> QED BY <2>1, <3>1 DEF Blocks
  <2> QED BY <1>0, <2>1, <2>2, <2>3 DEF Computes
<1>4. CASE EncryptBlock \/ DecryptBlock
  <2>1. pc' = "text" /\ call' = call
    BY <1>4 DEF EncryptBlock, DecryptBlock
  <2>2. PICK k \in Nat :
          /\ pos' = k * Rate
          /\ \A b, c : Texts(b, c)' => /\ x' = Absorbing(b, Bound(call))[k]
                                       /\ Blocks(b, Bound(call), c, k)
    BY <1>4, BlocksStep
  <2> QED BY <1>0, <2>1, <2>2 DEF Computes
<1>5. CASE EncryptLast \/ DecryptLast
  <2>1. pc' = "tag" /\ call' = call
    BY <1>5 DEF EncryptLast, DecryptLast
  <2>2. \A b, c : Texts(b, c)' => /\ x' = Last(b, call.len, Bound(call))
                                  /\ Seals(b, Bound(call), c, call.len)
    BY <1>5, RestStepIs
  <2> QED BY <1>0, <2>1, <2>2 DEF Computes
<1>6. CASE EncryptTag \/ DecryptTag
  BY <1>0, <1>6 DEF EncryptTag, DecryptTag, Computes
<1>7. CASE CallerStep
  BY <1>0, <1>7 DEF CallerStep, EnterCall, Computes
<1>8. CASE UNCHANGED vars
  <2>1. UNCHANGED <<mem, call, pc, x, absorbed, pos, entryMem>>
    BY <1>8 DEF vars
  <2>2. \A b, c : Texts(b, c)' <=> Texts(b, c)
    BY <2>1 DEF Texts, Input
  <2> QED BY <1>0, <2>1, <2>2 DEF Computes
<1> QED BY <1>1, <1>2, <1>3, <1>4, <1>5, <1>6, <1>7, <1>8 DEF Next, CallStep

(* Whatever its caller does, a call is at every step where the functions    *)
(* above say: in the right turn of the right walk, with the right text      *)
(* written so far.                                                          *)
LEMMA ComputesAlways == Spec => []Computes
<1>1. Init => Computes
  BY DEF Init, Computes, Places
<1>2. TypeOK /\ UnreadInputIntact /\ Computes /\ [Next]_vars => Computes'
  BY ComputesStep
<1> QED BY <1>1, <1>2, TypeCorrect, InputIntact, PTL DEF Spec

------------------------------------------------------------------------------
(* What a completed call amounts to.                                        *)

(* The transaction t is what the functions above say: its ciphertext is the *)
(* one of its message, whether the message was given or made, an encryption *)
(* gives the tag, and a decryption compares the tag with the one given.     *)
Computed(t) ==
  \E n \in Nat :
    /\ IsBytes(t.ad) /\ t.msg \in Array(n) /\ t.ct \in Array(n)
    /\ t.ct = CipherOf(t, t.msg, n)
    /\ t.op = "encrypt" => t.ret = 0 /\ t.tag = TagOf(t, t.msg, n)
    /\ t.op = "decrypt" => t.ret = IF t.tag = TagOf(t, t.msg, n) THEN 0 ELSE -1

LEMMA SameContext ==
  ASSUME NEW c, NEW d, c.key = d.key, c.nonce = d.nonce, c.ad = d.ad
  PROVE  /\ Bound(c) = Bound(d)
         /\ \A b, n : CipherOf(c, b, n) = CipherOf(d, b, n) /\ TagOf(c, b, n) = TagOf(d, b, n)
<1>1. \A i : KeyWord(c, i) = KeyWord(d, i)
  BY DEF KeyWord
<1>2. InitialState(c) = InitialState(d)
  BY <1>1 DEF InitialState
<1>3. Begun(c) = Begun(d)
  BY <1>1, <1>2 DEF Begun
<1>4. Bound(c) = Bound(d)
  BY <1>3 DEF Bound
<1>5. \A s : Ended(c, s) = Ended(d, s)
  BY <1>1 DEF Ended
<1>6. \A b, n : CipherOf(c, b, n) = CipherOf(d, b, n)
  BY <1>4 DEF CipherOf
<1>7. \A b, n : TagOf(c, b, n) = TagOf(d, b, n)
  BY <1>4, <1>5 DEF TagOf
<1> QED BY <1>4, <1>6, <1>7

LEMMA FinalizeIs == \A s : Finalize(s) = Ended(call, s)
  BY DEF Finalize, Ended

LEMMA TagStored ==
  ASSUME NEW D, NEW m \in [D -> Byte], NEW p \in Nat, NEW s,
         \A i \in 0..(TagLen - 1) : p + i \in D
  PROVE  /\ Shows(StoreTag(m, p, s), p, s[3], W)
         /\ Shows(StoreTag(m, p, s), p + W, s[4], W)
<1> DEFINE r == STORE_N(m, p, s[3], W)
           u == STORE_N(r, p + W, s[4], W)
<1>0. W \in Nat /\ TagLen = W + W /\ W \in Int
  BY RateValue DEF TagLen
<1>1. r \in [D -> Byte] /\ u = StoreTag(m, p, s)
  BY StoreType DEF StoreTag
<1>2. ASSUME NEW j \in 0..(W - 1)
      PROVE  u[p + j] = OutByte(outbound_word(s[3]), j)
  <2>1. p + j \in D /\ j \in Int /\ 0 <= j /\ j < W
    BY <1>0, <1>2
  <2>2. r[p + j] = OutByte(outbound_word(s[3]), j)
    BY <1>0, <2>1, StoreValue
  <2>3. u[p + j] = r[p + j]
    <3> DEFINE a == p + j
               k == p + W
    <3>1. a \in D /\ a \notin k..(k + W - 1)
      BY <1>0, <2>1
    <3> HIDE DEF a, r, k
    <3> QED BY <1>1, <3>1, StoreFrame DEF a, k
  <2> QED BY <2>2, <2>3
<1>3. ASSUME NEW j \in 0..(W - 1)
      PROVE  u[(p + W) + j] = OutByte(outbound_word(s[4]), j)
  <2> DEFINE k == p + W
             i == W + j
  <2>1. i \in 0..(TagLen - 1) /\ p + i = k + j /\ k \in Int /\ j \in Int /\ 0 <= j /\ j < W
    BY <1>0, <1>3
  <2> HIDE DEF k, i, r
  <2>2. k + j \in D
    BY <2>1
  <2>3. STORE_N(r, k, s[4], W)[k + j] = OutByte(outbound_word(s[4]), j)
    BY <1>0, <1>1, <2>1, <2>2, StoreValue
  <2> QED BY <2>3 DEF k
<1> HIDE DEF u
<1> QED BY <1>1, <1>2, <1>3 DEF Shows

(* A tag is the same bytes wherever it is stored.                           *)
LEMMA TagBytes ==
  ASSUME TypeOK, NEW s
  PROVE  /\ StoreTag([i \in 0..(TagLen - 1) |-> {}], 0, s) \in Array(TagLen)
         /\ \A i \in 0..(TagLen - 1) :
              StoreTag(mem, call.tag, s)[call.tag + i]
                = StoreTag([j \in 0..(TagLen - 1) |-> {}], 0, s)[i]
<1> DEFINE p == call.tag
           e == [i \in 0..(TagLen - 1) |-> {}]
           m == StoreTag(mem, p, s)
           z == StoreTag(e, 0, s)
<1>0. /\ W \in Nat /\ TagLen = W + W /\ p \in Nat /\ mem \in [Addr -> Byte]
      /\ \A i \in 0..(TagLen - 1) : p + i \in Addr
  BY RateValue, TagAddresses DEF TagLen, TypeOK
<1>1. /\ e \in [0..(TagLen - 1) -> Byte]
      /\ \A i \in 0..(TagLen - 1) : 0 + i \in 0..(TagLen - 1)
  BY DEF Byte
<1> HIDE DEF e, p
<1>2. Shows(m, p, s[3], W) /\ Shows(m, p + W, s[4], W)
  BY <1>0, TagStored
<1>3. Shows(z, 0, s[3], W) /\ Shows(z, 0 + W, s[4], W)
  BY <1>1, TagStored
<1>4. z \in [0..(TagLen - 1) -> Byte]
  BY <1>1, StoreTagType
<1> HIDE DEF m, z
<1>5. ASSUME NEW i \in 0..(TagLen - 1) PROVE m[p + i] = z[i]
  <2>1. CASE i < W
    <3>1. i \in 0..(W - 1) /\ 0 + i = i
      BY <1>0, <2>1
    <3> QED BY <1>2, <1>3, <3>1 DEF Shows
  <2>2. CASE ~(i < W)
    <3> DEFINE j == i - W
    <3>1. j \in 0..(W - 1) /\ (0 + W) + j = i /\ (p + W) + j = p + i
      BY <1>0, <2>2
    <3> HIDE DEF j
    <3> QED BY <1>2, <1>3, <3>1 DEF Shows
  <2> QED BY <2>1, <2>2
<1> QED BY <1>4, <1>5 DEF m, z, e, p, Array

LEMMA CallComputed ==
  ASSUME TypeOK, TypeOK', WritesOnlyOutput, Computes, CallStep, pc' = "returned"
  PROVE  Computed(Transaction(call, entryMem, mem', ret'))
<1> DEFINE t == Transaction(call, entryMem, mem', ret')
           n == call.len
           out == Slice(mem, call.dst, call.len)
           b == IF call.op = "encrypt" THEN Input ELSE out
           c == IF call.op = "encrypt" THEN out ELSE Input
           z == StoreTag([i \in 0..(TagLen - 1) |-> {}], 0, x')
<1>0. /\ EncryptTag \/ DecryptTag
      /\ pc = "tag" /\ pos = n /\ n \in Nat /\ call.op \in {"encrypt", "decrypt"}
      /\ IsBytes(call.ad)
  BY DEF CallStep, Initialise, AbsorbBlock, AbsorbLast, AbsorbNothing, EncryptBlock,
         EncryptLast, EncryptTag, DecryptBlock, DecryptLast, DecryptTag, Computes, Places,
         TypeOK, IsCall, IsBytes
<1>1. Input \in Array(n) /\ out \in Array(n)
  BY TextArrays DEF TypeOK
<1>2. x = Last(b, n, Bound(call)) /\ Seals(b, Bound(call), c, n)
  <2>1. Holds(mem, call.dst, out, 0, pos)
    BY <1>0, TagAddresses DEF Holds, Slice
  <2>2. Texts(b, c)
    BY <2>1 DEF Texts
  <2> HIDE DEF b, c, n
  <2> QED BY <1>0, <2>2 DEF Computes, n
<1>3. c = CipherOf(call, b, n)
  <2>1. c \in Array(n)
    BY <1>1
  <2> HIDE DEF b, c, n
  <2> QED BY <1>0, <1>2, <2>1, CipherIs
<1>4. z = TagOf(call, b, n)
  <2>1. x' = Ended(call, x)
    BY <1>0, FinalizeIs DEF EncryptTag, DecryptTag
  <2> HIDE DEF b, n
  <2> QED BY <1>2, <2>1 DEF TagOf
<1>5. z \in Array(TagLen) /\ \A i \in 0..(TagLen - 1) : StoreTag(mem, call.tag, x')[call.tag + i] = z[i]
  BY TagBytes
<1>6. Slice(mem', call.dst, n) = out
  <2>1. \A i \in 0..(n - 1) : mem'[call.dst + i] = mem[call.dst + i]
    <3>1. mem' = mem \/ mem' = StoreTag(mem, call.tag, x')
      BY <1>0 DEF EncryptTag, DecryptTag
    <3> QED BY <3>1, TagAddresses, StoreTagFrame DEF TypeOK
  <2> QED BY <2>1 DEF Slice
<1>7. /\ t.key = call.key /\ t.nonce = call.nonce /\ t.ad = call.ad /\ t.op = call.op
      /\ t.ret = ret' /\ t.msg = b /\ t.ct = c
      /\ t.tag = Slice(IF call.op = "encrypt" THEN mem' ELSE entryMem, call.tag, TagLen)
  BY <1>6 DEF Transaction, Input
<1> HIDE DEF z
<1>8. CASE call.op = "encrypt"
  <2>1. mem' = StoreTag(mem, call.tag, x') /\ ret' = 0
    BY <1>0, <1>8 DEF EncryptTag, DecryptTag
  <2>2. t.tag = z
    <3>1. \A i \in 0..(TagLen - 1) : mem'[call.tag + i] = z[i]
      BY <1>5, <2>1
    <3>2. z = [i \in 0..(TagLen - 1) |-> z[i]]
      BY <1>5 DEF Array
    <3>3. t.tag = Slice(mem', call.tag, TagLen)
      BY <1>7, <1>8
    <3> HIDE DEF t
    <3> QED BY <3>1, <3>2, <3>3 DEF Slice
  <2>3. b \in Array(n) /\ c \in Array(n)
    BY <1>1
  <2> HIDE DEF t, b, c, n
  <2>4. TagOf(t, b, n) = TagOf(call, b, n) /\ CipherOf(t, b, n) = CipherOf(call, b, n)
    BY <1>7, SameContext
  <2>5. Computed(t)
    BY <1>0, <1>3, <1>4, <1>7, <1>8, <2>1, <2>2, <2>3, <2>4 DEF Computed
  <2> QED BY <2>5 DEF t
<1>9. CASE call.op = "decrypt"
  <2>1. ret' = IF \A i \in 0..(TagLen - 1) : XOR(mem[call.tag + i], z[i]) = {} THEN 0 ELSE -1
    <3>1. ret' = TagVerdict(mem, call.tag, z)
      BY <1>0, <1>9 DEF EncryptTag, DecryptTag, z
    <3>2. \A i \in 0..(TagLen - 1) : mem[call.tag + i] \in Byte /\ z[i] \in Byte
      BY <1>0, <1>5, TagAddresses DEF TypeOK, Array
    <3> QED BY <3>1, <3>2, Verdict
  <2>2. \A i \in 0..(TagLen - 1) : mem[call.tag + i] = entryMem[call.tag + i]
    BY <1>0, <1>9, TagAddresses DEF WritesOnlyOutput
  <2>3. t.tag = z <=> \A i \in 0..(TagLen - 1) : XOR(mem[call.tag + i], z[i]) = {}
    <3>1. t.tag = [i \in 0..(TagLen - 1) |-> entryMem[call.tag + i]]
      BY <1>7, <1>9 DEF Slice
    <3>2. z = [i \in 0..(TagLen - 1) |-> z[i]]
      BY <1>5 DEF Array
    <3> HIDE DEF t
    <3>3. t.tag = z <=> \A i \in 0..(TagLen - 1) : entryMem[call.tag + i] = z[i]
      <4>1. ASSUME t.tag = z, NEW i \in 0..(TagLen - 1)
            PROVE  entryMem[call.tag + i] = z[i]
        BY ONLY <3>1, <4>1
      <4>2. ASSUME \A i \in 0..(TagLen - 1) : entryMem[call.tag + i] = z[i]
            PROVE  t.tag = z
        BY ONLY <3>1, <3>2, <4>2
      <4> QED BY <4>1, <4>2
    <3>4. \A f, g : XOR(f, g) = {} <=> f = g
      BY DEF XOR
    <3>5. (\A i \in 0..(TagLen - 1) : entryMem[call.tag + i] = z[i])
            <=> \A i \in 0..(TagLen - 1) : XOR(mem[call.tag + i], z[i]) = {}
      BY ONLY <2>2, <3>4
    <3> QED BY <3>3, <3>5
  <2>4. b \in Array(n) /\ c \in Array(n)
    BY <1>1, <1>9
  <2> HIDE DEF t, b, c, n
  <2>5. TagOf(t, b, n) = TagOf(call, b, n) /\ CipherOf(t, b, n) = CipherOf(call, b, n)
    BY <1>7, SameContext
  <2>6. t.ret = IF t.tag = TagOf(t, b, n) THEN 0 ELSE -1
    BY <1>4, <1>7, <2>1, <2>3, <2>5
  <2>7. Computed(t)
    BY <1>0, <1>3, <1>7, <1>9, <2>4, <2>5, <2>6 DEF Computed
  <2> QED BY <2>7 DEF t
<1> QED BY <1>0, <1>8, <1>9

------------------------------------------------------------------------------
(* Sessions.                                                                *)

Typed == TypeOK /\ \A e \in log : Recorded(e)

(* A session is a behaviour of AsconAead, in which callers write bytes. *)
LEMMA SessionStep ==
  ASSUME Typed, [SessionNext]_sessionVars
  PROVE  [Next]_vars /\ Typed'
<1>1. CASE Work
  <2>1. [Next]_vars /\ TypeOK'
    <3>1. [Next]_vars
      BY <1>1 DEF Work, Next
    <3> QED BY <3>1, TypeStep DEF Typed
  <2>2. Recorded(Transaction(call, entryMem, mem', ret'))
    <3>1. mem' \in [Addr -> Byte]
      BY <2>1 DEF TypeOK
    <3> QED BY <3>1, RecordedCall DEF Typed, TypeOK
  <2>3. \A e \in log' : Recorded(e)
    BY <1>1, <2>2 DEF Work, Typed
  <2> QED BY <2>1, <2>3 DEF Typed
<1>2. CASE EnterNext
  <2>1. PICK e \in log : \E n \in NextEntries(mem, e) : EnterCall(n.call, n.mem)
    BY <1>2 DEF EnterNext
  <2>2. PICK n \in NextEntries(mem, e) : EnterCall(n.call, n.mem)
    BY <2>1
  <2>3. IsCall(n.call) /\ n.mem \in [Addr -> Byte]
    BY EntryType DEF Typed, TypeOK
  <2>4. CallerStep
    BY <2>2, <2>3 DEF CallerStep, EnterCall
  <2>5. [Next]_vars
    BY <2>4 DEF Next
  <2> QED BY <1>2, <2>5, TypeStep DEF Typed, EnterNext
<1>3. CASE UNCHANGED sessionVars
  BY <1>3, TypeStep DEF Typed, sessionVars, vars
<1> QED BY <1>1, <1>2, <1>3 DEF SessionNext, Finished

LEMMA SessionStart == SessionInit => Init /\ Typed
<1> SUFFICES ASSUME SessionInit PROVE Init /\ Typed
  OBVIOUS
<1>1. PICK n \in FirstEntries : call = n.call /\ mem = n.mem
  BY DEF SessionInit
<1>2. IsCall(call) /\ mem \in [Addr -> Byte]
  BY <1>1, FirstEntryType
<1>3. x \in State
  BY DEF SessionInit, State, Word
<1> QED BY <1>2, <1>3 DEF SessionInit, Init, Typed, TypeOK, IsCall

(* What the theorems on AsconAead say holds in every session. *)
LEMMA SessionInvariant ==
  SessionSpec => [](Typed /\ Computes /\ WritesOnlyOutput)
<1>1. SessionSpec => []Typed /\ Spec
  BY SessionStart, SessionStep, PTL DEF SessionSpec, Spec
<1> QED BY <1>1, ComputesAlways, WritesConfined, PTL

AllComputed ==
  /\ last.op # "none" => Computed(last)
  /\ \A e \in log : e.op = "encrypt" /\ Computed(e)

LEMMA ReturnStep ==
  ASSUME Typed, WritesOnlyOutput, Computes, Work, pc' = "returned"
  PROVE  /\ last' = Transaction(call, entryMem, mem', ret') /\ Computed(last')
         /\ last'.op = call.op /\ call.op \in {"encrypt", "decrypt"}
<1>1. /\ CallStep /\ last' = Transaction(call, entryMem, mem', ret')
      /\ TypeOK /\ Next /\ [Next]_vars
  BY DEF Work, Typed, Next
<1>2. TypeOK'
  BY <1>1, TypeStep
<1>3. Computed(Transaction(call, entryMem, mem', ret'))
  BY <1>1, <1>2, CallComputed
<1> QED BY <1>1, <1>3 DEF Transaction, TypeOK, IsCall

LEMMA AllComputedStep ==
  ASSUME Typed, WritesOnlyOutput, Computes, AllComputed, [SessionNext]_sessionVars
  PROVE  AllComputed'
<1>1. CASE Work /\ pc' = "returned"
  <2>1. Computed(last') /\ last'.op = call.op
    BY <1>1, ReturnStep
  <2>2. log' = IF call.op = "encrypt" THEN log \cup {last'} ELSE log
    BY <1>1 DEF Work
  <2> QED BY <2>1, <2>2 DEF AllComputed
<1>2. CASE UNCHANGED <<log, last>>
  BY <1>2 DEF AllComputed
<1> QED BY <1>1, <1>2 DEF SessionNext, Work, EnterNext, Finished, sessionVars

(* Every call, in every build, at both rates, in every memory layout and    *)
(* sequence of calls, computes Ascon: ascon_encrypt returns ciphertext and  *)
(* tag of its message under its key, nonce and associated data;             *)
(* ascon_decrypt writes the message whose ciphertext it was given, and      *)
(* returns 0 if and only if it was given that message's tag.                *)
THEOREM CallsCompute == SessionSpec => []AllComputed
<1>1. SessionInit => AllComputed
  BY DEF SessionInit, AllComputed
<1>2. Typed /\ WritesOnlyOutput /\ Computes /\ AllComputed /\ [SessionNext]_sessionVars
        => AllComputed'
  BY AllComputedStep
<1> QED BY <1>1, <1>2, SessionInvariant, PTL DEF SessionSpec

(* Messages are as many as ciphertexts. *)
LEMMA SameMessage ==
  ASSUME NEW c, IsBytes(c.ad), NEW m \in Nat, NEW n \in Nat,
         NEW b \in Array(m), NEW d \in Array(n), NEW f \in Array(m), f \in Array(n),
         f = CipherOf(c, b, m), f = CipherOf(c, d, n)
  PROVE  b = d /\ m = n
<1>1. m = n
  BY LengthOf
<1>2. Seals(b, Bound(c), f, n) /\ Seals(d, Bound(c), f, n) /\ b \in Array(n)
  BY <1>1, CipherIs
<1>3. Bound(c) \in State
  BY BoundType
<1>4. b = d
  BY <1>2, <1>3, SameText
<1> QED BY <1>1, <1>4

LEMMA PacketsOpen ==
  ASSUME NEW t, t.op = "decrypt", Computed(t), NEW e, e.op = "encrypt", Computed(e),
         IdealScheme!Packet(e) = IdealScheme!Packet(t)
  PROVE  t.ret = 0 /\ t.msg = e.msg
<1>1. e.key = t.key /\ e.nonce = t.nonce /\ e.ad = t.ad /\ e.ct = t.ct /\ e.tag = t.tag
  BY DEF IdealScheme!Packet, IdealScheme!Context
<1>2. PICK n \in Nat : /\ IsBytes(t.ad) /\ t.msg \in Array(n) /\ t.ct \in Array(n)
                       /\ t.ct = CipherOf(t, t.msg, n)
                       /\ t.ret = IF t.tag = TagOf(t, t.msg, n) THEN 0 ELSE -1
  BY DEF Computed
<1>3. PICK m \in Nat : /\ e.msg \in Array(m) /\ e.ct \in Array(m)
                       /\ e.ct = CipherOf(e, e.msg, m) /\ e.tag = TagOf(e, e.msg, m)
  BY DEF Computed
<1>4. e.ct = CipherOf(t, e.msg, m) /\ e.tag = TagOf(t, e.msg, m)
  BY <1>1, <1>3, SameContext
<1>5. e.msg = t.msg /\ m = n
  BY <1>1, <1>2, <1>3, <1>4, SameMessage
<1> QED BY <1>1, <1>2, <1>4, <1>5

(* A packet that arrives as it was made opens to its message, with the      *)
(* value 0, with other layouts and other old contents of memory, and        *)
(* whatever was called in between.                                          *)
THEOREM IntactPacketsOpen == SessionSpec => []IntactOpens
<1>1. AllComputed => IntactOpens
  BY PacketsOpen DEF AllComputed, IntactOpens
<1> QED BY <1>1, CallsCompute, PTL

------------------------------------------------------------------------------
(* The ideal scheme.                                                        *)

(* Nobody but ascon_encrypt makes tags: whoever presents to ascon_decrypt   *)
(* the ciphertext and the tag of some message has them from an encryption   *)
(* of it.  No proof about the code can show this; it is what the            *)
(* permutation is for.                                                      *)
Unforged ==
  \A b \in Array(call.len) :
    /\ call.op = "decrypt"
    /\ Input = CipherOf(call, b, call.len)
    /\ Slice(entryMem, call.tag, TagLen) = TagOf(call, b, call.len)
    => \E e \in log : /\ e.key = call.key /\ e.nonce = call.nonce /\ e.ad = call.ad
                      /\ e.ct = Input /\ e.tag = Slice(entryMem, call.tag, TagLen)

LEMMA EncryptionIdeal ==
  ASSUME AllComputed, NEW t, t.op = "encrypt", Computed(t)
  PROVE  IdealScheme!Encryption(t)
<1>1. PICK n \in Nat : /\ IsBytes(t.ad) /\ t.msg \in Array(n) /\ t.ct \in Array(n) /\ t.ret = 0
                       /\ t.ct = CipherOf(t, t.msg, n) /\ t.tag = TagOf(t, t.msg, n)
  BY DEF Computed
<1>2. DOMAIN t.ct = DOMAIN t.msg
  BY <1>1 DEF Array
<1>3. ASSUME NEW e \in log, e.key = t.key, e.nonce = t.nonce, e.ad = t.ad
      PROVE  (e.msg = t.msg) <=> (e.ct = t.ct /\ e.tag = t.tag)
  <2>1. PICK m \in Nat : /\ e.msg \in Array(m) /\ e.ct \in Array(m)
                         /\ e.ct = CipherOf(e, e.msg, m) /\ e.tag = TagOf(e, e.msg, m)
    BY DEF AllComputed, Computed
  <2>2. e.ct = CipherOf(t, e.msg, m) /\ e.tag = TagOf(t, e.msg, m)
    BY <1>3, <2>1, SameContext
  <2>3. e.msg = t.msg => m = n
    BY <1>1, <2>1, LengthOf
  <2>4. ASSUME e.ct = t.ct PROVE e.msg = t.msg
    <3>1. e.ct \in Array(n) /\ e.ct = CipherOf(t, t.msg, n) /\ IsBytes(t.ad)
      BY <1>1, <2>4
    <3>2. e.msg \in Array(m) /\ t.msg \in Array(n) /\ e.ct \in Array(m)
      BY <1>1, <2>1
    <3>3. e.ct = CipherOf(t, e.msg, m)
      BY <2>2
    <3> QED BY ONLY n \in Nat, m \in Nat, <3>1, <3>2, <3>3, SameMessage
  <2> QED BY <1>1, <2>2, <2>3, <2>4
<1> QED BY <1>1, <1>2, <1>3 DEF IdealScheme!Encryption, IdealScheme!Context

LEMMA IdealStep ==
  ASSUME Typed, WritesOnlyOutput, Computes, AllComputed, Unforged, [SessionNext]_sessionVars
  PROVE  [IdealScheme!Next]_<<log, last>>
<1>1. CASE Work /\ pc' = "returned"
  <2>1. /\ last' = Transaction(call, entryMem, mem', ret') /\ Computed(last')
        /\ last'.op = call.op /\ call.op \in {"encrypt", "decrypt"}
    BY <1>1, ReturnStep
  <2>2. log' = IF call.op = "encrypt" THEN log \cup {last'} ELSE log
    BY <1>1 DEF Work
  <2>3. CASE call.op = "encrypt"
    BY <2>1, <2>2, <2>3, EncryptionIdeal DEF IdealScheme!Next
  <2>4. CASE call.op = "decrypt"
    <3>1. /\ last'.key = call.key /\ last'.nonce = call.nonce /\ last'.ad = call.ad
          /\ last'.ct = Input /\ last'.tag = Slice(entryMem, call.tag, TagLen)
      BY <2>1, <2>4 DEF Transaction, Input
    <3>2. call.len \in Nat /\ Input \in Array(call.len)
      BY TextArrays DEF Typed
    <3>3. PICK n \in Nat : /\ last'.msg \in Array(n) /\ last'.ct \in Array(n)
                           /\ last'.ct = CipherOf(last', last'.msg, n)
                           /\ last'.ret = IF last'.tag = TagOf(last', last'.msg, n) THEN 0 ELSE -1
      BY <2>1, <2>4 DEF Computed
    <3>4. n = call.len
      BY <3>1, <3>2, <3>3, LengthOf
    <3>5. last'.ret = 0
            => \E e \in log : IdealScheme!Packet(e) = IdealScheme!Packet(last')
      <4>1. \A b : /\ CipherOf(last', b, n) = CipherOf(call, b, n)
                   /\ TagOf(last', b, n) = TagOf(call, b, n)
        BY <3>1, SameContext
      <4>2. last'.ret = 0 => /\ Input = CipherOf(call, last'.msg, n)
                             /\ Slice(entryMem, call.tag, TagLen) = TagOf(call, last'.msg, n)
        BY <3>1, <3>3, <4>1
      <4> QED BY <2>4, <3>1, <3>3, <3>4, <4>2 DEF Unforged, IdealScheme!Packet, IdealScheme!Context
    <3>6. \A e \in log : IdealScheme!Packet(e) = IdealScheme!Packet(last')
            => last'.ret = 0 /\ last'.msg = e.msg
      BY <2>1, <2>4, PacketsOpen DEF AllComputed
    <3>7. last'.ret \in {0, -1}
      BY <3>3
    <3>8. IdealScheme!Decryption(last')
      BY <2>1, <2>4, <3>5, <3>6, <3>7 DEF IdealScheme!Decryption
    <3> QED BY <2>2, <2>4, <3>8 DEF IdealScheme!Next
  <2> QED BY <2>1, <2>3, <2>4
<1>2. CASE UNCHANGED <<log, last>>
  BY <1>2
<1> QED BY <1>1, <1>2 DEF SessionNext, Work, EnterNext, Finished, sessionVars

(* As long as nothing is forged ascon_encrypt and ascon_decrypt are the     *)
(* ideal scheme.  All of the rest the code has to do, and does: ciphertexts *)
(* as long as their messages, of one message under one key, nonce and       *)
(* associated data always the same packet and of two never, every packet    *)
(* opened that was made, and -1 for what is not accepted.                   *)
THEOREM IdealUnlessForged == SessionSpec /\ []Unforged => ImplementsIdeal
<1>1. SessionInit => IdealScheme!Init
  BY DEF SessionInit, IdealScheme!Init
<1>2. Typed /\ WritesOnlyOutput /\ Computes /\ AllComputed /\ Unforged
        /\ [SessionNext]_sessionVars => [IdealScheme!Next]_<<log, last>>
  BY IdealStep
<1> QED BY <1>1, <1>2, SessionInvariant, CallsCompute, PTL
           DEF SessionSpec, ImplementsIdeal, IdealScheme!Spec

==============================================================================
