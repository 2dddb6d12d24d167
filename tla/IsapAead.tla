------------------------------ MODULE IsapAead ------------------------------
(***************************************************************************)
(* isap_a_encrypt and isap_a_decrypt (src/isap), called one after the      *)
(* other by a caller that owns one memory.                                 *)
(*                                                                         *)
(* Encryption runs isap_enc over the text and then isap_mac over the       *)
(* ciphertext it has written to the caller's memory; decryption runs       *)
(* isap_mac over the ciphertext it was given and then, if the tag was      *)
(* right, isap_enc.  Both derive a session key with isap_rk, which absorbs *)
(* one bit of its input per permutation.  One step is one turn of a loop,  *)
(* or the straight line between two loops.                                 *)
(***************************************************************************)
EXTENDS AsconPermutation, AeadCalls

CONSTANTS Variant,          \* ISAP_128 or ISAP_128A
          TESTING_ENABLED   \* as given to the compiler

ASSUME VariantAssumption == Variant \in {"128", "128a"}
ASSUME BuildAssumption   == TARGET_ARCH # "generic" /\ TESTING_ENABLED \in BOOLEAN

VARIABLES mem,       \* the caller's memory
          call,      \* arguments of the current or last call
          pc,        \* what the code does next
          x,         \* the state of isap_enc or isap_mac
          rk,        \* the state of isap_rk
          bit,       \* bits absorbed by isap_rk
          absorbed,  \* bytes of associated data or ciphertext absorbed
          pos,       \* bytes of text processed
          ret,       \* success, or the value returned by the last call
          entryMem   \* history: mem when the call was entered

vars == <<mem, call, pc, x, rk, bit, absorbed, pos, ret, entryMem>>

sH == 12
sB == IF Variant = "128" THEN 12 ELSE 1
sE == IF Variant = "128" THEN 12 ELSE 6
sK == 12

(* The last n of the twelve rounds. *)
PERM(n, s) == CASE n = 12 -> P12(s) [] n = 6 -> P6(s) [] n = 1 -> Round(11)[s]

(* { n, ISAP_K, ISAP_rH, ISAP_rB, ISAP_sH, ISAP_sB, ISAP_sE, ISAP_sK } *)
ISAP_IV(n) ==
  LET v == <<n, 128, 64, 1, sH, sB, sE, sK>> IN [i \in 0..7 |-> ByteOf(v[i + 1])]

------------------------------------------------------------------------------
(* Words and memory (src/isap/interleaving.h).  With rv32 the exchanges of  *)
(* bit blocks are those of generic_deinterleave16 and its inverse.          *)

DEINTERLEAVE(h) == IF TARGET_ARCH \in HAVE_ZBKB THEN unzip(h) ELSE generic_deinterleave16(h)
INTERLEAVE(h)   == IF TARGET_ARCH \in HAVE_ZBKB THEN zip(h) ELSE generic_interleave16(h)

LOAD_SWAP_DEINTERLEAVE_32(in) ==
  LET hi == DEINTERLEAVE(rev8(Lo(in)))
      lo == DEINTERLEAVE(rev8(Hi(in)))
  IN  Pair(pack(srli16(lo), srli16(hi)), pack(lo, hi))

SWAP_INTERLEAVE_32(y) ==
  LET lo == INTERLEAVE(pack(Lo(y), Hi(y)))
      hi == INTERLEAVE(pack(srli16(Lo(y)), srli16(Hi(y))))
  IN  Pair(rev8(lo), rev8(hi))

(* The W bytes of the array from p on, as a word of the state. *)
LOAD(bytes, p) ==
  LET in == {i \in Bits : (i % 8) \in bytes[p + (i \div 8)]}
  IN  IF TARGET_ARCH \in BI32 THEN LOAD_SWAP_DEINTERLEAVE_32(in) ELSE U64BIG[in]

(* A word of the state in the byte order of memory. *)
OUT(y) == IF TARGET_ARCH \in BI32 THEN SWAP_INTERLEAVE_32(y) ELSE U64BIG[y]

AddWord(s, i, w) == [s EXCEPT ![i] = XOR(@, w)]

(* 0x80 in the byte that is absorbed first. *)
TopBit == 8 * W - 1

------------------------------------------------------------------------------
(* isap_rk *)

(* Its state, after the first permutation. *)
RkState(iv) ==
  PERM(sK, [i \in 0..4 |-> CASE i = 0 -> LOAD(call.key, 0) [] i = 1 -> LOAD(call.key, W)
                             [] i = 2 -> LOAD(iv, 0) [] i \in {3, 4} -> {}])

(* Byte j of its input y: of the nonce, or of the first two words of the    *)
(* state of isap_mac.  The 64-bit builds read them where they stand, having *)
(* reversed their bytes, and write the output over them.                    *)
YByte(j) ==
  IF pc = "rk_enc" THEN call.nonce[j]
  ELSE OutByte(IF TARGET_ARCH \in BI32 THEN OUT(x[j \div W]) ELSE x[j \div W], j % W)

(* Mutant of LastBit: a bit is left out. *)
LastBit_Early == 16 * W - 2

LastBit == 16 * W - 1

AbsorbBit(s) ==
  IF (7 - (bit % 8)) \in YByte(bit \div 8) THEN AddWord(s, 0, {TopBit}) ELSE s

(* Mutant of RkBit: it works in its output, where the 64-bit builds read y. *)
RkBit_InOutput ==
  /\ pc \in {"rk_enc", "rk_mac"}
  /\ bit < LastBit
  /\ rk' = PERM(sB, AbsorbBit(rk))
  /\ x' = IF TARGET_ARCH \in BI32 \/ pc = "rk_enc" THEN x
          ELSE [x EXCEPT ![0] = rk'[0], ![1] = rk'[1]]
  /\ bit' = bit + 1
  /\ UNCHANGED <<mem, call, pc, absorbed, pos, ret, entryMem>>

RkBit ==
  /\ pc \in {"rk_enc", "rk_mac"}
  /\ bit < LastBit
  /\ rk' = PERM(sB, AbsorbBit(rk))
  /\ bit' = bit + 1
  /\ UNCHANGED <<mem, call, pc, x, absorbed, pos, ret, entryMem>>

(* Mutant of LastRkState: the short permutation after the last bit, too. *)
LastRkState_Short == PERM(sB, AbsorbBit(rk))

LastRkState == PERM(sK, AbsorbBit(rk))

------------------------------------------------------------------------------
(* isap_enc *)

(* It begins by deriving its key from the nonce. *)
EnterEnc == pc' = "rk_enc" /\ rk' = RkState(ISAP_IV(3)) /\ bit' = 0

(* isap_a_encrypt of a text that is not empty. *)
EncryptStart ==
  /\ pc = "start" /\ call.op = "encrypt" /\ call.len > 0
  /\ EnterEnc
  /\ UNCHANGED <<mem, call, x, absorbed, pos, ret, entryMem>>

EncKey ==
  /\ pc = "rk_enc"
  /\ bit = LastBit
  /\ rk' = LastRkState
  /\ x' = [i \in 0..4 |-> CASE i \in {0, 1, 2} -> rk'[i]
                            [] i = 3 -> LOAD(call.nonce, 0)
                            [] i = 4 -> LOAD(call.nonce, W)]
  /\ pc' = "squeeze"
  /\ UNCHANGED <<mem, call, bit, absorbed, pos, ret, entryMem>>

(* Mutant of XorText: a whole lane, whatever n is. *)
XorText_Lane(w, n) ==
  LET out == OUT(w)
  IN  [a \in Addr |->
        IF a \in Region(call.dst + pos, W)
          THEN LET j == a - (call.dst + pos)
               IN  XOR(mem[call.src + pos + j], OutByte(out, j))
          ELSE mem[a]]

(* The next n bytes of text, exclusive or a word of the key stream.  (The   *)
(* code takes a partial lane byte by byte: with the output at or below its  *)
(* input, the same.)                                                        *)
XorText(w, n) ==
  LET out == OUT(w)
  IN  [a \in Addr |->
        IF a \in Region(call.dst + pos, n)
          THEN LET j == a - (call.dst + pos)
               IN  XOR(mem[call.src + pos + j], OutByte(out, j))
          ELSE mem[a]]

(* Mutant of Squeeze: the pointers do not advance. *)
Squeeze_Stay(n) ==
  /\ x' = PERM(sE, x)
  /\ mem' = XorText(x'[0], n)
  /\ pos' = pos

Squeeze(n) ==
  /\ x' = PERM(sE, x)
  /\ mem' = XorText(x'[0], n)
  /\ pos' = pos + n

SqueezeLane ==
  /\ pc = "squeeze"
  /\ call.len - pos >= W
  /\ Squeeze(W)
  /\ UNCHANGED <<call, pc, rk, bit, absorbed, ret, entryMem>>

(* The partial lane, if there is one.  Encryption goes on with isap_mac. *)
SqueezeLast ==
  /\ pc = "squeeze"
  /\ call.len - pos < W
  /\ IF call.len > pos THEN Squeeze(call.len - pos) ELSE UNCHANGED <<x, mem, pos>>
  /\ pc' = IF call.op = "encrypt" THEN "mac" ELSE "returned"
  /\ UNCHANGED <<call, rk, bit, absorbed, ret, entryMem>>

------------------------------------------------------------------------------
(* isap_mac *)

(* Encryption comes here from isap_enc, or at once if the text is empty;    *)
(* decryption begins here.                                                  *)
MacStart ==
  /\ \/ pc = "mac"
     \/ pc = "start" /\ (call.op = "decrypt" \/ call.len = 0)
  /\ x' = PERM(sH, [i \in 0..4 |-> CASE i = 0 -> LOAD(call.nonce, 0)
                                     [] i = 1 -> LOAD(call.nonce, W)
                                     [] i = 2 -> LOAD(ISAP_IV(1), 0)
                                     [] i \in {3, 4} -> {}])
  /\ pc' = "ad"
  /\ UNCHANGED <<mem, call, rk, bit, absorbed, pos, ret, entryMem>>

(* What is absorbed: associated data, then the ciphertext. *)
Source == IF pc = "ad" THEN call.ad ELSE mem
SourceLen == IF pc = "ad" THEN call.adlen ELSE call.len

(* Mutant of From: the text that went in, whatever the operation. *)
From_Input == IF pc = "ad" THEN 0 ELSE call.src

From == CASE pc = "ad" -> 0
          [] pc = "ct" -> IF call.op = "encrypt" THEN call.dst ELSE call.src

AbsorbLane ==
  /\ pc \in {"ad", "ct"}
  /\ SourceLen - absorbed >= W
  /\ x' = PERM(sH, AddWord(x, 0, LOAD(Source, From + absorbed)))
  /\ absorbed' = absorbed + W
  /\ UNCHANGED <<mem, call, pc, rk, bit, pos, ret, entryMem>>

(* The n bytes left, less than a lane, then 0x80; alone it is added to the  *)
(* state in place.                                                          *)
PaddedLane(n) ==
  LET lane == [j \in 0..(W - 1) |-> IF j < n THEN Source[From + absorbed + j]
                                    ELSE IF j = n THEN {7} ELSE {}]
  IN  IF n > 0 THEN LOAD(lane, 0) ELSE {TopBit}

AbsorbLast(n) == PERM(sH, AddWord(x, 0, PaddedLane(n)))

(* Mutant of AbsorbLastAd: the count goes on from the associated data. *)
AbsorbLastAd_Count ==
  /\ pc = "ad"
  /\ SourceLen - absorbed < W
  /\ x' = AddWord(AbsorbLast(SourceLen - absorbed), 4, {0})
  /\ absorbed' = SourceLen
  /\ pc' = "ct"
  /\ UNCHANGED <<mem, call, rk, bit, pos, ret, entryMem>>

AbsorbLastAd ==
  /\ pc = "ad"
  /\ SourceLen - absorbed < W
  /\ x' = AddWord(AbsorbLast(SourceLen - absorbed), 4, {0})
  /\ absorbed' = 0
  /\ pc' = "ct"
  /\ UNCHANGED <<mem, call, rk, bit, pos, ret, entryMem>>

(* Then the key of the tag is derived from what was absorbed. *)
AbsorbLastCt ==
  /\ pc = "ct"
  /\ SourceLen - absorbed < W
  /\ LET y == AbsorbLast(SourceLen - absorbed)
     IN  x' = IF TARGET_ARCH \in BI32 THEN y
              ELSE [y EXCEPT ![0] = U64BIG[@], ![1] = U64BIG[@]]
  /\ absorbed' = SourceLen
  /\ pc' = "rk_mac" /\ rk' = RkState(ISAP_IV(2)) /\ bit' = 0
  /\ UNCHANGED <<mem, call, pos, ret, entryMem>>

Tag(bytes, p, s) ==
  [a \in DOMAIN bytes |->
    IF a \in Region(p, TagLen) THEN OutByte(OUT(s[(a - p) \div W]), (a - p) % W)
                               ELSE bytes[a]]

(* Encryption squeezes into tag_out and returns 0, decryption into its own  *)
(* actual_tag, which x stands for until it is compared.                     *)
MacTag ==
  /\ pc = "rk_mac"
  /\ bit = LastBit
  /\ rk' = LastRkState
  /\ x' = PERM(sH, [x EXCEPT ![0] = rk'[0], ![1] = rk'[1]])
  /\ IF call.op = "encrypt"
       THEN mem' = Tag(mem, call.tag, x') /\ ret' = 0 /\ pc' = "returned"
       ELSE pc' = "verify" /\ UNCHANGED <<mem, ret>>
  /\ UNCHANGED <<call, bit, absorbed, pos, entryMem>>

------------------------------------------------------------------------------
(* isap_a_decrypt *)

(* Mutant of success: one byte of the tag may differ. *)
success_AllButOne ==
  LET actual_tag == Tag([i \in 0..(TagLen - 1) |-> {}], 0, x)
  IN  IF \A i \in 1..(TagLen - 1) : actual_tag[i] = mem[call.tag + i] THEN 0 ELSE -1

success ==
  LET actual_tag == Tag([i \in 0..(TagLen - 1) |-> {}], 0, x)
  IN  IF \A i \in 0..(TagLen - 1) : actual_tag[i] = mem[call.tag + i] THEN 0 ELSE -1

(* Mutant of Verify: decrypts whatever the tag. *)
Verify_Always ==
  /\ pc = "verify"
  /\ ret' = success
  /\ IF call.len > 0 THEN EnterEnc ELSE pc' = "returned" /\ UNCHANGED <<rk, bit>>
  /\ UNCHANGED <<mem, call, x, absorbed, pos, entryMem>>

Verify ==
  /\ pc = "verify"
  /\ ret' = success
  /\ IF (TESTING_ENABLED \/ ret' = 0) /\ call.len > 0
       THEN EnterEnc
       ELSE pc' = "returned" /\ UNCHANGED <<rk, bit>>
  /\ UNCHANGED <<mem, call, x, absorbed, pos, entryMem>>

------------------------------------------------------------------------------

(* The caller enters a call, having written its memory as it likes. *)
EnterCall(c, m) ==
  /\ pc = "returned"
  /\ call' = c
  /\ mem' = m
  /\ entryMem' = m
  /\ pc' = "start"
  /\ bit' = 0 /\ absorbed' = 0 /\ pos' = 0
  /\ UNCHANGED <<x, rk, ret>>

CallStep == \/ EncryptStart \/ RkBit \/ EncKey \/ SqueezeLane \/ SqueezeLast
            \/ MacStart \/ AbsorbLane \/ AbsorbLastAd \/ AbsorbLastCt \/ MacTag
            \/ Verify

(* A behaviour begins as the first call is entered. *)
Init ==
  /\ IsCall(call)
  /\ mem \in [Addr -> Byte]
  /\ entryMem = mem
  /\ pc = "start"
  /\ x \in State /\ rk \in State   \* locals, not initialised
  /\ bit = 0 /\ absorbed = 0 /\ pos = 0
  /\ ret = 0

CallerStep ==
  IsCall(call') /\ mem' \in [Addr -> Byte] /\ EnterCall(call', mem')

Next == CallStep \/ CallerStep

Spec == Init /\ [][Next]_vars

------------------------------------------------------------------------------

TypeOK ==
  /\ mem \in [Addr -> Byte] /\ entryMem \in [Addr -> Byte]
  /\ IsCall(call)
  /\ pc \in {"start", "rk_enc", "squeeze", "mac", "ad", "ct", "rk_mac", "verify",
             "returned"}
  /\ x \in State /\ rk \in State
  /\ bit \in 0..LastBit
  /\ absorbed \in Nat /\ pos \in 0..call.len
  /\ pc = "ad" => absorbed <= call.adlen
  /\ pc # "ad" => absorbed <= call.len
  /\ pc \in {"start", "mac"} => absorbed = 0
  /\ call.op = "encrypt" /\ pc \in {"rk_enc", "squeeze"} => absorbed = 0
  /\ pc = "verify" => call.op = "decrypt"
  /\ pc = "mac" => call.op = "encrypt"
  /\ ret \in {0, -1}

(* A call writes the bytes it was given to write and no other, an           *)
(* encryption its tag last.                                                 *)
WritesOnlyOutput ==
  \A a \in Addr :
    mem[a] # entryMem[a] =>
      \/ a \in Region(call.dst, pos)
      \/ /\ call.op = "encrypt" /\ pc = "returned"
         /\ a \in Region(call.tag, TagLen)

(* Unless testing is enabled, a decryption writes nothing, not even for a   *)
(* while, before the tag has been found right: the text only ever goes out  *)
(* of a call that will return 0.                                            *)
RefusedMeansUntouched ==
  call.op = "decrypt" /\ ~TESTING_ENABLED =>
    \/ mem = entryMem
    \/ ret = 0 /\ pc \in {"squeeze", "returned"}

(* No call is caught in a loop: each step of a call ends its phase, or      *)
(* leaves less to do in it.                                                 *)
Phase ==
  IF call.op = "encrypt"
    THEN CASE pc = "start" -> 7 [] pc = "rk_enc" -> 6 [] pc = "squeeze" -> 5
           [] pc = "mac" -> 4 [] pc = "ad" -> 3 [] pc = "ct" -> 2
           [] pc = "rk_mac" -> 1 [] pc = "returned" -> 0
    ELSE CASE pc = "start" -> 7 [] pc = "ad" -> 6 [] pc = "ct" -> 5
           [] pc = "rk_mac" -> 4 [] pc = "verify" -> 3 [] pc = "rk_enc" -> 2
           [] pc = "squeeze" -> 1 [] pc = "returned" -> 0

Left ==
  CASE pc \in {"rk_enc", "rk_mac"} -> LastBit - bit
    [] pc = "squeeze" -> call.len - pos
    [] pc \in {"ad", "ct"} -> SourceLen - absorbed
    [] pc \in {"start", "mac", "verify", "returned"} -> 0

EveryStepAdvances ==
  [][pc # "returned" => Phase' < Phase \/ (Phase' = Phase /\ Left' < Left)]_vars

==============================================================================
