------------------------------ MODULE AsconAead ------------------------------
(***************************************************************************)
(* ascon_encrypt and ascon_decrypt (src/ascon), called one after the other *)
(* by a caller that owns one memory.                                       *)
(*                                                                         *)
(* One step is one turn of a loop of the code, or the straight line        *)
(* between two loops.                                                      *)
(***************************************************************************)
EXTENDS AsconPermutation, AeadCalls

CONSTANT RateWords   \* ASCON_AEAD_RATE in words: 1 for Ascon-128, 2 for 128a

ASSUME RateAssumption == RateWords \in {1, 2}

VARIABLES mem,       \* the caller's memory
          call,      \* arguments of the current or last call
          pc,        \* what the code does next
          x,         \* state->x
          absorbed,  \* bytes of associated data absorbed
          pos,       \* bytes of text processed
          ret,       \* the value returned by the last call
          entryMem   \* history: mem when the call was entered

vars == <<mem, call, pc, x, absorbed, pos, ret, entryMem>>

Rate == RateWords * W
ASCON_IV(rate) ==
  IF TARGET_ARCH \in BI32
    THEN BILiteral(IF rate = 1 THEN <<128, 33, 0, 0, 8, 34, 0, 0>>
                               ELSE <<136, 34, 0, 0, 0, 32, 0, 0>>)
    ELSE Literal(IF rate = 1 THEN <<128, 64, 12, 6, 0, 0, 0, 0>>
                             ELSE <<128, 128, 12, 8, 0, 0, 0, 0>>)
P_A(s) == P12(s)
P_B(s) == IF RateWords = 1 THEN P6(s) ELSE P8(s)

------------------------------------------------------------------------------

AddWord(s, i, w) == [s EXCEPT ![i] = XOR(@, w)]

KeyWord(c, i) == LOAD_N(c.key, i * W, W)

InitialState(c) ==
  [i \in 0..4 |-> CASE i = 0 -> ASCON_IV(RateWords)
                    [] i = 1 -> KeyWord(c, 0)
                    [] i = 2 -> KeyWord(c, 1)
                    [] i = 3 -> LOAD_N(c.nonce, 0, W)
                    [] i = 4 -> LOAD_N(c.nonce, W, W)]

(* ascon_init *)
Initialise ==
  /\ pc = "init"
  /\ x' = AddWord(AddWord(P_A(InitialState(call)), 3, KeyWord(call, 0)),
                  4, KeyWord(call, 1))
  /\ pc' = "ad"
  /\ UNCHANGED <<mem, call, absorbed, pos, ret, entryMem>>

(* Mutant of SeparateDomain: the other end of the word. *)
SeparateDomain_TopBit(s) == AddWord(s, 4, {8 * W - 1})

(* state->x[4] ^= 1 *)
SeparateDomain(s) == AddWord(s, 4, {0})

AbsorbWord(s, i, at, n) == AddWord(s, i, LOAD_N(call.ad, at, n))

AbsorbRate(s, at) ==
  LET s0 == AbsorbWord(s, 0, at, W)
  IN  IF RateWords = 2 THEN AbsorbWord(s0, 1, at + W, W) ELSE s0

(* The padded rest of n bytes, less than a block; a full word of it comes   *)
(* first when the rate is two words.                                        *)
AbsorbRest(s, at, n) ==
  IF RateWords = 2 /\ n >= W
    THEN AbsorbWord(AddWord(AbsorbWord(s, 0, at, W), 1, PAD(n - W)),
                    1, at + W, n - W)
    ELSE AbsorbWord(AddWord(s, 0, PAD(n)), 0, at, n)

(* Mutant of AbsorbBlock: a loop without its braces, which repeats the first *)
(* statement of its body.                                                    *)
AbsorbBlock_Braceless ==
  /\ pc = "ad"
  /\ call.adlen > 0
  /\ call.adlen - absorbed >= Rate
  /\ x' = AbsorbWord(x, 0, absorbed, W)
  /\ UNCHANGED <<mem, call, pc, absorbed, pos, ret, entryMem>>

(* ascon_assoc_data: one turn of the loop over full blocks. *)
AbsorbBlock ==
  /\ pc = "ad"
  /\ call.adlen > 0
  /\ call.adlen - absorbed >= Rate
  /\ x' = P_B(AbsorbRate(x, absorbed))
  /\ absorbed' = absorbed + Rate
  /\ UNCHANGED <<mem, call, pc, pos, ret, entryMem>>

AbsorbLast ==
  /\ pc = "ad"
  /\ call.adlen > 0
  /\ call.adlen - absorbed < Rate
  /\ x' = SeparateDomain(P_B(AbsorbRest(x, absorbed, call.adlen - absorbed)))
  /\ absorbed' = call.adlen
  /\ pc' = "text"
  /\ UNCHANGED <<mem, call, pos, ret, entryMem>>

(* No associated data: no block, not even a padded one. *)
AbsorbNothing ==
  /\ pc = "ad"
  /\ call.adlen = 0
  /\ x' = SeparateDomain(x)
  /\ pc' = "text"
  /\ UNCHANGED <<mem, call, absorbed, pos, ret, entryMem>>

------------------------------------------------------------------------------
(***************************************************************************)
(* The duplex over the text.  s has the state s.x and the memory s.mem; a  *)
(* word's load comes before its store, and the next word's load after it.  *)
(* With n = 0 nothing is loaded or stored, which is the code's last "if".  *)
(***************************************************************************)

EncryptWord(s, i, at, n) ==
  LET y == XOR(s.x[i], LOAD_N(s.mem, call.src + at, n))
  IN  [x   |-> [s.x EXCEPT ![i] = y],
       mem |-> STORE_N(s.mem, call.dst + at, y, n)]

(* Mutant of DecryptWord: the plaintext replaces the state word. *)
DecryptWord_Plaintext(s, i, at, n) ==
  LET y == XOR(s.x[i], LOAD_N(s.mem, call.src + at, n))
  IN  [x   |-> [s.x EXCEPT ![i] = y],
       mem |-> STORE_N(s.mem, call.dst + at, y, n)]

(* The ciphertext word replaces the state word. *)
DecryptWord(s, i, at, n) ==
  LET cx == LOAD_N(s.mem, call.src + at, n)
      y  == XOR(s.x[i], cx)
  IN  [x   |-> [s.x EXCEPT ![i] = XOR(CLEAR_N(y, n), cx)],
       mem |-> STORE_N(s.mem, call.dst + at, y, n)]

Padded(s, i, n) == [x |-> AddWord(s.x, i, PAD(n)), mem |-> s.mem]

(* A full block at offset at. *)
EncryptRate(s, at) ==
  LET s0 == EncryptWord(s, 0, at, W)
  IN  IF RateWords = 2 THEN EncryptWord(s0, 1, at + W, W) ELSE s0

DecryptRate(s, at) ==
  LET s0 == DecryptWord(s, 0, at, W)
  IN  IF RateWords = 2 THEN DecryptWord(s0, 1, at + W, W) ELSE s0

(* What remains at offset at: n bytes, less than a block.  A full word of   *)
(* it comes first when the rate is two words.                               *)
EncryptRest(s, at, n) ==
  IF RateWords = 2 /\ n >= W
    THEN EncryptWord(Padded(EncryptWord(s, 0, at, W), 1, n - W), 1, at + W, n - W)
    ELSE EncryptWord(Padded(s, 0, n), 0, at, n)

DecryptRest(s, at, n) ==
  IF RateWords = 2 /\ n >= W
    THEN DecryptWord(Padded(DecryptWord(s, 0, at, W), 1, n - W), 1, at + W, n - W)
    ELSE DecryptWord(Padded(s, 0, n), 0, at, n)

Here == [x |-> x, mem |-> mem]

(* Mutant of EncryptBlock: the pointers advance by a word, not by a block. *)
EncryptBlock_ByWord ==
  /\ pc = "text" /\ call.op = "encrypt"
  /\ call.len - pos >= Rate
  /\ LET s == EncryptRate(Here, pos) IN x' = P_B(s.x) /\ mem' = s.mem
  /\ pos' = pos + W
  /\ UNCHANGED <<call, pc, absorbed, ret, entryMem>>

(* ascon_encrypt_impl: one turn of the loop over full blocks. *)
EncryptBlock ==
  /\ pc = "text" /\ call.op = "encrypt"
  /\ call.len - pos >= Rate
  /\ LET s == EncryptRate(Here, pos) IN x' = P_B(s.x) /\ mem' = s.mem
  /\ pos' = pos + Rate
  /\ UNCHANGED <<call, pc, absorbed, ret, entryMem>>

EncryptLast ==
  /\ pc = "text" /\ call.op = "encrypt"
  /\ call.len - pos < Rate
  /\ LET s == EncryptRest(Here, pos, call.len - pos) IN x' = s.x /\ mem' = s.mem
  /\ pos' = call.len
  /\ pc' = "tag"
  /\ UNCHANGED <<call, absorbed, ret, entryMem>>

(* Mutant of DecryptBlock: the pointers do not advance. *)
DecryptBlock_Stay ==
  /\ pc = "text" /\ call.op = "decrypt"
  /\ call.len - pos >= Rate
  /\ LET s == DecryptRate(Here, pos) IN x' = P_B(s.x) /\ mem' = s.mem
  /\ UNCHANGED <<call, pc, absorbed, pos, ret, entryMem>>

(* ascon_decrypt_impl, likewise. *)
DecryptBlock ==
  /\ pc = "text" /\ call.op = "decrypt"
  /\ call.len - pos >= Rate
  /\ LET s == DecryptRate(Here, pos) IN x' = P_B(s.x) /\ mem' = s.mem
  /\ pos' = pos + Rate
  /\ UNCHANGED <<call, pc, absorbed, ret, entryMem>>

(* Mutant of DecryptLast: counts a whole block. *)
DecryptLast_WholeBlock ==
  /\ pc = "text" /\ call.op = "decrypt"
  /\ call.len - pos < Rate
  /\ LET s == DecryptRest(Here, pos, call.len - pos) IN x' = s.x /\ mem' = s.mem
  /\ pos' = pos + Rate
  /\ pc' = "tag"
  /\ UNCHANGED <<call, absorbed, ret, entryMem>>

DecryptLast ==
  /\ pc = "text" /\ call.op = "decrypt"
  /\ call.len - pos < Rate
  /\ LET s == DecryptRest(Here, pos, call.len - pos) IN x' = s.x /\ mem' = s.mem
  /\ pos' = call.len
  /\ pc' = "tag"
  /\ UNCHANGED <<call, absorbed, ret, entryMem>>

------------------------------------------------------------------------------

(* ascon_finalize, but for the stores of x[3] and x[4] as the tag. *)
Finalize(s) ==
  LET k0 == KeyWord(call, 0)
      k1 == KeyWord(call, 1)
      y  == P_A(AddWord(AddWord(s, RateWords, k0), RateWords + 1, k1))
  IN  AddWord(AddWord(y, 3, k0), 4, k1)

(* Mutant of StoreTag: the second half lands behind the tag. *)
StoreTag_Behind(bytes, p, s) ==
  STORE_N(STORE_N(bytes, p, s[3], W), p + TagLen, s[4], W)

StoreTag(bytes, p, s) ==
  STORE_N(STORE_N(bytes, p, s[3], W), p + W, s[4], W)

(* ascon_encrypt finalizes into tag_out and returns 0. *)
EncryptTag ==
  /\ pc = "tag" /\ call.op = "encrypt"
  /\ x' = Finalize(x)
  /\ mem' = StoreTag(mem, call.tag, x')
  /\ ret' = 0
  /\ pc' = "returned"
  /\ UNCHANGED <<call, absorbed, pos, entryMem>>

(* A byte as the integer it is. *)
ValueOf(byte) ==
  LET bit == [b \in 0..7 |-> IF b \in byte THEN 1 ELSE 0]
  IN  bit[0] + 2 * bit[1] + 4 * bit[2] + 8 * bit[3]
        + 16 * bit[4] + 32 * bit[5] + 64 * bit[6] + 128 * bit[7]

(* result |= tag[i] ^ t[i] for all i, as the int it is. *)
Differences(bytes, p, t) ==
  ValueOf({b \in 0..7 : \E i \in 0..(TagLen - 1) : b \in XOR(bytes[p + i], t[i])})

(* Mutant of TagVerdict: a shift by a bit too few. *)
TagVerdict_Shift7(bytes, p, t) == (((Differences(bytes, p, t) - 1) \div 128) % 2) - 1

(* (((result - 1) >> 8) & 1) - 1, the shift being arithmetic *)
TagVerdict(bytes, p, t) == (((Differences(bytes, p, t) - 1) \div 256) % 2) - 1

(* ascon_decrypt finalizes into its own t and compares t with the tag. *)
DecryptTag ==
  /\ pc = "tag" /\ call.op = "decrypt"
  /\ x' = Finalize(x)
  /\ LET t == StoreTag([i \in 0..(TagLen - 1) |-> {}], 0, x')
     IN  ret' = TagVerdict(mem, call.tag, t)
  /\ pc' = "returned"
  /\ UNCHANGED <<mem, call, absorbed, pos, entryMem>>

------------------------------------------------------------------------------

(* The caller enters a call, having written its memory as it likes. *)
EnterCall(c, m) ==
  /\ pc = "returned"
  /\ call' = c
  /\ mem' = m
  /\ entryMem' = m
  /\ pc' = "init"
  /\ absorbed' = 0
  /\ pos' = 0
  /\ UNCHANGED <<x, ret>>

CallStep == \/ Initialise
            \/ AbsorbBlock \/ AbsorbLast \/ AbsorbNothing
            \/ EncryptBlock \/ EncryptLast \/ EncryptTag
            \/ DecryptBlock \/ DecryptLast \/ DecryptTag

(* A behaviour begins as the first call is entered. *)
Init ==
  /\ IsCall(call)
  /\ mem \in [Addr -> Byte]
  /\ entryMem = mem
  /\ pc = "init"
  /\ x \in State   \* state_t state; is not initialised
  /\ absorbed = 0 /\ pos = 0
  /\ ret = 0

CallerStep ==
  IsCall(call') /\ mem' \in [Addr -> Byte] /\ EnterCall(call', mem')

Next == CallStep \/ CallerStep

Spec == Init /\ [][Next]_vars

------------------------------------------------------------------------------

TypeOK ==
  /\ mem \in [Addr -> Byte] /\ entryMem \in [Addr -> Byte]
  /\ IsCall(call)
  /\ pc \in {"init", "ad", "text", "tag", "returned"}
  /\ x \in State
  /\ absorbed \in 0..call.adlen
  /\ pos \in 0..call.len
  /\ ret \in {0, -1}

(* A call writes the bytes it was given to write and no other: a partial    *)
(* last word is stored without the bytes behind it, a decryption leaves the *)
(* tag alone, and the tag is not written before the text is.                *)
WritesOnlyOutput ==
  \A a \in Addr :
    mem[a] # entryMem[a] =>
      \/ a \in Region(call.dst, pos)
      \/ /\ call.op = "encrypt" /\ pc = "returned"
         /\ a \in Region(call.tag, TagLen)

(* Text that is still to be processed is what the caller passed, whatever   *)
(* has been written so far: working in place, or down over the input, is    *)
(* safe because each word is loaded before anything is stored beyond it.    *)
UnreadInputIntact ==
  pc # "returned" =>
    \A i \in pos..(call.len - 1) :
      mem[call.src + i] = entryMem[call.src + i]

(* No call is caught in a loop: each step of a call, whatever the lengths   *)
(* and the rate, leaves less of it to do.                                   *)
Remaining ==
  (call.adlen - absorbed) + (call.len - pos)
    + (CASE pc = "init" -> 4 [] pc = "ad" -> 3 [] pc = "text" -> 2
         [] pc = "tag" -> 1 [] pc = "returned" -> 0)

EveryStepAdvances == [][pc # "returned" => Remaining' < Remaining]_vars

==============================================================================
