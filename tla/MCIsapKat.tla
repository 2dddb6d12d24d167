------------------------------ MODULE MCIsapKat ------------------------------
(***************************************************************************)
(* IsapSession with the code's words of eight bytes, on the repository's   *)
(* known answers.                                                          *)
(***************************************************************************)
EXTENDS IsapSession, IsapVectors

Counting(n) == [i \in 0..(n - 1) |-> ByteOf(i)]
ByteArray(v) == [i \in 0..(Cardinality(DOMAIN v) - 1) |-> ByteOf(v[i + 1])]

Vectors == IF Variant = "128" THEN Vectors128 ELSE Vectors128a

KatInputs ==
  {[key |-> Counting(16), nonce |-> Counting(16),
    ad |-> Counting(v.adlen), msg |-> Counting(v.msglen)] : v \in Vectors}

(* One byte down over the input; and in place at the end of the memory,     *)
(* where one byte of text has room: packets that short also arrive altered. *)
KatLayouts ==
  {[src |-> 1, dst |-> 0, tag |-> 18],
   [src |-> MemSize - 1, dst |-> MemSize - 1, tag |-> 0]}

(* Transaction t is vector v: the same inputs, and the same answers.        *)
Agrees(t, v) ==
  /\ t.key = Counting(16) /\ t.nonce = Counting(16) /\ t.ad = Counting(v.adlen)
  /\ t.msg = Counting(v.msglen)
  /\ t.ct = ByteArray(v.ct) /\ t.tag = ByteArray(v.tag)

(* What test_isapa_128.c and test_isapa_128a.c assert of each vector, in    *)
(* the build that runs them: encryption yields its ciphertext and tag, and  *)
(* decryption returns 0 and its message for those, and for nothing else.    *)
KnownAnswers ==
  /\ last.op = "encrypt" => last.ret = 0
  /\ last.op # "none" => (last.ret = 0 <=> \E v \in Vectors : Agrees(last, v))

==============================================================================
