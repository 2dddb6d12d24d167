----------------------------- MODULE MCAsconKat -----------------------------
(***************************************************************************)
(* AeadSession with the code's words of eight bytes, on the repository's   *)
(* known answers.                                                          *)
(***************************************************************************)
EXTENDS AsconBuilds, AsconVectors

Counting(n) == [i \in 0..(n - 1) |-> ByteOf(i)]
ByteArray(v) == [i \in 0..(Cardinality(DOMAIN v) - 1) |-> ByteOf(v[i + 1])]

Vectors == IF RateWords = 1 THEN Vectors128 ELSE Vectors128a

KatInputs ==
  {[key |-> Counting(16), nonce |-> Counting(16),
    ad |-> Counting(v.adlen), msg |-> Counting(v.msglen)] : v \in Vectors}

(* Apart, one byte down, and in the form ciphertext followed by tag. *)
KatLayouts ==
  {[src |-> 0, dst |-> 33, tag |-> 66], [src |-> 1, dst |-> 0, tag |-> 33]}

(* What test_ascon_128.c and test_ascon_128a.c assert of each vector:       *)
(* encryption yields its ciphertext and tag, and decryption of those        *)
(* returns 0 and its message, wherever the buffers lie.                     *)
KnownAnswers ==
  last.op # "none" =>
    /\ last.ret = 0
    /\ \E v \in Vectors : /\ Length(last.ad) = v.adlen
                          /\ last.msg = Counting(v.msglen)
                          /\ last.ct = ByteArray(v.ct)
                          /\ last.tag = ByteArray(v.tag)

==============================================================================
