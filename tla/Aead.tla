-------------------------------- MODULE Aead --------------------------------
(***************************************************************************)
(* What an authenticated encryption scheme promises its callers, as an     *)
(* ideal functionality: a log of what was encrypted, and decryption that   *)
(* opens a packet exactly when the log holds it.  The interface is that of *)
(* src/ascon/include/ascon/ascon.h and src/isap/include/isap/isap.h.       *)
(*                                                                         *)
(* A transaction is a record with the call's op, its key, nonce and ad,    *)
(* the message msg, the ciphertext ct, the tag, and the value ret the call *)
(* returned; a behaviour is a sequence of transactions.                    *)
(***************************************************************************)
EXTENDS Integers

VARIABLES log,   \* the encryptions so far
          last   \* the latest transaction

Context(t) == <<t.key, t.nonce, t.ad>>
Packet(t)  == <<Context(t), t.ct, t.tag>>

(* Encryption cannot fail, keeps lengths, is a function of its arguments,   *)
(* and never makes one packet of two messages.                              *)
Encryption(t) ==
  /\ t.op = "encrypt"
  /\ t.ret = 0
  /\ DOMAIN t.ct = DOMAIN t.msg
  /\ \A e \in log : Context(e) = Context(t) =>
       ((e.msg = t.msg) <=> (e.ct = t.ct /\ e.tag = t.tag))

(* Decryption returns 0 and the message of a logged packet, and refuses     *)
(* every other packet.                                                      *)
Decryption(t) ==
  /\ t.op = "decrypt"
  /\ \/ \E e \in log : Packet(e) = Packet(t) /\ t.ret = 0 /\ t.msg = e.msg
     \/ (\A e \in log : Packet(e) # Packet(t)) /\ t.ret = -1

Init == log = {} /\ last = [op |-> "none"]

Next == \/ Encryption(last') /\ log' = log \cup {last'}
        \/ Decryption(last') /\ log' = log

Spec == Init /\ [][Next]_<<log, last>>

==============================================================================
