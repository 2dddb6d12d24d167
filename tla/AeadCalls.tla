------------------------------ MODULE AeadCalls ------------------------------
(***************************************************************************)
(* A call of encryption or decryption, which src/ascon/include/ascon.h and *)
(* src/isap/include/isap.h declare alike, in the memory of its caller.     *)
(*                                                                         *)
(* Arguments are values where the code only reads a buffer that it never   *)
(* writes (key, nonce, associated data), and indices into the memory where *)
(* the order of reads and writes matters (text in, text out, tag).         *)
(***************************************************************************)
EXTENDS AsconWord

CONSTANT MemSize   \* bytes of the caller's memory

ASSUME MemAssumption == MemSize \in Nat

TagLen == 2 * W
Addr == 0..(MemSize - 1)

(* The n addresses from p on. *)
Region(p, n) == p..(p + n - 1)

(***************************************************************************)
(* What a caller owes: buffers inside the memory; an output that starts at *)
(* or below its input, in place included, or beyond its end; a tag apart   *)
(* from the output text; key, nonce and associated data elsewhere.  The    *)
(* headers ask for nothing and the code checks nothing.                    *)
(***************************************************************************)
IsCall(c) ==
  /\ c.op \in {"encrypt", "decrypt"}
  /\ c.key \in Array(2 * W) /\ c.nonce \in Array(2 * W)
  /\ c.adlen \in Nat /\ c.ad \in Array(c.adlen)
  /\ c.src \in Nat /\ c.dst \in Nat /\ c.tag \in Nat /\ c.len \in Nat
  /\ c.src + c.len <= MemSize /\ c.dst + c.len <= MemSize
  /\ c.tag + TagLen <= MemSize
  /\ c.dst <= c.src \/ c.src + c.len <= c.dst
  /\ c.tag + TagLen <= c.dst \/ c.dst + c.len <= c.tag

==============================================================================
