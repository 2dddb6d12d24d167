------------------------------- MODULE Callers -------------------------------
(***************************************************************************)
(* The parties around an authenticated encryption scheme: callers encrypt  *)
(* messages, the packets travel, arrive intact or altered, and are         *)
(* decrypted, all in one memory whose old contents stay in place.          *)
(***************************************************************************)
EXTENDS AeadCalls, FiniteSets

CONSTANTS Inputs,    \* [key, nonce, ad, msg]: what is encrypted
          Layouts,   \* [src, dst, tag]: where the buffers of a call lie
          MaxCalls   \* bound: calls of a behaviour

(* Messages are bytes, as many as memory can hold. *)
ASSUME InputsAssumption ==
  \A input \in Inputs : \E n \in 0..MemSize : input.msg \in Array(n)

Length(a) == Cardinality(DOMAIN a)
Slice(bytes, p, n) == [i \in 0..(n - 1) |-> bytes[p + i]]

(* Write the array a to p. *)
Write(m, p, a) ==
  [d \in DOMAIN m |-> IF d \in Region(p, Length(a)) THEN a[d - p] ELSE m[d]]

InPlace(layout) == layout.src = layout.dst

------------------------------------------------------------------------------
(* What the channel may do to a packet, one alteration at a time. *)

Flip(a, i) == [a EXCEPT ![i] = XOR(@, {i % 8})]
Chop(a)    == Slice(a, 0, Length(a) - 1)
Extend(a, b) == [i \in 0..Length(a) |-> IF i = Length(a) THEN b ELSE a[i]]
Prepend(b, a) == [i \in 0..Length(a) |-> IF i = 0 THEN b ELSE a[i - 1]]

Alterations(p) ==
  {[p EXCEPT !.tag = Flip(@, i)] : i \in DOMAIN p.tag}
    \cup {[p EXCEPT !.ct = Flip(@, i)] : i \in DOMAIN p.ct}
    \cup {[p EXCEPT !.ad = Flip(@, i)] : i \in DOMAIN p.ad}
    \cup {[p EXCEPT !.nonce = Flip(@, i)] : i \in {0, 2 * W - 1}}
    \cup {[p EXCEPT !.key = Flip(@, i)] : i \in {0, 2 * W - 1}}
    \cup {[p EXCEPT !.ct = Extend(@, b)] : b \in {{}, {7}}}
    \cup {[p EXCEPT !.ad = Extend(@, b)] : b \in {{}, {7}}}
    \cup (IF p.ct = <<>> THEN {} ELSE {[p EXCEPT !.ct = Chop(@)]})
    \cup (IF p.ad = <<>> THEN {} ELSE
            {[p EXCEPT !.ad = Chop(@)],
             [p EXCEPT !.ad = Chop(@),
                       !.ct = Prepend(p.ad[Length(p.ad) - 1], @)]})

------------------------------------------------------------------------------
(* An entry is a call with the memory it is entered with, which the caller  *)
(* has written its arguments to.                                            *)

MakeCall(op, context, len, layout) ==
  [op |-> op, key |-> context.key, nonce |-> context.nonce,
   ad |-> context.ad, adlen |-> Length(context.ad), len |-> len,
   src |-> layout.src, dst |-> layout.dst, tag |-> layout.tag]

EncryptEntry(m, input, layout) ==
  [call |-> MakeCall("encrypt", input, Length(input.msg), layout),
   mem  |-> Write(m, layout.src, input.msg)]

DecryptEntry(m, packet, layout) ==
  [call |-> MakeCall("decrypt", packet, Length(packet.ct), layout),
   mem  |-> Write(Write(m, layout.src, packet.ct), layout.tag, packet.tag)]

(* Only what fits the layouts' buffers is delivered. *)
Fitting(entries) == {n \in entries : IsCall(n.call)}

FirstEntries ==
  Fitting({EncryptEntry([a \in Addr |-> {0}], input, layout) :
             input \in Inputs, layout \in Layouts})

(* After the encryption e: the same input again, its packet intact, or the  *)
(* packet altered.  Where the buffers lie matters to the first two; altered *)
(* packets are decrypted in place only, to bound the runs.                  *)
NextEntries(m, e) ==
  Fitting(
    {EncryptEntry(m, e, layout) : layout \in Layouts}
      \cup {DecryptEntry(m, e, layout) : layout \in Layouts}
      \cup {DecryptEntry(m, packet, layout) :
              packet \in Alterations(e), layout \in {l \in Layouts : InPlace(l)}})

(* The transaction that call c amounts to when it returns r: its arguments  *)
(* as they were in the memory on entry, its results as they are in the      *)
(* memory after.                                                            *)
Transaction(c, before, after, r) ==
  LET in  == Slice(before, c.src, c.len)
      out == Slice(after, c.dst, c.len)
      enc == c.op = "encrypt"
  IN  [op |-> c.op, key |-> c.key, nonce |-> c.nonce, ad |-> c.ad,
       msg |-> IF enc THEN in ELSE out, ct |-> IF enc THEN out ELSE in,
       tag |-> Slice(IF enc THEN after ELSE before, c.tag, TagLen), ret |-> r]

==============================================================================
