--------------------------- MODULE Callers_proofs ----------------------------
(***************************************************************************)
(* Facts about the callers, for every scheme: what they and the channel    *)
(* write to memory are bytes, and so is what is recorded of a call.  And   *)
(* walks: the states that a loop goes through, as a function of its turns. *)
(***************************************************************************)
EXTENDS Callers, FiniteSetTheorems, WellFoundedInduction, TLAPS

IsBytes(a) == \E n \in Nat : a \in Array(n)

LEMMA LengthOf ==
  ASSUME NEW n \in Nat, NEW a \in Array(n)
  PROVE  Length(a) = n /\ DOMAIN a = 0..(n - 1)
<1>1. DOMAIN a = 0..(n - 1)
  BY DEF Array
<1>2. Cardinality(0..(n - 1)) = n
  BY FS_Interval
<1> QED BY <1>1, <1>2 DEF Length

LEMMA SliceType ==
  ASSUME NEW D, NEW m \in [D -> Byte], NEW p \in Nat, NEW n \in Nat,
         \A i \in 0..(n - 1) : p + i \in D
  PROVE  Slice(m, p, n) \in Array(n) /\ IsBytes(Slice(m, p, n))
  BY DEF Slice, Array, IsBytes

LEMMA WriteType ==
  ASSUME NEW m \in [Addr -> Byte], NEW p \in Nat, NEW a, IsBytes(a)
  PROVE  Write(m, p, a) \in [Addr -> Byte]
<1>1. PICK n \in Nat : a \in Array(n)
  BY DEF IsBytes
<1>2. Length(a) = n
  BY <1>1, LengthOf
<1>3. ASSUME NEW d \in Addr, d \in Region(p, n) PROVE a[d - p] \in Byte
  BY <1>1, <1>3 DEF Region, Array, Addr
<1> QED BY <1>2, <1>3 DEF Write

------------------------------------------------------------------------------

(* The records of the log: completed calls, with arrays of bytes. *)
Recorded(e) ==
  /\ e = [op |-> e.op, key |-> e.key, nonce |-> e.nonce, ad |-> e.ad, msg |-> e.msg,
          ct |-> e.ct, tag |-> e.tag, ret |-> e.ret]
  /\ IsBytes(e.ad) /\ IsBytes(e.msg) /\ IsBytes(e.ct) /\ IsBytes(e.tag)

LEMMA FlipType ==
  ASSUME NEW a, IsBytes(a), NEW i \in DOMAIN a
  PROVE  IsBytes(Flip(a, i))
<1>1. PICK n \in Nat : a \in Array(n)
  BY DEF IsBytes
<1>2. i \in 0..(n - 1) /\ XOR(a[i], {i % 8}) \in Byte
  BY <1>1 DEF Array, XOR, Byte
<1> QED BY <1>1, <1>2 DEF Flip, Array, IsBytes

LEMMA ChopType ==
  ASSUME NEW a, IsBytes(a), a # <<>>
  PROVE  Length(a) - 1 \in Nat /\ IsBytes(Chop(a)) /\ a[Length(a) - 1] \in Byte
<1>1. PICK n \in Nat : a \in Array(n)
  BY DEF IsBytes
<1>2. Length(a) = n
  BY <1>1, LengthOf
<1>3. n # 0
  <2> SUFFICES ASSUME n = 0 PROVE FALSE
    OBVIOUS
  <2>1. a = [i \in {} |-> a[i]]
    BY <1>1 DEF Array
  <2>2. <<>> = [i \in {} |-> a[i]]
    OBVIOUS
  <2> QED BY <2>1, <2>2
<1>4. n - 1 \in Nat /\ (n - 1) - 1 \in Int
  BY <1>3
<1>5. Slice(a, 0, n - 1) \in Array(n - 1)
  BY <1>1, <1>4, SliceType DEF Array
<1> QED BY <1>1, <1>2, <1>4, <1>5 DEF Chop, IsBytes, Array

LEMMA ExtendType ==
  ASSUME NEW a, IsBytes(a), NEW b \in Byte
  PROVE  IsBytes(Extend(a, b)) /\ IsBytes(Prepend(b, a))
<1>1. PICK n \in Nat : a \in Array(n)
  BY DEF IsBytes
<1>2. Length(a) = n /\ n + 1 \in Nat
  BY <1>1, LengthOf
<1>3. Extend(a, b) \in Array(n + 1) /\ Prepend(b, a) \in Array(n + 1)
  BY <1>1, <1>2 DEF Extend, Prepend, Array
<1> QED BY <1>2, <1>3 DEF IsBytes

(* What the channel makes of a packet are bytes again. *)
LEMMA AlteredType ==
  ASSUME NEW e, Recorded(e), NEW p \in Alterations(e)
  PROVE  IsBytes(p.ct) /\ IsBytes(p.tag)
<1>1. \A v : /\ [e EXCEPT !.tag = v].ct = e.ct /\ [e EXCEPT !.tag = v].tag = v
             /\ [e EXCEPT !.ct = v].ct = v /\ [e EXCEPT !.ct = v].tag = e.tag
             /\ [e EXCEPT !.ad = v].ct = e.ct /\ [e EXCEPT !.ad = v].tag = e.tag
             /\ [e EXCEPT !.nonce = v].ct = e.ct /\ [e EXCEPT !.nonce = v].tag = e.tag
             /\ [e EXCEPT !.key = v].ct = e.ct /\ [e EXCEPT !.key = v].tag = e.tag
  BY DEF Recorded
<1>2. \A u, v : /\ [e EXCEPT !.ad = u, !.ct = v].ct = v
                /\ [e EXCEPT !.ad = u, !.ct = v].tag = e.tag
  BY DEF Recorded
<1>3. {} \in Byte /\ {7} \in Byte
  BY DEF Byte
<1>4. CASE p \in {[e EXCEPT !.tag = Flip(@, i)] : i \in DOMAIN e.tag}
                  \cup {[e EXCEPT !.ct = Flip(@, i)] : i \in DOMAIN e.ct}
                  \cup {[e EXCEPT !.ad = Flip(@, i)] : i \in DOMAIN e.ad}
                  \cup {[e EXCEPT !.nonce = Flip(@, i)] : i \in {0, 2 * W - 1}}
                  \cup {[e EXCEPT !.key = Flip(@, i)] : i \in {0, 2 * W - 1}}
  BY <1>1, <1>4, FlipType DEF Recorded
<1>5. CASE p \in {[e EXCEPT !.ct = Extend(@, b)] : b \in {{}, {7}}}
                  \cup {[e EXCEPT !.ad = Extend(@, b)] : b \in {{}, {7}}}
  BY <1>1, <1>3, <1>5, ExtendType DEF Recorded
<1>6. CASE e.ct # <<>> /\ p = [e EXCEPT !.ct = Chop(@)]
  BY <1>1, <1>6, ChopType DEF Recorded
<1>7. CASE e.ad # <<>> /\ p \in {[e EXCEPT !.ad = Chop(@)],
             [e EXCEPT !.ad = Chop(@),
                       !.ct = Prepend(e.ad[Length(e.ad) - 1], @)]}
  <2>1. CASE p = [e EXCEPT !.ad = Chop(@)]
    BY <1>1, <2>1 DEF Recorded
  <2>2. CASE p = [e EXCEPT !.ad = Chop(@),
                           !.ct = Prepend(e.ad[Length(e.ad) - 1], @)]
    <3>1. IsBytes(Prepend(e.ad[Length(e.ad) - 1], e.ct))
      BY <1>7, ChopType, ExtendType DEF Recorded
    <3>2. p.ct = Prepend(e.ad[Length(e.ad) - 1], e.ct) /\ p.tag = e.tag
      BY <1>2, <2>2
    <3> QED BY <3>1, <3>2 DEF Recorded
  <2> QED BY <1>7, <2>1, <2>2
<1> QED BY <1>4, <1>5, <1>6, <1>7 DEF Alterations

(* The caller enters a call with its arguments in memory. *)
LEMMA EntryType ==
  ASSUME NEW m \in [Addr -> Byte], NEW e, Recorded(e), NEW n \in NextEntries(m, e)
  PROVE  IsCall(n.call) /\ n.mem \in [Addr -> Byte]
<1>1. IsCall(n.call)
  BY DEF NextEntries, Fitting
<1>2. ASSUME NEW p, IsBytes(p.ct), IsBytes(p.tag), NEW layout, n = DecryptEntry(m, p, layout)
      PROVE  n.mem \in [Addr -> Byte]
  <2>1. layout.src \in Nat /\ layout.tag \in Nat
    BY <1>1, <1>2 DEF DecryptEntry, MakeCall, IsCall
  <2>2. n.mem = Write(Write(m, layout.src, p.ct), layout.tag, p.tag)
    BY <1>2 DEF DecryptEntry
  <2> QED BY <1>2, <2>1, <2>2, WriteType
<1>3. ASSUME NEW layout, n = EncryptEntry(m, e, layout)
      PROVE  n.mem \in [Addr -> Byte]
  <2>1. layout.src \in Nat
    BY <1>1, <1>3 DEF EncryptEntry, MakeCall, IsCall
  <2> QED BY <1>3, <2>1, WriteType DEF EncryptEntry, Recorded
<1>4. \/ \E layout : n = EncryptEntry(m, e, layout)
      \/ \E layout : n = DecryptEntry(m, e, layout)
      \/ \E p \in Alterations(e) : \E layout : n = DecryptEntry(m, p, layout)
  BY DEF NextEntries, Fitting
<1> QED BY <1>1, <1>2, <1>3, <1>4, AlteredType DEF Recorded

LEMMA FirstEntryType ==
  ASSUME NEW n \in FirstEntries
  PROVE  IsCall(n.call) /\ n.mem \in [Addr -> Byte] /\ n.call.op = "encrypt"
<1>1. IsCall(n.call)
  BY DEF FirstEntries, Fitting
<1>2. PICK input \in Inputs, layout \in Layouts :
        n = EncryptEntry([a \in Addr |-> {0}], input, layout)
  BY DEF FirstEntries, Fitting
<1>3. layout.src \in Nat /\ n.call.op = "encrypt"
  BY <1>1, <1>2 DEF EncryptEntry, MakeCall, IsCall
<1>4. IsBytes(input.msg)
  <2>1. PICK k \in 0..MemSize : input.msg \in Array(k)
    BY InputsAssumption
  <2> QED BY <2>1, MemAssumption DEF IsBytes
<1>5. [a \in Addr |-> {0}] \in [Addr -> Byte]
  BY DEF Byte
<1> QED BY <1>1, <1>2, <1>3, <1>4, <1>5, WriteType DEF EncryptEntry

------------------------------------------------------------------------------
(* The record of a call. *)

LEMMA RecordedCall ==
  ASSUME NEW c, IsCall(c), NEW b \in [Addr -> Byte], NEW m \in [Addr -> Byte], NEW r
  PROVE  Recorded(Transaction(c, b, m, r))
<1> DEFINE t == Transaction(c, b, m, r)
<1>1. /\ c.src \in Nat /\ c.dst \in Nat /\ c.tag \in Nat /\ c.len \in Nat
      /\ TagLen \in Nat /\ IsBytes(c.ad)
  BY WAssumption DEF IsCall, TagLen, IsBytes
<1>2. /\ \A i \in 0..(c.len - 1) : c.src + i \in Addr /\ c.dst + i \in Addr
      /\ \A i \in 0..(TagLen - 1) : c.tag + i \in Addr
  <2>1. /\ c.src + c.len <= MemSize /\ c.dst + c.len <= MemSize
        /\ c.tag + TagLen <= MemSize
    BY DEF IsCall
  <2>2. \A p, n \in Nat : p + n <= MemSize => \A i \in 0..(n - 1) : p + i \in Addr
    BY MemAssumption DEF Addr
  <2> QED BY <1>1, <2>1, <2>2
<1>3. /\ IsBytes(Slice(b, c.src, c.len)) /\ IsBytes(Slice(m, c.dst, c.len))
      /\ IsBytes(Slice(b, c.tag, TagLen)) /\ IsBytes(Slice(m, c.tag, TagLen))
  BY <1>1, <1>2, SliceType
<1>4. t = [op |-> t.op, key |-> t.key, nonce |-> t.nonce, ad |-> t.ad, msg |-> t.msg,
           ct |-> t.ct, tag |-> t.tag, ret |-> t.ret]
  BY DEF Transaction
<1>5. /\ t.ad = c.ad
      /\ t.msg \in {Slice(b, c.src, c.len), Slice(m, c.dst, c.len)}
      /\ t.ct \in {Slice(b, c.src, c.len), Slice(m, c.dst, c.len)}
      /\ t.tag \in {Slice(b, c.tag, TagLen), Slice(m, c.tag, TagLen)}
  BY DEF Transaction
<1> HIDE DEF t
<1> QED BY <1>1, <1>3, <1>4, <1>5 DEF Recorded, t

------------------------------------------------------------------------------
(* What a loop computes: where it gets from s in i turns, g being a turn.   *)

(* Induction, from the order of the natural numbers having no infinite      *)
(* descent.                                                                 *)
LEMMA Induction ==
  ASSUME NEW S, 0 \in S, \A n \in Nat : n \in S => n + 1 \in S
  PROVE  \A n \in Nat : n \in S
<1> DEFINE T == Nat \ S
           R == OpToRel(<, Nat)
<1>1. SUFFICES ASSUME T # {} PROVE FALSE
  OBVIOUS
<1>2. T \subseteq Nat /\ IsWellFoundedOn(R, Nat)
  BY NatLessThanWellFounded
<1>3. \A y, n \in Nat : y < n => <<y, n>> \in R
  BY DEF OpToRel
<1> HIDE DEF T, R
<1>4. PICK n \in T : \A y \in T : ~ (<<y, n>> \in R)
  BY <1>1, <1>2, WFMin
<1>5. n \in Nat /\ n # 0 /\ n - 1 \in Nat /\ (n - 1) + 1 = n /\ n - 1 < n
  BY <1>2, <1>4 DEF T
<1>6. n - 1 \in T
  BY <1>4, <1>5 DEF T
<1> QED BY <1>3, <1>4, <1>5, <1>6

IsWalk(g, s, n, t) == t[0] = s /\ \A i \in 0..(n - 1) : t[i + 1] = g[i][t[i]]
Walk(g, s) == CHOOSE t : t[0] = s /\ \A i \in Nat : t[i + 1] = g[i][t[i]]

LEMMA WalkIs ==
  ASSUME NEW g, NEW s
  PROVE  Walk(g, s)[0] = s /\ \A i \in Nat : Walk(g, s)[i + 1] = g[i][Walk(g, s)[i]]
<1>1. ASSUME NEW n \in Nat, NEW t, IsWalk(g, s, n, t), NEW m \in Nat, NEW u, IsWalk(g, s, m, u)
      PROVE  \A i \in Nat : i <= n /\ i <= m => t[i] = u[i]
  <2> DEFINE S == {i \in Nat : i <= n /\ i <= m => t[i] = u[i]}
  <2>1. 0 \in S
    BY <1>1 DEF IsWalk
  <2>2. \A i \in Nat : i \in S => i + 1 \in S
    BY <1>1 DEF IsWalk
  <2> HIDE DEF S
  <2>3. \A i \in Nat : i \in S
    BY <2>1, <2>2, Induction
  <2> QED BY <2>3 DEF S
<1>2. \A n \in Nat : \E t : IsWalk(g, s, n, t)
  <2> DEFINE S == {n \in Nat : \E t : IsWalk(g, s, n, t)}
  <2>1. 0 \in S
    <3>1. IsWalk(g, s, 0, [i \in Nat |-> s])
      BY DEF IsWalk
    <3> QED BY <3>1
  <2>2. ASSUME NEW n \in Nat, n \in S PROVE n + 1 \in S
    <3>1. PICK t : IsWalk(g, s, n, t)
      BY <2>2
    <3> DEFINE u == [i \in 0..(n + 1) |-> IF i = n + 1 THEN g[n][t[n]] ELSE t[i]]
    <3>2. u[0] = s
      BY <3>1 DEF IsWalk
    <3>3. ASSUME NEW i \in 0..((n + 1) - 1) PROVE u[i + 1] = g[i][u[i]]
      <4>1. u[i] = t[i] /\ u[i + 1] = IF i = n THEN g[n][t[n]] ELSE t[i + 1]
        OBVIOUS
      <4> QED BY <3>1, <4>1 DEF IsWalk
    <3> HIDE DEF u
    <3>4. IsWalk(g, s, n + 1, u)
      BY <3>2, <3>3 DEF IsWalk
    <3> QED BY <3>4
  <2> HIDE DEF S
  <2>3. \A n \in Nat : n \in S
    BY <2>1, <2>2, Induction
  <2> QED BY <2>3 DEF S
<1> DEFINE t(n) == CHOOSE t : IsWalk(g, s, n, t)
           u == [n \in Nat |-> t(n)[n]]
<1>3. \A n \in Nat : IsWalk(g, s, n, t(n))
  BY <1>2
<1> HIDE DEF t
<1>4. u[0] = s
  BY <1>3 DEF IsWalk
<1>5. ASSUME NEW i \in Nat PROVE u[i + 1] = g[i][u[i]]
  <2>1. IsWalk(g, s, i, t(i)) /\ IsWalk(g, s, i + 1, t(i + 1)) /\ i + 1 \in Nat
    BY <1>3
  <2>2. t(i + 1)[i] = t(i)[i]
    BY <1>1, <2>1
  <2>3. t(i + 1)[i + 1] = g[i][t(i + 1)[i]]
    BY <2>1 DEF IsWalk
  <2> QED BY <2>1, <2>2, <2>3
<1> HIDE DEF u
<1>6. \E v : v[0] = s /\ \A i \in Nat : v[i + 1] = g[i][v[i]]
  BY <1>4, <1>5
<1> QED BY <1>6, Zenon DEF Walk

LEMMA WalkType ==
  ASSUME NEW S, NEW s \in S, NEW g, \A i \in Nat : \A z \in S : g[i][z] \in S
  PROVE  \A i \in Nat : Walk(g, s)[i] \in S
<1> DEFINE T == {i \in Nat : Walk(g, s)[i] \in S}
<1>1. 0 \in T /\ \A i \in Nat : i \in T => i + 1 \in T
  BY WalkIs
<1> HIDE DEF T
<1>2. \A i \in Nat : i \in T
  BY <1>1, Induction
<1> QED BY <1>2 DEF T

==============================================================================
