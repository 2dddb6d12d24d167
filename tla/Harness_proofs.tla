---------------------------- MODULE Harness_proofs ----------------------------
(***************************************************************************)
(* Theorems about Harness, for any executables, any RAM and counters of    *)
(* any size.                                                               *)
(***************************************************************************)
EXTENDS Harness, FiniteSetTheorems, TLAPS

------------------------------------------------------------------------------
(***************************************************************************)
(* What every step of a program that calls the functions of CycleCounter   *)
(* preserves, for halves of any number of values and any number of         *)
(* counters.                                                               *)
(***************************************************************************)

(* Arithmetic of halves. *)
LEMMA HalvesOf ==
  ASSUME NEW n \in 0..(R * R - 1)
  PROVE  /\ High(n) \in 0..(R - 1) /\ Low(n) \in 0..(R - 1)
         /\ n = R * High(n) + Low(n)
<1>1. R \in Nat /\ R > 1
  BY CycleCounterAssumption
<1>2. n \in Nat /\ n < R * R
  BY <1>1, SMT
<1>3. n \div R \in Nat /\ n % R \in 0..(R - 1) /\ n = R * (n \div R) + (n % R)
  BY <1>1, <1>2, SMT
<1>4. n \div R < R
  BY <1>1, <1>2, <1>3, SMT
<1> QED BY <1>1, <1>3, <1>4, SMT DEF High, Low

LEMMA OfHalves ==
  ASSUME NEW h \in 0..(R - 1), NEW l \in 0..(R - 1)
  PROVE  h * R + l \in 0..(R * R - 1) /\ Low(h * R + l) = l
<1>1. R \in Nat /\ R > 1
  BY CycleCounterAssumption
<1>2. h * R <= (R - 1) * R /\ h * R \in Nat
  BY <1>1, SMT
<1>3. (R - 1) * R = R * R - R
  BY <1>1, SMT
<1>4. h * R + l \in 0..(R * R - 1)
  BY <1>1, <1>2, <1>3, SMT
<1> DEFINE n == h * R + l
           q == n \div R
<1>5. n \in Nat /\ q \in Nat /\ n % R \in 0..(R - 1) /\ n = R * q + (n % R)
  BY <1>1, <1>2, SMT
<1>6. (h - q) * R = (n % R) - l
  BY <1>1, <1>5, SMT
<1>7. h - q = 0
  <2>1. h - q >= 1 => (h - q) * R >= R
    BY <1>1, <1>5, SMT
  <2>2. h - q <= -1 => (h - q) * R <= -R
    BY <1>1, <1>5, SMT
  <2> HIDE DEF q, n
  <2> QED BY <2>1, <2>2, <1>1, <1>5, <1>6, SMT
<1>8. n % R = l
  BY <1>1, <1>5, <1>6, <1>7, SMT
<1> QED BY <1>4, <1>8 DEF Low

LEMMA Wraps ==
  ASSUME NEW n \in 0..(R * R - 1)
  PROVE  (n + 1) % (R * R) \in 0..(R * R - 1)
<1>1. R * R \in Nat /\ R * R > 0
  BY CycleCounterAssumption, SMT
<1> QED BY <1>1, SMT

(* A low half below its largest value counts without a carry. *)
LEMMA CountsLow ==
  ASSUME NEW n \in 0..(R * R - 1), Low(n) < R - 1
  PROVE  (n + 1) % (R * R) = n + 1 /\ Low(n + 1) = Low(n) + 1
<1>1. R \in Nat /\ R > 1 /\ R * R \in Nat /\ R * R > 0
  BY CycleCounterAssumption, SMT
<1>2. High(n) \in 0..(R - 1) /\ Low(n) \in 0..(R - 1) /\ n = R * High(n) + Low(n)
  BY HalvesOf
<1>3. Low(n) + 1 \in 0..(R - 1)
  BY <1>1, <1>2, SMT
<1>4. n + 1 = High(n) * R + (Low(n) + 1)
  BY <1>1, <1>2, SMT
<1>5. n + 1 \in 0..(R * R - 1) /\ Low(n + 1) = Low(n) + 1
  BY <1>2, <1>3, <1>4, OfHalves
<1>6. (n + 1) % (R * R) = n + 1
  BY <1>1, <1>5, SMT
<1> QED BY <1>5, <1>6

LEMMA SmallIsLow ==
  ASSUME NEW n \in 0..(R - 1)
  PROVE  n \in 0..(R * R - 1) /\ Low(n) = n
<1>1. R \in Nat /\ R > 1
  BY CycleCounterAssumption
<1>2. 0 \in 0..(R - 1) /\ 0 * R + n = n
  BY <1>1, SMT
<1> QED BY <1>2, OfHalves

------------------------------------------------------------------------------
(* What a program that calls the functions does to the counters. *)

Untouched == UNCHANGED <<counter, inhibited, since>>

Called ==
  /\ \E op \in {"get_cycles", "pcount_reset"} : CallCounters(op)
  /\ UNCHANGED <<counter, inhibited>>
  /\ since' \in {since, [c \in Counters |-> 0]}

Restarted ==
  /\ counter' = [c \in Counters |-> 0] /\ since' = counter'
  /\ inhibited' = FALSE /\ call' = Idle

CounterStep ==
  \/ \E counted \in SUBSET Counters : Tick(counted)
  \/ ReadHalf \/ ReadWhole \/ ClearHalf \/ Called
  \/ Return /\ Untouched
  \/ \E enable \in BOOLEAN : PcountEnable(enable)
  \/ Restarted

Whole == 0..(R * R - 1)
Half == 0..(R - 1)

CallType ==
  [op : {"none", "get_cycles", "pcount_reset"}, at : Nat, result : Whole,
   first : Whole, last : Whole, spent : Half]

CountersType ==
  /\ counter \in [Counters -> Whole] /\ inhibited \in BOOLEAN
  /\ since \in [Counters -> 0..MaxEvents]
  /\ call \in CallType

(* The first instruction of get_cycles has found a low half. *)
ReadsHalves ==
  call.op = "get_cycles" => /\ call.at = 1 => call.result = 0
                            /\ call.at = 2 => call.result \in 0..(R - 1)

(* A counter whose low half is cleared has since counted too little for a   *)
(* carry; when its high half is cleared too it holds just those events.     *)
ClearsHalves ==
  call.op = "pcount_reset" =>
    \A i \in DOMAIN Order :
      LET c == Order[i]
      IN  /\ i < call.at => Low(counter[c]) = since[c] /\ since[c] <= call.spent
          /\ i + Len(Order) < call.at => counter[c] = since[c]

CounterInv == CountersType /\ ReadsHalves /\ ClearsHalves

LEMMA Ranges ==
  /\ R \in Nat /\ R > 1 /\ R * R \in Nat /\ 0 \in 0..(R * R - 1)
  /\ 0 \in 0..(R - 1) /\ MaxEvents \in 0..(R * R - 1) /\ 0 \in 0..MaxEvents
  /\ Len(Order) \in Nat /\ DOMAIN Order = 1..Len(Order)
  /\ \A i \in DOMAIN Order : Order[i] \in Counters
  /\ \A c \in Counters : \E i \in DOMAIN Order : c = Order[i]
<1>1. R \in Nat /\ R > 1 /\ R * R \in Nat /\ R * R > 0
  BY CycleCounterAssumption, SMT
<1>2. MaxEvents \in 0..(R * R - 1) /\ Order \in Seq(Counters)
  BY CycleCounterAssumption
<1>3. Len(Order) \in Nat /\ DOMAIN Order = 1..Len(Order)
  BY <1>2
<1> QED BY <1>1, <1>2, <1>3 DEF Counters

LEMMA IdleCounters == Idle \in CallType /\ Idle.op = "none"
  BY Ranges DEF Idle, CallType, Whole, Half

LEMMA ZeroCounters ==
  /\ [c \in Counters |-> 0] \in [Counters -> Whole]
  /\ [c \in Counters |-> 0] \in [Counters -> 0..MaxEvents]
  BY Ranges DEF Whole

LEMMA TickKeeps ==
  ASSUME CounterInv, NEW counted \in SUBSET Counters, Tick(counted)
  PROVE  CounterInv'
<1>1. /\ counter \in [Counters -> Whole] /\ since \in [Counters -> 0..MaxEvents]
      /\ call \in CallType /\ inhibited \in BOOLEAN /\ MaxEvents \in Nat
      /\ \A c \in counted : since[c] < MaxEvents
      /\ call.op # "none" => call.spent < R - 1
      /\ counter' = [c \in Counters |-> IF c \in counted THEN (counter[c] + 1) % (R * R)
                                                         ELSE counter[c]]
      /\ since' = [c \in Counters |-> IF c \in counted THEN since[c] + 1 ELSE since[c]]
      /\ call' = IF call.op = "none" THEN call ELSE [call EXCEPT !.spent = @ + 1]
      /\ inhibited' = inhibited
  BY Ranges DEF CounterInv, CountersType, Tick
<1>2. /\ call' \in CallType /\ call'.op = call.op /\ call'.at = call.at
      /\ call'.result = call.result
      /\ call.op # "none" => call'.spent = call.spent + 1
  <2>1. CASE call.op = "none"
    BY <1>1, <2>1
  <2>2. CASE call.op # "none"
    <3>1. call.spent \in 0..(R - 1) /\ call.spent < R - 1
      BY <1>1, <2>2 DEF CallType, Half
    <3>2. call.spent + 1 \in 0..(R - 1)
      BY <3>1, Ranges
    <3>3. call' = [call EXCEPT !.spent = @ + 1]
      BY <1>1, <2>2
    <3>4. call.spent + 1 \in Half
      BY <3>2 DEF Half
    <3> QED BY <1>1, <3>3, <3>4 DEF CallType
  <2> QED BY <2>1, <2>2
<1>3. \A c \in Counters : (counter[c] + 1) % (R * R) \in Whole
  BY <1>1, Wraps DEF Whole
<1>4. CountersType'
  BY <1>1, <1>2, <1>3 DEF CountersType
<1>5. ReadsHalves'
  BY <1>2 DEF CounterInv, ReadsHalves
<1>6. ASSUME call.op = "pcount_reset", NEW i \in DOMAIN Order
      PROVE  LET c == Order[i]
             IN  /\ i < call.at => Low(counter'[c]) = since'[c] /\ since'[c] <= call'.spent
                 /\ i + Len(Order) < call.at => counter'[c] = since'[c]
  <2> DEFINE c == Order[i]
  <2>1. /\ c \in Counters /\ counter[c] \in Whole /\ since[c] \in 0..MaxEvents
        /\ i < call.at => Low(counter[c]) = since[c] /\ since[c] <= call.spent
        /\ i + Len(Order) < call.at => counter[c] = since[c]
        /\ i \in Nat /\ Len(Order) \in Nat /\ call.at \in Nat
        /\ call.spent \in 0..(R - 1) /\ call.spent < R - 1
    BY <1>1, <1>6, Ranges DEF CounterInv, ClearsHalves, CallType, Half
  <2>2. /\ counter'[c] = IF c \in counted THEN (counter[c] + 1) % (R * R) ELSE counter[c]
        /\ since'[c] = IF c \in counted THEN since[c] + 1 ELSE since[c]
    BY <1>1, <2>1
  <2>3. Low(counter[c]) < R - 1 =>
          (counter[c] + 1) % (R * R) = counter[c] + 1 /\ Low(counter[c] + 1) = Low(counter[c]) + 1
    BY <2>1, CountsLow DEF Whole
  <2> HIDE DEF c
  <2>4. i < call.at => Low(counter'[c]) = since'[c] /\ since'[c] <= call'.spent
    BY <2>1, <2>2, <2>3, <1>2, <1>6, Ranges
  <2>5. i + Len(Order) < call.at => counter'[c] = since'[c]
    BY <2>1, <2>2, <2>3, Ranges, SMTT(20)
  <2> QED BY <2>4, <2>5 DEF c
<1>7. ClearsHalves'
  BY <1>2, <1>6 DEF ClearsHalves
<1> QED BY <1>4, <1>5, <1>7 DEF CounterInv

LEMMA ReadKeeps ==
  ASSUME CounterInv, ReadHalf \/ ReadWhole
  PROVE  CounterInv'
<1> DEFINE now == counter["mcycle"]
<1>1. /\ now \in Whole /\ call \in CallType /\ call.op = "get_cycles"
      /\ Low(now) \in 0..(R - 1) /\ High(now) \in 0..(R - 1)
  <2>1. "mcycle" \in Counters
    BY CycleCounterAssumption
  <2>2. now \in Whole
    BY <2>1 DEF CounterInv, CountersType
  <2> QED BY <2>2, HalvesOf DEF CounterInv, CountersType, ReadHalf, ReadWhole, Whole
<1>2. UNCHANGED <<counter, inhibited, since>>
  BY DEF ReadHalf, ReadWhole
<1>3. call' \in CallType /\ call'.op = "get_cycles" /\ ReadsHalves'
  <2>1. CASE ReadWhole
    <3>1. call' = [call EXCEPT !.result = now, !.first = now, !.last = now, !.at = 3]
      BY <2>1 DEF ReadWhole
    <3> HIDE DEF now
    <3>2. /\ call' \in CallType /\ call'.op = call.op
          /\ call'.at = 3 /\ call'.result = now
      <4> DEFINE old == call
                 new == call'
                 at == 3
      <4>1. old \in CallType /\ at \in Nat
        BY <1>1
      <4>2. new = [old EXCEPT !.result = now, !.first = now, !.last = now, !.at = at]
        BY <3>1
      <4> HIDE DEF old, new, at
      <4>3. new \in CallType /\ new.op = old.op /\ new.at = at /\ new.result = now
        BY <1>1, <4>1, <4>2 DEF CallType
      <4> QED BY <4>3 DEF old, new, at
    <3> QED BY <1>1, <3>2 DEF ReadsHalves
  <2>2. CASE ReadHalf
    <3> DEFINE part == IF Reads[call.at] = "low" THEN Low(now) ELSE High(now) * R
               result == call.result + part
               first == IF call.at = 1 THEN now ELSE call.first
               at == call.at + 1
               old == call
               new == call'
    <3>1. call.at \in {1, 2}
      BY <2>2 DEF ReadHalf, Reads
    <3>2. new = [old EXCEPT !.result = result, !.first = first, !.last = now, !.at = at]
      BY <2>2 DEF ReadHalf
    <3>3. /\ call.result \in 0..(R - 1)
          /\ call.at = 1 => part = Low(now) /\ call.result = 0
          /\ call.at = 2 => part = High(now) * R
      BY <1>1, <3>1, Ranges DEF CounterInv, ReadsHalves, Reads
    <3>4. Low(now) \in Whole /\ High(now) * R + call.result \in Whole
      BY <1>1, <3>3, SmallIsLow, OfHalves DEF Whole
    <3>5. call.first \in Whole /\ old \in CallType
      BY <1>1 DEF CallType
    <3> HIDE DEF now, part
    <3>6. result \in Whole /\ (call.at = 1 => result \in 0..(R - 1))
      <4>1. CASE call.at = 1
        <5>1. result = Low(now)
          BY <4>1, <1>1, <3>3, Ranges
        <5> QED BY <1>1, <3>4, <5>1
      <4>2. CASE call.at = 2
        <5>1. result = High(now) * R + call.result
          BY <4>2, <1>1, <3>3, Ranges
        <5> QED BY <3>4, <5>1, <4>2
      <4> QED BY <3>1, <4>1, <4>2
    <3>7. at \in {2, 3} /\ at \in Nat /\ (at = 2 => call.at = 1)
      BY <3>1
    <3>8. first \in Whole
      BY <1>1, <3>5
    <3> HIDE DEF result, first, at, old, new
    <3>9. new \in CallType /\ new.op = old.op /\ new.at = at /\ new.result = result
      BY <1>1, <3>2, <3>5, <3>6, <3>7, <3>8 DEF CallType
    <3> QED BY <1>1, <3>6, <3>7, <3>9 DEF ReadsHalves, old, new
  <2> QED BY <2>1, <2>2
<1>4. CountersType'
  BY <1>2, <1>3 DEF CounterInv, CountersType
<1> QED BY <1>3, <1>4 DEF CounterInv, ClearsHalves

LEMMA ClearKeeps ==
  ASSUME CounterInv, ClearHalf
  PROVE  CounterInv'
<1> DEFINE n == Len(Order)
           k == IF call.at <= n THEN call.at ELSE call.at - n
           c == Order[k]
           low == call.at <= n
<1>1. /\ call.at \in 1..(2 * n) /\ n \in Nat /\ k \in DOMAIN Order /\ c \in Counters
      /\ Clears[call.at].name = c
      /\ Clears[call.at].half = IF low THEN "low" ELSE "high"
  <2>1. call.at \in 1..(2 * n) /\ n \in Nat
    BY Ranges DEF ClearHalf, Clears
  <2>2. k \in DOMAIN Order
    BY <2>1, Ranges
  <2> QED BY <2>1, <2>2, Ranges DEF Clears
<1> HIDE DEF c, k, low
<1>2. /\ counter' = [counter EXCEPT ![c] = IF low THEN High(@) * R ELSE Low(@)]
      /\ since' = IF low THEN [since EXCEPT ![c] = 0] ELSE since
      /\ call' = [call EXCEPT !.at = @ + 1] /\ call.op = "pcount_reset"
      /\ inhibited' = inhibited
  BY <1>1 DEF ClearHalf
<1>3. /\ counter \in [Counters -> Whole] /\ since \in [Counters -> 0..MaxEvents]
      /\ call \in CallType /\ inhibited \in BOOLEAN
  BY DEF CounterInv, CountersType
<1>4. call' \in CallType /\ call'.op = "pcount_reset" /\ call'.at = call.at + 1
      /\ call'.spent = call.spent
  BY <1>2, <1>3 DEF CallType
<1>5. /\ High(counter[c]) * R \in Whole /\ Low(High(counter[c]) * R) = 0
      /\ Low(counter[c]) \in Whole /\ Low(Low(counter[c])) = Low(counter[c])
  <2>1. counter[c] \in Whole
    BY <1>1, <1>3
  <2>2. High(counter[c]) \in 0..(R - 1) /\ Low(counter[c]) \in 0..(R - 1)
    BY <2>1, HalvesOf DEF Whole
  <2>3. High(counter[c]) * R + 0 = High(counter[c]) * R
    BY <2>2, Ranges
  <2> QED BY <2>2, <2>3, OfHalves, SmallIsLow, Ranges DEF Whole
<1>6. CountersType'
  BY <1>1, <1>2, <1>3, <1>4, <1>5, Ranges DEF CountersType
<1>7. ASSUME NEW i \in DOMAIN Order
      PROVE  LET d == Order[i]
             IN  /\ i < call'.at => Low(counter'[d]) = since'[d] /\ since'[d] <= call'.spent
                 /\ i + n < call'.at => counter'[d] = since'[d]
  <2> DEFINE d == Order[i]
             Cleared(e) ==
               /\ i < call'.at => Low(counter'[e]) = since'[e] /\ since'[e] <= call'.spent
               /\ i + n < call'.at => counter'[e] = since'[e]
  <2>1. /\ d \in Counters /\ i \in Nat /\ i \in 1..n /\ call.spent \in Nat
        /\ i < call.at => Low(counter[d]) = since[d] /\ since[d] <= call.spent
        /\ i + n < call.at => counter[d] = since[d]
    BY <1>2, <1>3, Ranges DEF CounterInv, ClearsHalves, CallType, Half
  <2>2. d = c <=> i = k
    BY <1>1, CycleCounterAssumption DEF c
  <2>3. /\ d # c => counter'[d] = counter[d] /\ since'[d] = since[d]
        /\ d = c /\ low => counter'[d] = High(counter[c]) * R /\ since'[d] = 0
        /\ d = c /\ ~low => counter'[d] = Low(counter[c]) /\ since'[d] = since[c]
    BY <1>1, <1>2, <1>3, <2>1
  <2> HIDE DEF d
  <2>4. d # c => Cleared(d)
    <3> SUFFICES ASSUME d # c PROVE Cleared(d)
      OBVIOUS
    <3>1. i # k
      BY <2>2
    <3>2. /\ i < call'.at => i < call.at
          /\ i + n < call'.at => i + n < call.at
      BY <1>1, <1>4, <2>1, <3>1 DEF k
    <3> QED BY <1>4, <2>1, <2>3, <3>2
  <2>5. d = c /\ low => Cleared(d)
    <3> SUFFICES ASSUME d = c, low PROVE Cleared(d)
      OBVIOUS
    <3>1. ~(i + n < call'.at)
      BY <1>1, <1>4, <2>1 DEF low
    <3> QED BY <1>4, <1>5, <2>1, <2>3, <3>1
  <2>6. d = c /\ ~low => Cleared(d)
    <3> SUFFICES ASSUME d = c, ~low PROVE Cleared(d)
      OBVIOUS
    <3>1. i < call.at
      BY <1>1, <2>1, <2>2 DEF low, k
    <3> QED BY <1>4, <1>5, <2>1, <2>3, <3>1
  <2>7. Cleared(d)
    BY <2>4, <2>5, <2>6
  <2> QED BY <2>7 DEF d, Cleared
<1>8. ClearsHalves'
  BY <1>4, <1>7 DEF ClearsHalves
<1>9. ReadsHalves'
  BY <1>4 DEF ReadsHalves
<1> QED BY <1>6, <1>8, <1>9 DEF CounterInv

LEMMA CallKeeps ==
  ASSUME CounterInv,
         \/ Called
         \/ Return /\ Untouched
         \/ Restarted
         \/ \E enable \in BOOLEAN : PcountEnable(enable)
  PROVE  CounterInv'
<1>1. CASE Called
  <2>1. PICK op \in {"get_cycles", "pcount_reset"} : CallCounters(op)
    BY <1>1 DEF Called
  <2>2. call' \in CallType /\ call'.op = op /\ call'.at = 1 /\ call'.result = 0
    BY <2>1, Ranges DEF CallCounters, Idle, CallType, Whole, Half
  <2>3. CountersType'
    BY <1>1, <2>2, ZeroCounters DEF CounterInv, CountersType, Called
  <2>4. ClearsHalves'
    BY <2>2, Ranges DEF ClearsHalves
  <2> QED BY <2>2, <2>3, <2>4, Ranges DEF CounterInv, ReadsHalves
<1>2. CASE Return /\ Untouched
  BY <1>2, IdleCounters
     DEF Return, Untouched, CounterInv, CountersType, ReadsHalves, ClearsHalves
<1>3. CASE Restarted
  BY <1>3, IdleCounters, ZeroCounters
     DEF Restarted, CounterInv, CountersType, ReadsHalves, ClearsHalves
<1>4. CASE \E enable \in BOOLEAN : PcountEnable(enable)
  BY <1>4 DEF PcountEnable, CounterInv, CountersType, ReadsHalves, ClearsHalves
<1> QED BY <1>1, <1>2, <1>3, <1>4

(* Every step of a program that uses the counters preserves the invariant.  *)
LEMMA CounterStepKeeps ==
  ASSUME CounterInv, CounterStep \/ UNCHANGED counting
  PROVE  CounterInv'
<1>1. CASE UNCHANGED counting
  BY <1>1 DEF counting, CounterInv, CountersType, ReadsHalves, ClearsHalves
<1>2. CASE CounterStep
  BY <1>2, TickKeeps, ReadKeeps, ClearKeeps, CallKeeps DEF CounterStep
<1> QED BY <1>1, <1>2

LEMMA ResetByInv == CounterInv => ResetIsZero
<1> SUFFICES ASSUME CounterInv, PcountIsReset, NEW c \in Counters
             PROVE  counter[c] = since[c]
  BY DEF ResetIsZero
<1>1. PICK i \in DOMAIN Order : c = Order[i]
  BY Ranges
<1>2. Len(Clears) = 2 * Len(Order) /\ i + Len(Order) < Len(Clears) + 1
  BY Ranges DEF Clears
<1> QED BY <1>1, <1>2 DEF PcountIsReset, CounterInv, ClearsHalves

LEMMA CounterTypes == CounterInv => CounterTypeOK
  BY DEF CounterInv, CountersType, CallType, CounterTypeOK, Whole, Half

------------------------------------------------------------------------------
(* get_cycles, which may read the two halves at different moments.          *)

LEMMA HighOf ==
  ASSUME NEW h \in 0..(R - 1), NEW l \in 0..(R - 1)
  PROVE  High(h * R + l) = h
<1> DEFINE n == h * R + l
           q == High(n)
<1>1. R \in Nat /\ R > 1
  BY Ranges
<1>2. n \in 0..(R * R - 1) /\ Low(n) = l
  BY OfHalves
<1>3. q \in 0..(R - 1) /\ n = R * q + l
  BY <1>2, HalvesOf
<1>4. (q - h) * R = 0
  BY <1>1, <1>3, SMT
<1>5. /\ q - h >= 1 => (q - h) * R >= R
      /\ q - h <= -1 => (q - h) * R <= -R
  BY <1>1, <1>3, SMT
<1>6. q \in Int /\ h \in Int
  BY <1>3
<1> HIDE DEF q
<1>7. q = h
  BY <1>1, <1>4, <1>5, <1>6
<1> QED BY <1>7 DEF q

(* Numbers that differ by a multiple of S are the same modulo S. *)
LEMMA SameModulo ==
  ASSUME NEW S \in Nat \ {0}, NEW x \in Int, NEW y \in Int, NEW k \in Int, x = y + k * S
  PROVE  x % S = y % S
<1> DEFINE p == x \div S
           q == y \div S
           a == x % S
           b == y % S
<1>1. /\ p \in Int /\ q \in Int /\ a \in 0..(S - 1) /\ b \in 0..(S - 1)
      /\ x = S * p + a /\ y = S * q + b
  BY SMT
<1> DEFINE d == p - q - k
<1>2. d \in Int /\ d * S = b - a
  BY <1>1, SMT
<1> HIDE DEF d, a, b, p, q
<1>3. /\ d >= 1 => d * S >= S
      /\ d <= -1 => d * S <= -S
  BY <1>2, SMT
<1>4. d = 0
  BY <1>1, <1>2, <1>3
<1>5. a = b
  BY <1>1, <1>2, <1>4
<1> QED BY <1>5 DEF a, b

LEMMA InRangeModulo ==
  ASSUME NEW S \in Nat \ {0}, NEW r \in 0..(S - 1)
  PROVE  r % S = r
  BY SMT

(* What get_cycles returns when its first instruction sees the count first  *)
(* and the overflow of the low half comes between the two, or does not.     *)
Tears(torn) == IF torn THEN R ELSE 0
Sum(first, tears) == (first + tears) % (R * R)

LEMMA TornSum ==
  ASSUME NEW first \in Whole, NEW d \in Half
  PROVE  LET last == (first + d) % (R * R)
         IN  High(last) * R + Low(first) = Sum(first, Tears(Low(last) < Low(first)))
<1> DEFINE S == R * R
           h == High(first)
           l == Low(first)
           last == (first + d) % S
<1>1. /\ R \in Nat /\ R > 1 /\ S \in Nat \ {0} /\ first \in 0..(S - 1) /\ d \in 0..(R - 1)
      /\ h \in 0..(R - 1) /\ l \in 0..(R - 1) /\ first = h * R + l
  <2>1. R \in Nat /\ R > 1 /\ S \in Nat \ {0}
    BY Ranges, SMT
  <2>2. h \in 0..(R - 1) /\ l \in 0..(R - 1) /\ first = R * h + l
    BY HalvesOf DEF Whole
  <2> QED BY <2>1, <2>2, SMT DEF Whole, Half
<1>2. CASE l + d < R
  <2>1. l + d \in 0..(R - 1) /\ first + d = h * R + (l + d)
    BY <1>1, <1>2, SMT
  <2>2. first + d \in 0..(S - 1) /\ Low(first + d) = l + d /\ High(first + d) = h
    <3> DEFINE e == l + d
    <3> HIDE DEF e, h
    <3>1. h * R + e \in 0..(R * R - 1) /\ Low(h * R + e) = e /\ High(h * R + e) = h
      BY <1>1, <2>1, OfHalves, HighOf DEF e
    <3> QED BY <2>1, <3>1 DEF e
  <2>3. last = first + d /\ first % S = first
    BY <1>1, <2>2, InRangeModulo
  <2>4. Low(last) = l + d /\ High(last) = h
    BY <2>2, <2>3
  <2>5. Tears(Low(last) < l) = 0
    BY <1>1, <2>4 DEF Tears
  <2>6. first + 0 = first
    BY <1>1
  <2> HIDE DEF h, l, last, S
  <2>7. High(last) * R + l = Sum(first, Tears(Low(last) < l))
    BY <1>1, <2>3, <2>4, <2>5, <2>6 DEF Sum, S
  <2> QED BY <2>7 DEF last, l, S
<1>3. CASE l + d >= R
  <2> DEFINE m == l + d - R
  <2>1. m \in 0..(R - 1) /\ m < l /\ first + d = (h + 1) * R + m
    BY <1>1, <1>3, SMT
  <2> DEFINE g == IF h < R - 1 THEN h + 1 ELSE 0
             k == IF h < R - 1 THEN 0 ELSE 1
  <2>2. /\ g \in 0..(R - 1) /\ k \in Int
        /\ first + d = (g * R + m) + k * S /\ first + R = (g * R + l) + k * S
    <3>1. CASE h < R - 1
      BY <1>1, <2>1, <3>1, SMT
    <3>2. CASE h = R - 1
      BY <1>1, <2>1, <3>2, SMT
    <3> QED BY <1>1, <3>1, <3>2
  <2> HIDE DEF g, k, m
  <2>3. /\ g * R + m \in 0..(S - 1) /\ g * R + l \in 0..(S - 1)
        /\ Low(g * R + m) = m /\ High(g * R + m) = g
    BY <1>1, <2>1, <2>2, OfHalves, HighOf
  <2>4. first + d \in Int /\ first + R \in Int /\ g * R + m \in Int /\ g * R + l \in Int
    BY <1>1, <2>3
  <2>5. last = g * R + m
    <3> HIDE DEF S
    <3>1. (first + d) % S = (g * R + m) % S
      BY <1>1, <2>2, <2>4, SameModulo
    <3> QED BY <1>1, <2>3, <3>1, InRangeModulo
  <2>6. (first + R) % S = g * R + l
    <3> HIDE DEF S
    <3>1. (first + R) % S = (g * R + l) % S
      BY <1>1, <2>2, <2>4, SameModulo
    <3> QED BY <1>1, <2>3, <3>1, InRangeModulo
  <2>7. Low(last) = m /\ High(last) = g
    BY <2>3, <2>5
  <2>8. Tears(Low(last) < l) = R
    BY <2>1, <2>7 DEF Tears
  <2> HIDE DEF h, l, last, S
  <2>9. High(last) * R + l = Sum(first, Tears(Low(last) < l))
    BY <1>1, <2>6, <2>7, <2>8 DEF Sum, S
  <2> QED BY <2>9 DEF last, l, S
<1> QED BY <1>1, <1>2, <1>3

(* Between the two instructions the counter has moved by less than a half;  *)
(* after them the result is the first count, torn or not.                   *)
ReadsInv ==
  call.op = "get_cycles" =>
    /\ call.at \in {1, 2, 3}
    /\ call.at = 2 =>
         /\ call.result = Low(call.first)
         /\ \E d \in Half : d <= call.spent /\ counter["mcycle"] = (call.first + d) % (R * R)
    /\ call.at = 3 => call.result = Sum(call.first, Tears(Torn))

LEMMA ReadsKept ==
  ASSUME CounterInv, ReadsInv, CounterStep \/ UNCHANGED counting
  PROVE  ReadsInv'
<1> DEFINE now == counter["mcycle"]
<1>1. /\ call \in CallType /\ "mcycle" \in Counters /\ now \in Whole
      /\ counter \in [Counters -> Whole]
  BY CycleCounterAssumption DEF CounterInv, CountersType
<1>2. CASE UNCHANGED counting
  BY <1>2 DEF counting, ReadsInv, Torn
<1>3. ASSUME NEW counted \in SUBSET Counters, Tick(counted)
      PROVE  ReadsInv'
  <2>1. CASE call.op # "get_cycles"
    <3>1. call'.op = call.op
      BY <1>1, <1>3 DEF Tick, CallType
    <3> QED BY <2>1, <3>1 DEF ReadsInv
  <2>2. CASE call.op = "get_cycles"
    <3>1. /\ call' = [call EXCEPT !.spent = @ + 1] /\ call.spent < R - 1
          /\ now' = (now + 1) % (R * R)
      BY <1>1, <1>3, <2>2 DEF Tick
    <3>2. /\ call'.op = call.op /\ call'.at = call.at /\ call'.result = call.result
          /\ call'.first = call.first /\ call'.last = call.last
          /\ call'.spent = call.spent + 1 /\ call.spent \in Int /\ call.first \in Whole
      BY <1>1, <3>1 DEF CallType, Half
    <3>3. ASSUME call.at = 2
          PROVE  \E d \in Half : d <= call'.spent /\ now' = (call'.first + d) % (R * R)
      <4>1. PICK d \in Half : d <= call.spent /\ now = (call.first + d) % (R * R)
        BY <2>2, <3>3 DEF ReadsInv
      <4>2. d + 1 \in Half /\ d + 1 <= call'.spent
        BY <3>1, <3>2, <4>1, Ranges DEF Half
      <4>3. (((call.first + d) % (R * R)) + 1) % (R * R) = (call.first + (d + 1)) % (R * R)
        <5> DEFINE S == R * R
                   x == call.first + d
                   q == x \div S
        <5>1. S \in Nat \ {0} /\ x \in Int /\ x + 1 = call.first + (d + 1)
          BY <3>2, Ranges, SMT DEF Whole, Half
        <5> HIDE DEF S, x
        <5>2. q \in Int /\ x % S \in Int /\ x = S * q + (x % S)
          BY <5>1, SMT
        <5> DEFINE y == (x % S) + 1
                   z == x + 1
        <5> HIDE DEF q
        <5>3. z = y + q * S /\ y \in Int /\ z \in Int
          BY <5>1, <5>2, SMT
        <5> HIDE DEF y, z
        <5>4. z % S = y % S
          BY <5>1, <5>2, <5>3, SameModulo
        <5> QED BY <5>1, <5>4 DEF S, x, y, z
      <4> QED BY <3>1, <3>2, <4>1, <4>2, <4>3
    <3> QED BY <2>2, <3>2, <3>3 DEF ReadsInv, Torn
  <2> QED BY <2>1, <2>2
<1>4. CASE ReadWhole
  <2>1. /\ call' = [call EXCEPT !.result = now, !.first = now, !.last = now, !.at = 3]
        /\ call.op = "get_cycles"
    BY <1>4 DEF ReadWhole
  <2>2. /\ call'.op = call.op /\ call'.at = 3 /\ call'.result = now
        /\ call'.first = now /\ call'.last = now
    BY <1>1, <2>1 DEF CallType
  <2>3. Low(now) \in Int
    BY <1>1, HalvesOf DEF Whole
  <2>4. Tears(Torn)' = 0
    BY <2>2, <2>3 DEF Tears, Torn
  <2>5. Sum(now, 0) = now
    <3> DEFINE S == R * R
    <3>1. S \in Nat \ {0} /\ now \in 0..(S - 1)
      BY <1>1, Ranges, SMT DEF Whole
    <3> HIDE DEF S, now
    <3>2. now + 0 = now /\ now % S = now
      BY <3>1, InRangeModulo
    <3> QED BY <3>2 DEF Sum, S
  <2> QED BY <2>2, <2>4, <2>5 DEF ReadsInv
<1>5. CASE ReadHalf
  <2> DEFINE part == IF Reads[call.at] = "low" THEN Low(now) ELSE High(now) * R
             at == call.at + 1
             result == call.result + part
             first == IF call.at = 1 THEN now ELSE call.first
  <2>1. /\ call' = [call EXCEPT !.result = result, !.first = first, !.last = now, !.at = at]
        /\ call.op = "get_cycles" /\ call.at \in {1, 2} /\ counter' = counter
    BY <1>5 DEF ReadHalf, Reads
  <2>2. Low(now) \in 0..(R - 1) /\ High(now) \in 0..(R - 1)
    BY <1>1, HalvesOf DEF Whole
  <2>3. /\ call.at = 1 => part = Low(now) /\ call.result = 0
        /\ call.at = 2 => part = High(now) * R
    BY <2>1 DEF CounterInv, ReadsHalves, Reads
  <2>4. call.spent \in Half /\ call.first \in Whole
    BY <1>1 DEF CallType
  <2> HIDE DEF now, part, at, result, first
  <2>5. /\ call'.op = "get_cycles" /\ call'.at = at /\ call'.result = result
        /\ call'.first = first /\ call'.last = now /\ call'.spent = call.spent
    BY <1>1, <2>1 DEF CallType
  <2>6. CASE call.at = 1
    <3>1. at = 2 /\ first = now /\ result = Low(now)
      BY <2>2, <2>3, <2>6, Ranges DEF at, first, result
    <3>2. 0 \in Half /\ 0 <= call.spent /\ now = (now + 0) % (R * R)
      <4> DEFINE S == R * R
      <4>1. S \in Nat \ {0} /\ now \in 0..(S - 1)
        BY <1>1, Ranges, SMT DEF Whole
      <4> HIDE DEF S
      <4>2. now + 0 = now /\ now % S = now
        BY <4>1, InRangeModulo
      <4>3. 0 \in Half /\ 0 <= call.spent
        BY <2>4, Ranges DEF Half
      <4> QED BY <4>2, <4>3 DEF S
    <3>3. counter'["mcycle"] = now
      BY <2>1 DEF now
    <3> QED BY <2>5, <3>1, <3>2, <3>3 DEF ReadsInv
  <2>7. CASE call.at = 2
    <3>1. at = 3 /\ first = call.first
      BY <2>7 DEF at, first
    <3>2. PICK d \in Half : now = (call.first + d) % (R * R)
      BY <2>1, <2>7 DEF ReadsInv, now
    <3>3. result = High(now) * R + Low(call.first)
      <4>1. call.result = Low(call.first)
        BY <2>1, <2>7 DEF ReadsInv
      <4>2. Low(call.first) \in Int /\ High(now) * R \in Int
        <5>1. Low(call.first) \in Int
          BY <2>4, HalvesOf DEF Whole
        <5>2. \A i \in Int : i * R \in Int
          BY Ranges, SMT
        <5> QED BY <2>2, <5>1, <5>2
      <4> QED BY <2>3, <2>7, <4>1, <4>2 DEF result
    <3>4. result = Sum(call.first, Tears(Low(now) < Low(call.first)))
      BY <2>4, <3>2, <3>3, TornSum
    <3>5. Torn' <=> Low(now) < Low(call.first)
      BY <2>5, <3>1 DEF Torn
    <3>6. Tears(Torn)' = Tears(Low(now) < Low(call.first))
      BY <3>5 DEF Tears
    <3> QED BY <2>5, <3>1, <3>4, <3>6 DEF ReadsInv
  <2> QED BY <2>1, <2>6, <2>7
<1>6. CASE ClearHalf
  <2>1. call'.op = "pcount_reset"
    BY <1>1, <1>6 DEF ClearHalf, CallType
  <2> QED BY <2>1 DEF ReadsInv
<1>7. CASE Called
  <2>1. PICK op : CallCounters(op)
    BY <1>7 DEF Called
  <2>2. call'.at = 1
    BY <2>1 DEF CallCounters, Idle
  <2> QED BY <2>2 DEF ReadsInv
<1>8. CASE Return \/ Restarted
  BY <1>8, IdleCounters DEF Return, Restarted, ReadsInv
<1>9. CASE \E enable \in BOOLEAN : PcountEnable(enable)
  BY <1>9 DEF PcountEnable, ReadsInv
<1> QED BY <1>2, <1>3, <1>4, <1>5, <1>6, <1>7, <1>8, <1>9 DEF CounterStep

------------------------------------------------------------------------------
(* The counters                                                              *)

LEMMA InitCounters == Init => CounterInv
<1> SUFFICES ASSUME Init PROVE CounterInv
  OBVIOUS
<1>1. \E n \in Whole : counter = [c \in Counters |-> n]
  BY Ranges DEF Init, Whole
<1>2. CountersType
  BY <1>1, IdleCounters, ZeroCounters DEF Init, CountersType
<1> QED BY <1>2, IdleCounters DEF Init, CounterInv, ReadsHalves, ClearsHalves

(* Every action of the program does to the counters what CycleCounter says. *)
LEMMA CountersOfNext == Next => CounterStep \/ UNCHANGED counting
<1> SUFFICES ASSUME Next PROVE CounterStep \/ UNCHANGED counting
  OBVIOUS
<1>1. CASE ClearBss \/ Banner \/ Summary \/ BeginCalls \/ Trap \/ Ends
  BY <1>1 DEF ClearBss, Banner, Summary, BeginCalls, Trap, Ends, Exit, HaltSimulation,
              ReportException, HaltAfterException, SimulationEnds
<1>2. CASE RunTest
  BY <1>2 DEF RunTest, BeginTest, Check, EndOfTest, Verdict
<1>3. CASE RunBench
  <2>1. CASE BeginBench \/ EndOfBench
    BY <2>1 DEF BeginBench, EndOfBench
  <2>2. CASE MeasureBefore \/ MeasureAfter
    BY <2>2 DEF MeasureBefore, MeasureAfter, CallGetCycles, CounterStep, Called
  <2>3. CASE GetCycles
    BY <2>3 DEF GetCycles, CounterStep
  <2>4. CASE Before \/ After
    BY <2>4 DEF Before, After, CounterStep, Untouched
  <2> QED BY <1>3, <2>1, <2>2, <2>3, <2>4 DEF RunBench
<1>4. CASE Calls
  BY <1>4 DEF Calls, CounterStep, Called, Untouched
<1>5. CASE TimePasses
  <2>1. "mcycle" \in Counters
    BY CycleCounterAssumption
  <2> QED BY <1>5, <2>1 DEF TimePasses, CounterStep
<1>6. CASE Reset
  BY <1>6 DEF Reset, CounterStep, Restarted
<1> QED BY <1>1, <1>2, <1>3, <1>4, <1>5, <1>6 DEF Next, Runs

LEMMA CountersOfSpec == Spec => []CounterInv
<1>1. CounterInv /\ [Next]_harnessVars => CounterInv'
  BY CountersOfNext, CounterStepKeeps DEF harnessVars, counting
<1> QED BY <1>1, InitCounters, PTL DEF Spec

(* common.h: pcount_reset "Resets all performance counters".  In every      *)
(* executable, for counters of any width and number and however often they  *)
(* count between its instructions, a counter holds, when it returns, just   *)
(* what happened since its low half was cleared.                            *)
THEOREM CountersAreReset == Spec => []ResetIsZero
BY CountersOfSpec, ResetByInv, PTL

------------------------------------------------------------------------------
(* The RAM                                                                   *)

RamInv ==
  /\ program \in Programs
  /\ ram \in [Words -> Nat] /\ ptr \in Nat /\ ptr % WordSize = 0
  /\ pc = "clear" => ptr <= bss.end

LEMMA Bss ==
  ASSUME program \in Programs
  PROVE  /\ bss.end \in Nat /\ bss.end < RamSize * WordSize /\ RamSize \in Nat
         /\ bss.passed \in Words /\ bss.failed \in Words /\ bss.passed # bss.failed
         /\ \A w \in {bss.passed, bss.failed} : (w + 1) * WordSize <= bss.end
BY HarnessAssumption DEF bss, InBss, WordSize

LEMMA WordOfPtr ==
  ASSUME NEW p \in Nat, p % WordSize = 0
  PROVE  /\ p \div WordSize \in Nat /\ (p \div WordSize) * WordSize = p
         /\ (p + WordSize) % WordSize = 0
BY DEF WordSize

LEMMA InitRam == Init => RamInv
<1> SUFFICES ASSUME Init PROVE RamInv
  OBVIOUS
<1>1. program \in Programs /\ ptr = 0
  BY DEF Init
<1>2. ram \in [Words -> Nat]
  <2>1. PICK g \in Garbage : ram = [w \in Words |-> IF program.system = "kernel" THEN 0 ELSE g]
    BY DEF Init
  <2>2. g \in Nat
    BY HarnessAssumption
  <2> QED BY <2>1, <2>2
<1>3. 0 \in Nat /\ 0 % WordSize = 0 /\ 0 <= bss.end
  BY <1>1, Bss DEF WordSize
<1> QED BY <1>1, <1>2, <1>3 DEF RamInv

LEMMA ClearBssRam ==
  ASSUME RamInv, ClearBss
  PROVE  /\ RamInv' /\ program' = program
         /\ \A w \in Words : ram'[w] # ram[w] => w * WordSize <= bss.end
<1> DEFINE k == ptr \div WordSize
<1>1. /\ program \in Programs /\ ram \in [Words -> Nat] /\ ptr \in Nat
      /\ ptr % WordSize = 0 /\ ptr <= bss.end
  BY DEF RamInv, ClearBss, At
<1>2. k \in Nat /\ k * WordSize = ptr /\ (ptr + WordSize) % WordSize = 0
  BY <1>1, WordOfPtr
<1>3. /\ ram' = [ram EXCEPT ![k] = 0] /\ ptr' = ptr + WordSize /\ program' = program
      /\ pc' = IF ptr' <= bss.end THEN "clear" ELSE "main"
  BY DEF ClearBss, ClearsMore, Goto
<1> HIDE DEF k
<1>4. ram' \in [Words -> Nat]
  BY <1>1, <1>3
<1>5. bss' = bss /\ ptr' \in Nat
  BY <1>1, <1>3 DEF bss, WordSize
<1>6. RamInv'
  BY <1>1, <1>2, <1>3, <1>4, <1>5, "clear" # "main" DEF RamInv
<1>7. \A w \in Words : ram'[w] # ram[w] => w = k
  BY <1>1, <1>3
<1> QED BY <1>1, <1>2, <1>3, <1>6, <1>7

(* The three words of testing_run_test, and what each of them counts. *)
LEMMA VerdictCounts ==
  ASSUME Verdict
  PROVE  LET word == Word(run.result)
         IN  \/ word = "passed" /\ Increment(bss.passed) /\ run.result = TEST_SUCCESS
             \/ /\ word = "failed" /\ Increment(bss.failed)
                /\ run.result # TEST_SUCCESS /\ run.result # TEST_SKIPPED
             \/ word = "skipped" /\ ram' = ram /\ run.result = TEST_SKIPPED
<1> DEFINE r == run.result
           word == Word(r)
<1>1. /\ CASE word = "passed"  -> Increment(bss.passed)
           [] word = "failed"  -> Increment(bss.failed)
           [] word = "skipped" -> UNCHANGED ram
  BY DEF Verdict
<1>2. \/ word = "passed" /\ r = TEST_SUCCESS
      \/ word = "failed" /\ r # TEST_SUCCESS /\ r # TEST_SKIPPED
      \/ word = "skipped" /\ r = TEST_SKIPPED
  <2>1. CASE r = TEST_SUCCESS
    BY <2>1 DEF Word, TEST_SUCCESS, TEST_SKIPPED
  <2>2. CASE r = TEST_SKIPPED
    BY <2>2 DEF Word, TEST_SUCCESS, TEST_SKIPPED
  <2>3. CASE r # TEST_SUCCESS /\ r # TEST_SKIPPED
    BY <2>3 DEF Word
  <2> QED BY <2>1, <2>2, <2>3
<1>3. "passed" # "failed" /\ "passed" # "skipped" /\ "failed" # "skipped"
  OBVIOUS
<1> HIDE DEF word, r
<1>4. CASE word = "passed" /\ r = TEST_SUCCESS
  BY <1>1, <1>3, <1>4, Zenon DEF word, r
<1>5. CASE word = "failed" /\ r # TEST_SUCCESS /\ r # TEST_SKIPPED
  BY <1>1, <1>3, <1>5, Zenon DEF word, r
<1>6. CASE word = "skipped" /\ r = TEST_SKIPPED
  BY <1>1, <1>3, <1>6, Zenon DEF word, r
<1> QED BY <1>2, <1>4, <1>5, <1>6 DEF word, r

LEMMA VerdictRam ==
  ASSUME RamInv, Verdict
  PROVE  /\ RamInv' /\ program' = program
         /\ \A w \in Words : ram'[w] # ram[w] => w * WordSize <= bss.end
<1>1. program \in Programs /\ ram \in [Words -> Nat] /\ ptr \in Nat
  BY DEF RamInv
<1>2. program' = program /\ ptr' = ptr /\ pc' = "setup_tests"
  BY DEF Verdict, Goto
<1>3. Increment(bss.passed) \/ Increment(bss.failed) \/ ram' = ram
  BY VerdictCounts
<1>4. ASSUME NEW v \in {bss.passed, bss.failed}, Increment(v)
      PROVE  /\ ram' \in [Words -> Nat]
             /\ \A w \in Words : ram'[w] # ram[w] => w = v
  <2>1. v \in Words /\ ram[v] + 1 \in Nat
    BY <1>1, <1>4, Bss
  <2> QED BY <1>1, <1>4, <2>1 DEF Increment
<1>5. \A v \in {bss.passed, bss.failed} : v * WordSize <= bss.end
  BY <1>1, Bss, SMTT(20) DEF WordSize, Words
<1>6. /\ ram' \in [Words -> Nat]
      /\ \A w \in Words : ram'[w] # ram[w] => w \in {bss.passed, bss.failed}
  BY <1>1, <1>3, <1>4
<1>7. RamInv'
  BY <1>2, <1>6 DEF RamInv
<1> QED BY <1>2, <1>5, <1>6, <1>7

(* All other steps leave the RAM alone. *)
LEMMA RamOfNext ==
  ASSUME Next
  PROVE  \/ ClearBss \/ Verdict
         \/ UNCHANGED <<program, ram, ptr>> /\ (pc' = "clear" => pc = "clear")
         \/ UNCHANGED <<program, ram>> /\ ptr' = 0
<1>1. CASE Banner \/ Summary \/ BeginCalls \/ Trap \/ Ends
  BY <1>1 DEF Banner, Summary, BeginCalls, Trap, Ends, Exit, HaltSimulation,
              ReportException, HaltAfterException, SimulationEnds, machine, Goto, AfterHalt
<1>2. CASE BeginTest \/ Check \/ EndOfTest
  BY <1>2 DEF BeginTest, Check, EndOfTest, machine, Goto
<1>3. CASE RunBench
  BY <1>3 DEF RunBench, BeginBench, MeasureBefore, GetCycles, Before, MeasureAfter, After,
              EndOfBench, CallGetCycles, machine, Goto
<1>4. CASE Calls \/ TimePasses
  BY <1>4 DEF Calls, TimePasses, machine
<1>5. CASE Reset
  BY <1>5 DEF Reset
<1> QED BY <1>1, <1>2, <1>3, <1>4, <1>5 DEF Next, Runs, RunTest

LEMMA RamStep ==
  ASSUME RamInv, [Next]_harnessVars
  PROVE  /\ RamInv'
         /\ \A w \in Words : ram'[w] # ram[w] => w * WordSize <= bss.end
<1>1. CASE UNCHANGED <<program, ram, ptr>> /\ (pc' = "clear" => pc = "clear")
  BY <1>1 DEF RamInv, bss
<1>2. CASE UNCHANGED <<program, ram>> /\ ptr' = 0
  <2>1. 0 \in Nat /\ 0 % WordSize = 0 /\ 0 <= bss'.end
    BY <1>2, Bss DEF WordSize, RamInv, bss
  <2> QED BY <1>2, <2>1 DEF RamInv
<1>3. CASE UNCHANGED harnessVars
  BY <1>1, <1>3 DEF harnessVars, machine
<1> QED BY <1>1, <1>2, <1>3, RamOfNext, ClearBssRam, VerdictRam

LEMMA RamOfSpec == Spec => []RamInv
BY InitRam, RamStep, PTL DEF Spec

(* zero_loop of crt0.S clears one word more when .bss ends with a word; in  *)
(* every executable nothing that begins behind _bss_end is written, by it   *)
(* or by the counts of the tests.                                           *)
THEOREM OnlyBssWritten == Spec => ClearConfined
<1>1. RamInv /\ [Next]_harnessVars
        => [\A w \in Words : ram'[w] # ram[w] => w * WordSize <= bss.end]_harnessVars
  BY RamStep
<1> QED BY <1>1, RamOfSpec, PTL DEF Spec, ClearConfined

------------------------------------------------------------------------------
(* How a run ends                                                            *)

LEMMA Appended ==
  ASSUME NEW s, NEW e, \E S : s \in Seq(S)
  PROVE  LET t == Append(s, e)
         IN  /\ \E S : t \in Seq(S)
             /\ t # <<>> /\ t[Len(t)] = e
             /\ Len(t) = Len(s) + 1 /\ Len(s) \in Nat
             /\ DOMAIN s = 1..Len(s) /\ DOMAIN t = 1..Len(t)
             /\ \A i \in DOMAIN s : t[i] = s[i]
<1>1. PICK S : s \in Seq(S)
  OBVIOUS
<1>2. s \in Seq(S \union {e})
  BY <1>1
<1>3. Append(s, e) \in Seq(S \union {e})
  BY <1>2
<1> QED BY <1>2, <1>3

LastLine(line) == log # <<>> /\ log[Len(log)].line = line

(* Where the program is when it has told the simulator to halt, or the      *)
(* kernel its status, and what it has printed last by then.                 *)
FlowInv ==
  /\ \E S : log \in Seq(S)
  /\ sim \in {"halting", "stopped"} => pc \in {"sleep_loop", "spin"}
  /\ sim = "exited" => pc = "main_returns" /\ status = run.result
  /\ pc \in {"main_returns", "sleep_loop"} => LastLine("summary")
  /\ pc \in {"sim_halt", "spin"} => LastLine("Exception!")

Running == sim = "running"

LEMMA RunsGoing ==
  ASSUME FlowInv, Next
  PROVE  Running \/ SimulationEnds
<1>1. sim \in {"halting", "stopped", "exited", "killed"} \/ Running \/ ~Going
  BY DEF Going, Running
<1> QED
  BY DEF FlowInv, Running, Going, At, Next, Runs, ClearBss, Banner, RunTest, BeginTest, Check,
         EndOfTest, Verdict, RunBench, BeginBench, MeasureBefore, GetCycles, Before,
         MeasureAfter, After, EndOfBench, CallGetCycles, Summary, BeginCalls, Calls, Ends,
         Exit, HaltSimulation, ReportException, HaltAfterException, TimePasses, Trap, Reset

(* Steps that print a line, and the line. *)
Prints(line, p) ==
  /\ \E rest : log' = Append(log, rest) /\ rest.line = line
  /\ pc' = p /\ sim' = sim

(* Steps that neither print nor end anything. *)
Inner == {"clear", "main", "setup_tests", "test", "verdict", "lengths", "before",
          "benchmark", "after", "calls", "exception"}
Quiet == log' = log /\ sim' = sim /\ pc \in Inner /\ pc' \in Inner

LEMMA FlowOfNext ==
  ASSUME FlowInv, Next, Running
  PROVE  \/ Quiet
         \/ \E line, p : Prints(line, p) /\ line # "summary" /\ p \in Inner
         \/ Summary /\ Prints("summary", "main_returns")
         \/ Prints("Exception!", "sim_halt")
         \/ Exit \/ HaltSimulation \/ HaltAfterException
         \/ Trap
         \/ Reset
<1>1. CASE ClearBss
  BY <1>1 DEF ClearBss, At, Goto, Quiet, output, Inner
<1>2. CASE BeginTest \/ EndOfTest \/ BeginCalls
  BY <1>2 DEF BeginTest, EndOfTest, BeginCalls, At, Goto, Quiet, output, Inner
<1>3. CASE Banner
  <2>1. Prints("Running tests", "setup_tests")
    <3> DEFINE said == [line |-> "Running tests"]
    <3>1. said.line = "Running tests"
      OBVIOUS
    <3>2. log' = Append(log, said) /\ pc' = "setup_tests" /\ sim' = sim
      BY <1>3 DEF Banner, Say, Goto
    <3> HIDE DEF said
    <3> QED BY <3>1, <3>2 DEF Prints
  <2> QED BY <2>1 DEF Inner
<1>4. CASE Check
  <2>1. Quiet \/ Prints("assertion failed", "verdict")
    <3> DEFINE said == [line |-> "assertion failed"]
    <3>1. said.line = "assertion failed"
      OBVIOUS
    <3>2. /\ pc = "test" /\ sim' = sim
          /\ \/ UNCHANGED <<pc, log>>
             \/ log' = Append(log, said) /\ pc' = "verdict"
      BY <1>4, Zenon DEF Check, At, Say, Goto
    <3> HIDE DEF said
    <3> QED BY <3>1, <3>2 DEF Prints, Quiet, Inner
  <2> QED BY <2>1 DEF Inner
<1>5. CASE Verdict
  <2>1. Prints("verdict", "setup_tests")
    BY <1>5 DEF Verdict, Say, Goto, Prints
  <2> QED BY <2>1 DEF Inner
<1>6. CASE RunBench
  <2>1. CASE BeginBench
    <3>1. Prints("bench", "lengths")
      BY <2>1 DEF BeginBench, Say, Goto, Prints
    <3> QED BY <3>1 DEF Inner
  <2>2. CASE MeasureBefore \/ MeasureAfter \/ Before \/ After \/ EndOfBench
    BY <2>2 DEF MeasureBefore, MeasureAfter, Before, After, EndOfBench, CallGetCycles, At, Goto,
                Quiet, output, Inner
  <2>3. CASE GetCycles
    BY <2>3 DEF GetCycles, Quiet, output, Inner
  <2> QED BY <1>6, <2>1, <2>2, <2>3 DEF RunBench
<1>7. CASE Summary
  BY <1>7 DEF Summary, Say, Goto, Prints
<1>8. CASE Calls \/ TimePasses
  BY <1>8 DEF Calls, TimePasses, At, Quiet, output, Inner
<1>9. CASE ReportException
  BY <1>9 DEF ReportException, Say, Goto, Prints
<1>10. ~SimulationEnds
  BY DEF SimulationEnds, Running
<1> QED BY <1>1, <1>2, <1>3, <1>4, <1>5, <1>6, <1>7, <1>8, <1>9, <1>10
        DEF Next, Runs, RunTest, Ends

LEMMA PrintedLast ==
  ASSUME FlowInv, NEW line, NEW p, Prints(line, p)
  PROVE  (\E S : log' \in Seq(S)) /\ LastLine(line)'
<1>1. PICK rest : log' = Append(log, rest) /\ rest.line = line
  BY DEF Prints
<1>2. \E S : log \in Seq(S)
  BY DEF FlowInv
<1>3. (\E S : log' \in Seq(S)) /\ log' # <<>> /\ log'[Len(log')] = rest
  BY <1>1, <1>2, Appended
<1> QED BY <1>1, <1>3 DEF LastLine

LEMMA FlowStep ==
  ASSUME FlowInv, [Next]_harnessVars
  PROVE  FlowInv'
<1>1. CASE UNCHANGED harnessVars
  BY <1>1 DEF harnessVars, output, FlowInv, LastLine
<1>2. CASE SimulationEnds
  BY <1>2 DEF SimulationEnds, FlowInv, LastLine
<1>3. CASE Next /\ Running
  <2>1. CASE Quiet
    BY <2>1, <1>3 DEF Quiet, Running, Inner, FlowInv
  <2>2. ASSUME NEW line, NEW p, Prints(line, p), p \in Inner
        PROVE  FlowInv'
    BY <2>2, <1>3, PrintedLast DEF Prints, Running, Inner, FlowInv
  <2>3. CASE Prints("summary", "main_returns")
    BY <2>3, <1>3, PrintedLast DEF Prints, Running, FlowInv
  <2>4. CASE Prints("Exception!", "sim_halt")
    BY <2>4, <1>3, PrintedLast DEF Prints, Running, FlowInv
  <2>5. CASE Exit
    BY <2>5 DEF Exit, At, FlowInv, LastLine
  <2>6. CASE HaltSimulation
    BY <2>6 DEF HaltSimulation, At, Goto, FlowInv, LastLine
  <2>7. CASE HaltAfterException
    BY <2>7 DEF HaltAfterException, At, Goto, AfterHalt, FlowInv, LastLine
  <2>8. CASE Trap
    BY <2>8, <1>3 DEF Trap, At, Goto, Running, FlowInv, LastLine
  <2>9. CASE Reset
    <3>1. log' = <<>> /\ <<>> \in Seq({})
      BY <2>9 DEF Reset
    <3> QED BY <2>9, <3>1 DEF Reset, FlowInv
  <2> QED BY <1>3, <2>1, <2>2, <2>3, <2>4, <2>5, <2>6, <2>7, <2>8, <2>9, FlowOfNext
<1> QED BY <1>1, <1>2, <1>3, RunsGoing

LEMMA FlowOfSpec == Spec => []FlowInv
<1>1. Init => FlowInv
  <2> SUFFICES ASSUME Init PROVE FlowInv
    OBVIOUS
  <2>1. log = <<>> /\ <<>> \in Seq({}) /\ sim = "running" /\ pc \in {"main", "clear"}
    BY DEF Init
  <2> QED BY <2>1 DEF FlowInv
<1> QED BY <1>1, FlowStep, PTL DEF Spec

(* sim_halt tells the simulator to halt and the core goes on: it prints     *)
(* nothing more, in any executable, with or without an exception.           *)
THEOREM SilentAfterHalt == Spec => QuietAfterHalt
<1>1. FlowInv /\ [Next]_harnessVars => [sim = "halting" => log' = log]_harnessVars
  BY RunsGoing DEF Running, SimulationEnds
<1> QED BY <1>1, FlowOfSpec, PTL DEF Spec, QuietAfterHalt

------------------------------------------------------------------------------
(* The locals of main.c and of the test                                      *)

Bool == BOOLEAN
Yes == TRUE
Codes == 0..3
Kinds == {"success", "skipped", "nothing"}

Frame ==
  [job : Nat, check : Nat, held : Bool, result : Codes, length : Nat,
   before : Whole, first : Whole, torn : Bool]

(* A test whose checks have held so far returns what its end returns; one   *)
(* with a failed check returns TEST_FAILURE.                                *)
RunInv ==
  /\ run \in Frame
  /\ pc \in {"test", "verdict"} => Job.ends \in Kinds
  /\ pc \in {"setup_tests", "test"} => run.held = Yes
  /\ pc = "verdict" => /\ run.held = Yes => run.result \in Results(Job.ends)
                       /\ run.held # Yes => run.result = TEST_FAILURE

LEMMA Frames == Frame = Locals
BY DEF Frame, Locals, Bool, Codes, Whole

LEMMA StartFrame ==
  /\ Start \in Frame /\ Start.held = Yes
  /\ \A j \in Nat : /\ [Start EXCEPT !.job = j] \in Frame
                    /\ [Start EXCEPT !.job = j].held = Yes
<1> DEFINE no == FALSE
<1>1. Yes \in Bool /\ no \in Bool
  BY DEF Bool, Yes
<1>2. 0 \in Whole /\ 0 \in Codes
  BY Ranges DEF Whole, Codes
<1>3. Start = [job |-> 1, check |-> 1, held |-> Yes, result |-> 0,
               length |-> 0, before |-> 0, first |-> 0, torn |-> no]
  BY Zenon DEF Start, Yes
<1> HIDE DEF no
<1>4. Start \in Frame /\ Start.held = Yes
  BY <1>1, <1>2, <1>3 DEF Frame
<1>5. ASSUME NEW j \in Nat
      PROVE  [Start EXCEPT !.job = j] \in Frame /\ [Start EXCEPT !.job = j].held = Yes
  BY <1>4 DEF Frame
<1> QED BY <1>1, <1>4, <1>5

(* memcmp of the tests, and the comparison of the words of the checks.      *)
LEMMA EqualIsReference ==
  ASSUME NEW out \in Outputs, Equal(out)
  PROVE  out = Reference
<1>1. CASE ~Job.memcmp
  BY <1>1, Zenon DEF Equal
<1>2. CASE Job.memcmp
  <2>1. memcmp(out, Reference, Len(Reference)) = 0
    BY <1>2, Zenon DEF Equal
  <2>2. {i \in 1..Len(Reference) : out[i] # Reference[i]} = {}
    BY <2>1 DEF memcmp
  <2>3. Len(Reference) = 2 /\ Reference = <<1, 1>>
    BY DEF Reference
  <2>4. out[1] = 1 /\ out[2] = 1
    BY <2>2, <2>3
  <2> QED BY <2>3, <2>4 DEF Outputs
<1> QED BY <1>1, <1>2

LEMMA ReferenceEqual == Equal(Reference)
<1>1. {i \in 1..Len(Reference) : Reference[i] # Reference[i]} = {}
  OBVIOUS
<1>2. memcmp(Reference, Reference, Len(Reference)) = 0
  BY <1>1 DEF memcmp
<1> QED BY <1>2, Zenon DEF Equal

LEMMA CheckRun ==
  ASSUME RunInv, Check
  PROVE  RunInv'
<1>1. /\ run \in Frame /\ Job.ends \in Kinds /\ run.held = Yes /\ pc = "test"
      /\ program' = program
  BY DEF RunInv, Check, At, machine
<1>2. PICK out \in Outputs :
        \/ /\ Equal(out)
           /\ run' = [run EXCEPT !.check = @ + 1, !.held = @ /\ out = Reference]
           /\ UNCHANGED <<pc, log>>
        \/ /\ ~Equal(out)
           /\ run' = [run EXCEPT !.held = @ /\ out = Reference, !.result = TEST_FAILURE]
           /\ Say([line |-> "assertion failed"])
           /\ Goto("verdict")
  BY Zenon DEF Check
<1> DEFINE holds == run.held /\ out = Reference
<1>3. holds \in Bool
  BY <1>1, Zenon DEF Bool
<1>4. holds = Yes <=> out = Reference
  BY <1>1, Zenon DEF Yes
<1>5. CASE Equal(out) /\ UNCHANGED pc
  <2> DEFINE check == run.check + 1
  <2>1. run' = [run EXCEPT !.check = check, !.held = holds]
    BY <1>2, <1>5, Zenon
  <2>2. holds = Yes
    BY <1>4, <1>5, EqualIsReference, Zenon
  <2>3. check \in Nat
    BY <1>1 DEF Frame
  <2> HIDE DEF holds, check
  <2>4. run' \in Frame /\ run'.held = holds /\ run'.job = run.job
    BY <1>1, <1>3, <2>1, <2>3 DEF Frame
  <2>5. Job' = Job
    BY <1>1, <2>4 DEF Job
  <2> QED BY <1>1, <1>5, <2>2, <2>4, <2>5 DEF RunInv
<1>6. CASE ~Equal(out)
  <2> DEFINE code == TEST_FAILURE
  <2>1. run' = [run EXCEPT !.held = holds, !.result = code] /\ pc' = "verdict"
    BY <1>2, <1>6, Zenon DEF Goto
  <2>2. holds # Yes
    BY <1>4, <1>6, ReferenceEqual, Zenon
  <2>3. code \in Codes
    BY DEF TEST_FAILURE, Codes
  <2> HIDE DEF holds, code
  <2>4. run' \in Frame /\ run'.job = run.job /\ run'.held = holds /\ run'.result = code
    BY <1>1, <1>3, <2>1, <2>3 DEF Frame
  <2>5. Job' = Job
    BY <1>1, <2>4 DEF Job
  <2> QED BY <1>1, <2>1, <2>2, <2>4, <2>5 DEF RunInv, code
<1> QED BY <1>2, <1>5, <1>6

LEMMA TestRun ==
  ASSUME RunInv, RamInv, BeginTest \/ EndOfTest \/ Verdict
  PROVE  RunInv'
<1>1. run \in Frame /\ program' = program
  BY DEF RunInv, BeginTest, EndOfTest, Verdict, machine
<1>2. CASE BeginTest
  <2>1. Job.ends \in Kinds
    BY <1>2, HarnessAssumption DEF BeginTest, Job, RamInv, Kinds
  <2>2. run' = run /\ pc' = "test" /\ run.held = Yes
    BY <1>2 DEF BeginTest, Goto, At, RunInv
  <2>3. Job' = Job
    BY <1>1, <2>2 DEF Job
  <2> QED BY <1>1, <2>1, <2>2, <2>3 DEF RunInv
<1>3. CASE EndOfTest
  <2>1. PICK code \in Results(Job.ends) : run' = [run EXCEPT !.result = code]
    BY <1>3 DEF EndOfTest
  <2>2. Job.ends \in Kinds /\ run.held = Yes /\ pc' = "verdict"
    BY <1>3 DEF EndOfTest, Goto, At, RunInv
  <2>3. code \in Codes
    <3>1. CASE Job.ends = "success"
      BY <2>1, <3>1 DEF Results, Codes, TEST_SUCCESS
    <3>2. CASE Job.ends = "skipped"
      BY <2>1, <3>2 DEF Results, Codes, TEST_SKIPPED
    <3>3. CASE Job.ends = "nothing"
      BY <2>1, <3>3 DEF Results, Codes, TEST_SUCCESS, TEST_FAILURE, TEST_SKIPPED
    <3> QED BY <2>2, <3>1, <3>2, <3>3 DEF Kinds
  <2>4. run' \in Frame /\ run'.job = run.job /\ run'.held = run.held /\ run'.result = code
    BY <1>1, <2>1, <2>3 DEF Frame
  <2>5. Job' = Job
    BY <1>1, <2>4 DEF Job
  <2> QED BY <2>1, <2>2, <2>4, <2>5 DEF RunInv
<1>4. CASE Verdict
  <2> DEFINE next == run.job + 1
  <2>1. next \in Nat
    BY <1>1 DEF Frame
  <2>2. run' = [Start EXCEPT !.job = next] /\ pc' = "setup_tests"
    BY <1>4 DEF Verdict, Goto
  <2> HIDE DEF next
  <2>3. run' \in Frame /\ run'.held = Yes
    BY <2>1, <2>2, StartFrame
  <2> QED BY <2>2, <2>3 DEF RunInv
<1> QED BY <1>2, <1>3, <1>4

LEMMA BenchRun ==
  ASSUME RunInv, CounterInv, RunBench
  PROVE  RunInv'
<1>1. run \in Frame /\ call.result \in Whole /\ call.first \in Whole
  BY DEF RunInv, CounterInv, CountersType, CallType
<1>2. CASE BeginBench
  <2>1. run' = [run EXCEPT !.length = FirstLength] /\ pc' = "lengths" /\ FirstLength \in Nat
    BY <1>2 DEF BeginBench, Goto, FirstLength
  <2>2. run' \in Frame
    BY <1>1, <2>1 DEF Frame
  <2> QED BY <2>1, <2>2 DEF RunInv
<1>3. CASE MeasureBefore \/ MeasureAfter
  BY <1>1, <1>3 DEF MeasureBefore, MeasureAfter, CallGetCycles, Goto, RunInv
<1>4. CASE GetCycles
  BY <1>1, <1>4 DEF GetCycles, RunInv
<1>5. CASE Before
  <2> DEFINE torn == Torn
  <2>1. torn \in Bool
    <3>1. call.last \in Whole
      BY DEF CounterInv, CountersType, CallType
    <3>2. Low(call.last) \in Int /\ Low(call.first) \in Int
      BY <1>1, <3>1, HalvesOf DEF Whole
    <3> QED BY <3>2 DEF Torn, Bool
  <2>2. run' = [run EXCEPT !.before = call.result, !.first = call.first, !.torn = torn]
    BY <1>5, Zenon DEF Before
  <2> HIDE DEF torn
  <2>3. run' \in Frame
    BY <1>1, <2>1, <2>2 DEF Frame
  <2>4. pc' = "benchmark"
    BY <1>5 DEF Before, Goto
  <2> QED BY <2>3, <2>4 DEF RunInv
<1>6. CASE After
  <2> DEFINE no == FALSE
             length == NextLength(run.length)
             zero == 0
  <2>1. no \in Bool /\ length \in Nat /\ zero \in Whole
    BY <1>1, Ranges DEF Bool, NextLength, Frame, Whole
  <2>2. run' = [run EXCEPT !.length = length, !.before = zero, !.first = zero, !.torn = no]
    BY <1>6, Zenon DEF After
  <2>3. pc' = "lengths"
    BY <1>6 DEF After, Goto
  <2> HIDE DEF no, length, zero
  <2>4. run' \in Frame
    BY <1>1, <2>1, <2>2 DEF Frame
  <2> QED BY <2>3, <2>4 DEF RunInv
<1>7. CASE EndOfBench
  <2> DEFINE next == run.job + 1
  <2>1. next \in Nat
    BY <1>1 DEF Frame
  <2>2. run' = [Start EXCEPT !.job = next] /\ pc' = "setup_tests"
    BY <1>7 DEF EndOfBench, Goto
  <2> HIDE DEF next
  <2>3. run' \in Frame /\ run'.held = Yes
    BY <2>1, <2>2, StartFrame
  <2> QED BY <2>2, <2>3 DEF RunInv
<1> QED BY <1>2, <1>3, <1>4, <1>5, <1>6, <1>7 DEF RunBench

LEMMA OtherRun ==
  ASSUME RunInv, Next, ~(Check \/ BeginTest \/ EndOfTest \/ Verdict \/ RunBench)
  PROVE  RunInv'
<1>1. run \in Frame
  BY DEF RunInv
<1>2. CASE Banner \/ Reset
  <2>1. run' = Start /\ pc' \in {"setup_tests", "clear"}
    BY <1>2 DEF Banner, Reset, Goto
  <2> QED BY <2>1, StartFrame DEF RunInv
<1>3. CASE Summary
  <2> DEFINE code == Outcome(Failed)
  <2>1. code \in Codes
    BY DEF Outcome, TEST_FAILURE, TEST_SUCCESS, Codes
  <2>2. run' = [run EXCEPT !.result = code] /\ pc' = "main_returns"
    BY <1>3 DEF Summary, Goto
  <2> HIDE DEF code
  <2>3. run' \in Frame
    BY <1>1, <2>1, <2>2 DEF Frame
  <2> QED BY <2>2, <2>3 DEF RunInv
<1>4. CASE ClearBss \/ BeginCalls \/ HaltSimulation \/ ReportException \/ HaltAfterException
  BY <1>1, <1>4 DEF ClearBss, BeginCalls, HaltSimulation, ReportException,
                    HaltAfterException, Goto, AfterHalt, RunInv
<1>5. CASE Exit \/ SimulationEnds \/ Calls \/ TimePasses
  <2>1. UNCHANGED <<run, pc, program>>
    BY <1>5 DEF Exit, SimulationEnds, Calls, TimePasses, machine
  <2> QED BY <2>1 DEF RunInv, Job
<1>6. CASE Trap
  <2>1. UNCHANGED <<run, program>> /\ (pc' = pc \/ pc' = "exception")
    BY <1>6 DEF Trap, Goto, machine
  <2> QED BY <2>1 DEF RunInv, Job
<1> QED BY <1>2, <1>3, <1>4, <1>5, <1>6 DEF Next, Runs, RunTest, Ends

LEMMA RunStep ==
  ASSUME RunInv, RamInv, CounterInv, [Next]_harnessVars
  PROVE  RunInv'
<1>1. CASE UNCHANGED harnessVars
  <2>1. UNCHANGED <<run, pc, program>>
    BY <1>1 DEF harnessVars, machine
  <2> QED BY <2>1 DEF RunInv, Job
<1>2. CASE Next
  BY <1>2, CheckRun, TestRun, BenchRun, OtherRun
<1> QED BY <1>1, <1>2

LEMMA RunOfSpec == Spec => []RunInv
<1>1. Init => RunInv
  BY StartFrame DEF Init, RunInv
<1> QED BY <1>1, RunStep, RamOfSpec, CountersOfSpec, PTL DEF Spec

------------------------------------------------------------------------------
(* The summary                                                               *)

Kind(t) == IF t.held = Yes THEN t.ends ELSE "failed"
Of(s, kind) == {i \in DOMAIN s : Kind(s[i]) = kind}
Count(s, kind) == Cardinality(Of(s, kind))

LEMMA CountEmpty == \A kind : Count(<<>>, kind) = 0
<1> SUFFICES ASSUME NEW kind PROVE Count(<<>>, kind) = 0
  OBVIOUS
<1>1. Of(<<>>, kind) = {}
  BY DEF Of
<1> QED BY <1>1, FS_EmptySet DEF Count

LEMMA CountAppend ==
  ASSUME NEW s, NEW e, NEW kind, \E S : s \in Seq(S)
  PROVE  /\ Count(s, kind) \in Nat
         /\ Count(Append(s, e), kind)
              = IF Kind(e) = kind THEN Count(s, kind) + 1 ELSE Count(s, kind)
<1> DEFINE t == Append(s, e)
           n == Len(s)
<1>1. /\ n \in Nat /\ DOMAIN s = 1..n /\ DOMAIN t = 1..(n + 1)
      /\ t[n + 1] = e /\ \A i \in 1..n : t[i] = s[i]
  BY Appended
<1> HIDE DEF t, n
<1>2. IsFiniteSet(Of(s, kind)) /\ n + 1 \notin Of(s, kind)
  <2>1. IsFiniteSet(1..n)
    BY <1>1, FS_Interval
  <2>2. Of(s, kind) \in SUBSET (1..n)
    BY <1>1 DEF Of
  <2>3. n + 1 \notin 1..n
    BY <1>1
  <2> QED BY <2>1, <2>2, <2>3, FS_Subset
<1>3. Of(t, kind) = IF Kind(e) = kind THEN Of(s, kind) \cup {n + 1} ELSE Of(s, kind)
  <2>1. \A i : i \in 1..(n + 1) <=> i \in 1..n \/ i = n + 1
    BY <1>1
  <2> QED BY <1>1, <2>1 DEF Of
<1>4. Cardinality(Of(s, kind) \cup {n + 1}) = Cardinality(Of(s, kind)) + 1
  BY <1>2, FS_AddElement
<1> QED BY <1>2, <1>3, <1>4, FS_CardinalityType DEF Count, t

Tallied ==
  /\ Failed \in Count(truth, "failed")..(Count(truth, "failed") + Count(truth, "nothing"))
  /\ Passed \in Count(truth, "success")..(Count(truth, "success") + Count(truth, "nothing"))
  /\ Passed + Failed <= Len(truth)

(* The two counts stand for the tests that have returned since the start-up *)
(* code has cleared them; what is behind its pointer is zero.               *)
TallyInv ==
  /\ \E S : truth \in Seq(S)
  /\ \A i \in DOMAIN truth : truth[i].held \in Bool /\ truth[i].ends \in Kinds
  /\ pc = "clear" => /\ truth = <<>>
                     /\ \A w \in Words : w * WordSize < ptr => ram[w] = 0
  /\ pc # "clear" => Tallied

LEMMA TalliedAtFirst ==
  ASSUME truth = <<>>, Passed = 0, Failed = 0
  PROVE  Tallied
BY CountEmpty DEF Tallied

LEMMA InitTally == Init => TallyInv
<1> SUFFICES ASSUME Init PROVE TallyInv
  OBVIOUS
<1>1. truth = <<>> /\ <<>> \in Seq({}) /\ ptr = 0
  BY DEF Init
<1>2. \A w \in Words : ~(w * WordSize < 0)
  BY DEF Words, WordSize
<1>3. ASSUME pc # "clear"
      PROVE  Tallied
  <2>1. program.system = "kernel"
    BY <1>3 DEF Init
  <2>2. ram = [w \in Words |-> 0]
    BY <2>1 DEF Init
  <2>3. bss.passed \in Words /\ bss.failed \in Words
    BY Bss DEF Init
  <2> QED BY <1>1, <2>2, <2>3, TalliedAtFirst DEF Passed, Failed
<1> QED BY <1>1, <1>2, <1>3 DEF TallyInv

LEMMA ClearBssTally ==
  ASSUME TallyInv, RamInv, ClearBss
  PROVE  TallyInv'
<1> DEFINE k == ptr \div WordSize
<1>1. /\ program \in Programs /\ ram \in [Words -> Nat] /\ ptr \in Nat /\ pc = "clear"
      /\ truth = <<>> /\ \A w \in Words : w * WordSize < ptr => ram[w] = 0
  BY DEF TallyInv, RamInv, ClearBss, At
<1>2. k \in Nat /\ k * WordSize = ptr
  BY <1>1, WordOfPtr DEF RamInv
<1>3. /\ ram' = [ram EXCEPT ![k] = 0] /\ ptr' = ptr + WordSize
      /\ bss' = bss /\ truth' = truth
      /\ pc' = IF ptr' <= bss.end THEN "clear" ELSE "main"
  BY DEF ClearBss, ClearsMore, Goto, bss
<1> HIDE DEF k
<1>4. ASSUME NEW w \in Words, w * WordSize < ptr'
      PROVE  ram'[w] = 0
  <2>1. w = k \/ w * WordSize < ptr
    BY <1>1, <1>2, <1>3, <1>4, Bss DEF Words, WordSize
  <2> QED BY <1>1, <1>3, <2>1
<1>5. ASSUME pc' # "clear"
      PROVE  Tallied'
  <2>1. ~(ptr' <= bss.end)
    BY <1>3, <1>5
  <2>2. \A w \in {bss.passed, bss.failed} : w \in Words /\ w * WordSize < ptr'
    BY <1>1, <1>3, <2>1, Bss, SMTT(20) DEF WordSize, Words
  <2>3. Passed' = 0 /\ Failed' = 0
    BY <1>3, <1>4, <2>2 DEF Passed, Failed
  <2>4. truth' = <<>>
    BY <1>1, <1>3
  <2> QED BY <1>3, <2>3, <2>4, CountEmpty DEF Tallied
<1> QED BY <1>1, <1>3, <1>4, <1>5 DEF TallyInv

LEMMA VerdictTally ==
  ASSUME TallyInv, RamInv, RunInv, Verdict
  PROVE  TallyInv'
<1> DEFINE held == run.held
           t == [name |-> Job.name, held |-> held, ends |-> Job.ends]
<1>1. /\ Tallied /\ (\E S : truth \in Seq(S)) /\ held \in Bool /\ Job.ends \in Kinds
      /\ held = Yes => run.result \in Results(Job.ends)
      /\ held # Yes => run.result = TEST_FAILURE
  BY DEF TallyInv, RunInv, Frame, Verdict, At
<1>2. truth' = Append(truth, t) /\ pc' = "setup_tests" /\ bss' = bss
  BY Zenon DEF Verdict, Goto, bss
<1> HIDE DEF held
<1>3. Kind(t) = (IF held = Yes THEN Job.ends ELSE "failed") /\ t.held = held /\ t.ends = Job.ends
  BY DEF Kind
<1> HIDE DEF t
<1>4. /\ (\E S : truth' \in Seq(S)) /\ Len(truth') = Len(truth) + 1 /\ Len(truth) \in Nat
      /\ \A i \in DOMAIN truth' : truth'[i].held \in Bool /\ truth'[i].ends \in Kinds
  <2>1. /\ (\E S : truth' \in Seq(S)) /\ Len(truth') = Len(truth) + 1 /\ Len(truth) \in Nat
        /\ DOMAIN truth = 1..Len(truth) /\ DOMAIN truth' = 1..Len(truth')
        /\ truth'[Len(truth')] = t /\ \A i \in DOMAIN truth : truth'[i] = truth[i]
    BY <1>1, <1>2, Appended, ZenonT(30)
  <2>2. \A i \in DOMAIN truth' : i \in DOMAIN truth \/ truth'[i] = t
    BY <2>1
  <2> QED BY <1>1, <1>3, <2>1, <2>2 DEF TallyInv
<1>5. \A kind : /\ Count(truth, kind) \in Nat
                /\ Count(truth', kind)
                     = IF Kind(t) = kind THEN Count(truth, kind) + 1 ELSE Count(truth, kind)
  BY <1>1, <1>2, CountAppend
<1>6. /\ Passed \in Nat /\ Failed \in Nat
      /\ \/ /\ Passed' = Passed + 1 /\ Failed' = Failed
            /\ run.result = TEST_SUCCESS
         \/ /\ Passed' = Passed /\ Failed' = Failed + 1
            /\ run.result # TEST_SUCCESS /\ run.result # TEST_SKIPPED
         \/ /\ Passed' = Passed /\ Failed' = Failed
            /\ run.result = TEST_SKIPPED
  <2>1. ram \in [Words -> Nat] /\ program \in Programs
    BY DEF RamInv
  <2>2. bss.passed \in Words /\ bss.failed \in Words /\ bss.passed # bss.failed
    BY <2>1, Bss
  <2>3. /\ Passed' = ram'[bss.passed] /\ Failed' = ram'[bss.failed]
        /\ Passed = ram[bss.passed] /\ Failed = ram[bss.failed]
    BY <1>2 DEF Passed, Failed
  <2>4. \/ Increment(bss.passed) /\ run.result = TEST_SUCCESS
        \/ /\ Increment(bss.failed)
           /\ run.result # TEST_SUCCESS /\ run.result # TEST_SKIPPED
        \/ ram' = ram /\ run.result = TEST_SKIPPED
    BY VerdictCounts
  <2> QED BY <2>1, <2>2, <2>3, <2>4 DEF Increment
<1>7. \/ Kind(t) = "failed"  /\ run.result = TEST_FAILURE
      \/ Kind(t) = "success" /\ run.result = TEST_SUCCESS
      \/ Kind(t) = "skipped" /\ run.result = TEST_SKIPPED
      \/ Kind(t) = "nothing"
  BY <1>1, <1>3 DEF Kinds, Results
<1>8. Tallied'
  <2> DEFINE f == Count(truth, "failed")
             s == Count(truth, "success")
             u == Count(truth, "nothing")
             f2 == Count(truth', "failed")
             s2 == Count(truth', "success")
             u2 == Count(truth', "nothing")
  <2>1. /\ f \in Nat /\ s \in Nat /\ u \in Nat
        /\ f2 = IF Kind(t) = "failed" THEN f + 1 ELSE f
        /\ s2 = IF Kind(t) = "success" THEN s + 1 ELSE s
        /\ u2 = IF Kind(t) = "nothing" THEN u + 1 ELSE u
    BY <1>5
  <2>2. Failed \in f..(f + u) /\ Passed \in s..(s + u) /\ Passed + Failed <= Len(truth)
    BY <1>1 DEF Tallied
  <2> HIDE DEF f, s, u, f2, s2, u2
  <2>3. /\ Failed' \in f2..(f2 + u2) /\ Passed' \in s2..(s2 + u2)
        /\ Passed' + Failed' <= Len(truth')
    BY <2>1, <2>2, <1>4, <1>6, <1>7 DEF TEST_SUCCESS, TEST_FAILURE, TEST_SKIPPED
  <2> QED BY <2>3 DEF Tallied, f2, s2, u2
<1> QED BY <1>2, <1>4, <1>8 DEF TallyInv

LEMMA SameTally ==
  ASSUME TallyInv, UNCHANGED <<program, ram, ptr, truth>>, pc' = "clear" <=> pc = "clear"
  PROVE  TallyInv'
<1>1. Passed' = Passed /\ Failed' = Failed
  BY DEF Passed, Failed, bss
<1>2. \A kind : Count(truth, kind)' = Count(truth, kind)
  BY DEF Count, Of
<1>3. Tallied => Tallied'
  BY <1>1, <1>2 DEF Tallied
<1> QED BY <1>3 DEF TallyInv

(* All other steps leave the counts and the history alone, or begin anew.   *)
LEMMA OtherTally ==
  ASSUME TallyInv, Next, ~ClearBss, ~Verdict
  PROVE  TallyInv'
<1>1. CASE Reset
  <2>1. truth' = <<>> /\ <<>> \in Seq({}) /\ ptr' = 0 /\ pc' = "clear"
    BY <1>1 DEF Reset
  <2>2. \A w \in Words : ~(w * WordSize < 0)
    BY DEF Words, WordSize
  <2> QED BY <2>1, <2>2 DEF TallyInv
<1>2. CASE ~Reset
  <2>1. UNCHANGED <<program, ram, ptr, truth>> /\ (pc' = "clear" <=> pc = "clear")
    <3>1. CASE Banner \/ Summary \/ BeginCalls \/ Trap \/ Ends
      BY <3>1 DEF Banner, Summary, BeginCalls, Trap, Ends, Exit, HaltSimulation,
                  ReportException, HaltAfterException, SimulationEnds, machine, At, Goto,
                  AfterHalt
    <3>2. CASE BeginTest \/ Check \/ EndOfTest
      BY <3>2 DEF BeginTest, Check, EndOfTest, machine, output, At, Goto
    <3>3. CASE RunBench
      BY <3>3 DEF RunBench, BeginBench, MeasureBefore, GetCycles, Before, MeasureAfter,
                  After, EndOfBench, CallGetCycles, machine, At, Goto
    <3>4. CASE Calls \/ TimePasses
      BY <3>4 DEF Calls, TimePasses, machine
    <3> QED BY <1>2, <3>1, <3>2, <3>3, <3>4 DEF Next, Runs, RunTest
  <2> QED BY <2>1, SameTally
<1> QED BY <1>1, <1>2

LEMMA TallyOfSpec == Spec => []TallyInv
<1>1. ASSUME TallyInv, RamInv, RunInv, [Next]_harnessVars
      PROVE  TallyInv'
  <2>1. CASE UNCHANGED harnessVars
    <3>1. UNCHANGED <<program, ram, ptr, truth, pc>>
      BY <2>1 DEF harnessVars, machine
    <3> QED BY <1>1, <3>1, SameTally
  <2> QED BY <1>1, <2>1, ClearBssTally, VerdictTally, OtherTally
<1> QED BY <1>1, InitTally, RamOfSpec, RunOfSpec, PTL DEF Spec

(* What the summary says is what the counts still hold, and main returns    *)
(* their outcome.                                                           *)
SummaryInv ==
  /\ LastLine("summary") => /\ pc \in {"main_returns", "sleep_loop"}
                            /\ log[Len(log)].passed = Passed
                            /\ log[Len(log)].failed = Failed
  /\ pc = "main_returns" => run.result = Outcome(Failed)

LEMMA SummarySays ==
  ASSUME FlowInv, RunInv, Summary
  PROVE  SummaryInv'
<1> DEFINE said == [line |-> "summary", passed |-> Passed, failed |-> Failed]
           code == Outcome(Failed)
<1>1. /\ log' = Append(log, said) /\ UNCHANGED <<program, ram>> /\ pc' = "main_returns"
      /\ run' = [run EXCEPT !.result = code] /\ run \in Frame
  BY DEF Summary, Say, Goto, machine, RunInv
<1>2. Passed' = Passed /\ Failed' = Failed
  BY <1>1 DEF Passed, Failed, bss
<1>3. said.passed = Passed /\ said.failed = Failed
  OBVIOUS
<1> HIDE DEF said
<1>4. log'[Len(log')] = said
  BY <1>1, Appended DEF FlowInv
<1>5. code' = code
  BY <1>2 DEF Outcome
<1>6. run'.result = code
  BY <1>1 DEF Frame
<1> QED BY <1>1, <1>2, <1>3, <1>4, <1>5, <1>6 DEF SummaryInv

LEMMA SummaryStep ==
  ASSUME SummaryInv, FlowInv, RunInv, [Next]_harnessVars
  PROVE  SummaryInv'
<1>1. CASE UNCHANGED <<log, pc, ram, program, run>>
  BY <1>1 DEF SummaryInv, LastLine, Passed, Failed, bss
<1>2. CASE UNCHANGED harnessVars
  BY <1>1, <1>2 DEF harnessVars, output, machine
<1>3. CASE SimulationEnds \/ Exit
  BY <1>1, <1>3 DEF SimulationEnds, Exit, machine
<1>4. CASE HaltSimulation
  <2>1. UNCHANGED <<log, ram, program>> /\ pc' = "sleep_loop" /\ pc = "main_returns"
    BY <1>4 DEF HaltSimulation, machine, At, Goto
  <2> QED BY <2>1 DEF SummaryInv, LastLine, Passed, Failed, bss
<1>5. ASSUME ~LastLine("summary"), log' = log, pc' # "main_returns"
      PROVE  SummaryInv'
  BY <1>5 DEF SummaryInv, LastLine
<1>6. CASE Next /\ Running /\ ~(Exit \/ HaltSimulation)
  <2>1. CASE Quiet
    BY <2>1, <1>5 DEF Quiet, Inner, SummaryInv
  <2>2. ASSUME NEW line, NEW p, Prints(line, p), line # "summary", p # "main_returns"
        PROVE  SummaryInv'
    <3>1. LastLine(line)' /\ pc' = p
      BY <2>2, PrintedLast DEF Prints
    <3> QED BY <2>2, <3>1 DEF SummaryInv, LastLine
  <2>3. CASE HaltAfterException \/ Trap
    BY <2>3, <1>5 DEF HaltAfterException, Trap, At, Goto, AfterHalt, SummaryInv
  <2>4. CASE Reset
    <3>1. log' = <<>> /\ pc' = "clear"
      BY <2>4 DEF Reset
    <3> QED BY <3>1 DEF SummaryInv, LastLine
  <2>5. CASE Summary
    BY <2>5, SummarySays
  <2> QED BY <1>6, <2>1, <2>2, <2>3, <2>4, <2>5, FlowOfNext DEF Inner
<1> QED BY <1>2, <1>3, <1>4, <1>6, RunsGoing

LEMMA SummaryOfSpec == Spec => []SummaryInv
<1>1. Init => SummaryInv
  BY DEF Init, SummaryInv, LastLine
<1> QED BY <1>1, SummaryStep, FlowOfSpec, RunOfSpec, PTL DEF Spec

LEMMA NoneFailed ==
  ASSUME TallyInv, NEW n \in Nat, Count(truth, "failed") <= n
  PROVE  n = 0 => \A i \in DOMAIN truth : truth[i].held
<1> SUFFICES ASSUME n = 0, NEW i \in DOMAIN truth PROVE truth[i].held
  OBVIOUS
<1>1. PICK S : truth \in Seq(S)
  BY DEF TallyInv
<1>2. DOMAIN truth = 1..Len(truth) /\ Len(truth) \in Nat
  BY <1>1
<1>3. IsFiniteSet(Of(truth, "failed"))
  <2>1. IsFiniteSet(1..Len(truth))
    BY <1>2, FS_Interval
  <2>2. Of(truth, "failed") \in SUBSET (1..Len(truth))
    BY <1>2 DEF Of
  <2> QED BY <2>1, <2>2, FS_Subset
<1>4. Of(truth, "failed") = {}
  BY <1>3, FS_EmptySet, FS_CardinalityType DEF Count
<1>5. truth[i].held = Yes
  BY <1>4 DEF Of, Kind
<1> QED BY <1>5, Zenon DEF Yes

(* The end of a run tells how its tests came out: the last line of every    *)
(* finished run is the summary or the report of the exception, and a        *)
(* process exits with 0 only if all checks of all tests held, whatever the  *)
(* tests and however many.                                                  *)
THEOREM EndTells == Spec => []EndTellsOutcome
<1>1. FlowInv /\ TallyInv /\ RamInv /\ SummaryInv => EndTellsOutcome
  <2> SUFFICES ASSUME FlowInv, TallyInv, RamInv, SummaryInv PROVE EndTellsOutcome
    OBVIOUS
  <2>1. sim \in {"stopped", "exited"} =>
          log # <<>> /\ log[Len(log)].line \in {"summary", "Exception!"}
    BY DEF FlowInv, LastLine
  <2>2. ASSUME sim = "exited", status = TEST_SUCCESS
        PROVE  \A i \in DOMAIN truth : truth[i].held
    <3>1. pc = "main_returns" /\ status = run.result /\ run.result = Outcome(Failed)
      BY <2>2 DEF FlowInv, SummaryInv
    <3>2. Failed \in Nat
      BY Bss DEF RamInv, Failed
    <3>3. Failed = 0
      BY <2>2, <3>1, <3>2 DEF Outcome, TEST_SUCCESS, TEST_FAILURE
    <3>4. (\E S : truth \in Seq(S)) /\ Tallied
      BY <3>1 DEF TallyInv
    <3>5. Count(truth, "failed") <= Failed
      BY <3>4, <3>2, CountAppend DEF Tallied
    <3> QED BY <3>2, <3>3, <3>5, NoneFailed
  <2> QED BY <2>1, <2>2 DEF EndTellsOutcome
<1> QED BY <1>1, FlowOfSpec, TallyOfSpec, RamOfSpec, SummaryOfSpec, PTL

(* The summary is true of this run: whatever the RAM held at power-on and   *)
(* however often the core was reset, for any list of tests, it counts a     *)
(* test as failed or as passed as its checks came out; only the test that   *)
(* returns nothing may be counted as anything.                              *)
THEOREM SummaryIsTrue == Spec => []SummaryTrue
<1>1. TallyInv /\ SummaryInv => SummaryTrue
  <2> SUFFICES ASSUME TallyInv, SummaryInv, LastLine("summary")
               PROVE  SummaryTrue
    BY DEF SummaryTrue, LastLine
  <2> DEFINE last == log[Len(log)]
             failing == {i \in DOMAIN truth : ~truth[i].held}
             passing == {i \in DOMAIN truth : truth[i].held /\ truth[i].ends = "success"}
             unsure  == {i \in DOMAIN truth : truth[i].held /\ truth[i].ends = "nothing"}
  <2>1. last.passed = Passed /\ last.failed = Failed /\ Tallied
    BY DEF SummaryInv, TallyInv
  <2>2. /\ \A i \in DOMAIN truth : truth[i].held \in Bool /\ truth[i].ends \in Kinds
        /\ \A i \in DOMAIN truth : truth[i].ends # "failed"
    BY DEF TallyInv, Kinds
  <2>3. /\ \A i \in DOMAIN truth : Kind(truth[i]) = "failed" <=> ~truth[i].held
        /\ \A i \in DOMAIN truth : Kind(truth[i]) = "success"
                                     <=> truth[i].held /\ truth[i].ends = "success"
        /\ \A i \in DOMAIN truth : Kind(truth[i]) = "nothing"
                                     <=> truth[i].held /\ truth[i].ends = "nothing"
    <3>1. "success" # "failed" /\ "nothing" # "failed"
      OBVIOUS
    <3> QED BY <2>2, <3>1, Zenon DEF Kind, Yes, Bool
  <2>4. /\ Of(truth, "failed") = failing /\ Of(truth, "success") = passing
        /\ Of(truth, "nothing") = unsure
    BY <2>3, Zenon DEF Of
  <2>5. /\ Cardinality(failing) = Count(truth, "failed")
        /\ Cardinality(passing) = Count(truth, "success")
        /\ Cardinality(unsure) = Count(truth, "nothing")
    BY <2>4 DEF Count
  <2>6. /\ last.failed \in Cardinality(failing)..(Cardinality(failing) + Cardinality(unsure))
        /\ last.passed \in Cardinality(passing)..(Cardinality(passing) + Cardinality(unsure))
        /\ last.passed + last.failed <= Len(truth)
    <3> HIDE DEF failing, passing, unsure, last
    <3> QED BY <2>1, <2>5 DEF Tallied
  <2> QED BY <2>6, Zenon DEF SummaryTrue
<1> QED BY <1>1, TallyOfSpec, SummaryOfSpec, PTL

(* Every variable keeps its type.                                           *)
THEOREM HarnessTypes == Spec => []TypeOK
<1> DEFINE Rest == /\ resets \in 0..MaxResets
                   /\ sim \in {"running", "halting", "stopped", "exited", "killed"}
                   /\ status \in {TEST_SUCCESS, TEST_FAILURE}
<1>1. Init => Rest
  BY HarnessAssumption DEF Init, TEST_SUCCESS
<1>2. ASSUME Rest, SummaryInv, [Next]_harnessVars
      PROVE  Rest'
  <2>1. CASE Exit
    <3>1. status' = Outcome(Failed)
      BY <1>2, <2>1 DEF Exit, At, SummaryInv
    <3> QED BY <1>2, <2>1, <3>1 DEF Exit, machine, Outcome
  <2>2. CASE Reset
    BY <1>2, <2>2, HarnessAssumption DEF Reset
  <2>3. CASE HaltSimulation \/ Trap \/ HaltAfterException \/ SimulationEnds
    BY <1>2, <2>3 DEF HaltSimulation, Trap, HaltAfterException, SimulationEnds, machine
  <2>4. UNCHANGED <<resets, sim, status>> => Rest'
    BY <1>2
  <2>5. CASE UNCHANGED harnessVars
    BY <2>4, <2>5 DEF harnessVars, machine, output
  <2>6. CASE ClearBss \/ Banner \/ RunTest \/ Summary \/ BeginCalls \/ Calls \/ TimePasses
    BY <2>4, <2>6 DEF ClearBss, Banner, RunTest, BeginTest, Check, EndOfTest, Verdict, Summary,
                      BeginCalls, Calls, TimePasses, machine, output
  <2>7. CASE RunBench \/ ReportException
    BY <2>4, <2>7 DEF RunBench, BeginBench, MeasureBefore, GetCycles, Before, MeasureAfter,
                      After, EndOfBench, CallGetCycles, ReportException, machine, output
  <2> QED BY <1>2, <2>1, <2>2, <2>3, <2>5, <2>6, <2>7 DEF Next, Runs, Ends
<1>3. Rest /\ RamInv /\ RunInv /\ CounterInv => TypeOK
  BY Frames, CounterTypes DEF TypeOK, RamInv, RunInv
<1> HIDE DEF Rest
<1> QED BY <1>1, <1>2, <1>3, SummaryOfSpec, RamOfSpec, RunOfSpec, CountersOfSpec, PTL DEF Spec

------------------------------------------------------------------------------
(* The benchmarks                                                            *)

Measuring == {"lengths", "before", "benchmark", "after"}

(* testing_run_bench has a benchmark in hand and a length within the random *)
(* bytes; what it keeps as "before" is what the first get_cycles returned.  *)
BenchInv ==
  /\ pc \in Measuring => run.job \in DOMAIN program.jobs /\ Job.kind = "bench"
  /\ pc \in Measuring \ {"lengths"} => run.length <= RandomSize
  /\ pc \in {"benchmark", "after"} =>
       run.first \in Whole /\ run.before = Sum(run.first, Tears(run.torn))

LEMMA InitReads == Init => ReadsInv
  BY IdleCounters DEF Init, ReadsInv

LEMMA ReadsOfSpec == Spec => []ReadsInv
<1>1. CounterInv /\ ReadsInv /\ [Next]_harnessVars => ReadsInv'
  BY CountersOfNext, ReadsKept DEF harnessVars, counting
<1> QED BY <1>1, InitReads, CountersOfSpec, PTL DEF Spec

LEMMA BeforeBench ==
  ASSUME RunInv, BenchInv, CounterInv, ReadsInv, Before
  PROVE  BenchInv'
<1> DEFINE torn == Torn
           old == run
           new == run'
<1>1. /\ pc = "before" /\ pc' = "benchmark" /\ program' = program
      /\ call.result = Sum(call.first, Tears(Torn)) /\ call.first \in Whole
  BY DEF Before, At, Goto, machine, GotCycles, ReadsInv, CounterInv, CountersType, CallType
<1>2. call.result = Sum(call.first, Tears(torn))
  BY <1>1
<1>3. new = [old EXCEPT !.before = call.result, !.first = call.first, !.torn = torn]
  BY Zenon DEF Before
<1>4. old \in Frame
  BY DEF RunInv
<1> HIDE DEF torn, old, new
<1>5. /\ new.job = old.job /\ new.length = old.length
      /\ new.before = call.result /\ new.first = call.first /\ new.torn = torn
  BY <1>3, <1>4, Zenon DEF Frame
<1>6. new.before = Sum(new.first, Tears(new.torn))
  BY <1>2, <1>5, Zenon
<1>7. run'.job = run.job /\ run'.length = run.length /\ run'.first \in Whole
      /\ run'.before = Sum(run'.first, Tears(run'.torn))
  BY <1>1, <1>5, <1>6 DEF old, new
<1>8. /\ run.job \in DOMAIN program.jobs /\ Job.kind = "bench" /\ run.length <= RandomSize
  BY <1>1 DEF BenchInv, Measuring
<1>9. Job' = Job
  BY <1>1, <1>7 DEF Job
<1>10. BenchInv' = (/\ run'.job \in DOMAIN program'.jobs /\ Job'.kind = "bench"
                    /\ run'.length <= RandomSize
                    /\ run'.first \in Whole /\ run'.before = Sum(run'.first, Tears(run'.torn)))
  BY <1>1 DEF BenchInv, Measuring
<1> QED BY <1>1, <1>7, <1>8, <1>9, <1>10

LEMMA BenchStep ==
  ASSUME RunInv, BenchInv, CounterInv, ReadsInv, [Next]_harnessVars
  PROVE  BenchInv'
<1>1. run \in Frame
  BY DEF RunInv
<1>2. CASE UNCHANGED <<pc, run, program>>
  BY <1>2 DEF BenchInv, Job
<1>3. CASE pc' \notin Measuring
  BY <1>3 DEF BenchInv, Measuring
<1>4. CASE BeginBench \/ After
  <2>1. /\ pc' = "lengths" /\ program' = program
        /\ run.job \in DOMAIN program.jobs /\ Job.kind = "bench"
    BY <1>4 DEF BeginBench, After, At, Goto, machine, BenchInv, Measuring
  <2>2. run'.job = run.job
    BY <1>1, <1>4 DEF BeginBench, After, Frame
  <2>3. Job' = Job
    BY <2>1, <2>2 DEF Job
  <2> QED BY <2>1, <2>2, <2>3 DEF BenchInv
<1>5. CASE MeasureBefore
  <2>1. /\ pc = "lengths" /\ pc' = "before" /\ UNCHANGED <<run, program>>
        /\ run.length <= RandomSize
    BY <1>5 DEF MeasureBefore, MeasuresMore, RandomSize, CallGetCycles, At, Goto, machine
  <2>2. Job' = Job
    BY <2>1 DEF Job
  <2> QED BY <2>1, <2>2 DEF BenchInv, Measuring
<1>6. CASE MeasureAfter
  <2>1. pc = "benchmark" /\ pc' = "after" /\ UNCHANGED <<run, program>>
    BY <1>6 DEF MeasureAfter, CallGetCycles, At, Goto, machine
  <2>2. Job' = Job
    BY <2>1 DEF Job
  <2> QED BY <2>1, <2>2 DEF BenchInv, Measuring
<1>7. CASE Before
  BY <1>7, BeforeBench
<1>8. CASE GetCycles \/ Calls \/ TimePasses \/ Exit \/ SimulationEnds
  BY <1>2, <1>8 DEF GetCycles, Calls, TimePasses, Exit, SimulationEnds, machine
<1>9. CASE EndOfBench \/ ClearBss \/ Banner \/ Summary \/ BeginCalls
  BY <1>3, <1>9 DEF EndOfBench, ClearBss, Banner, Summary, BeginCalls, Goto, Measuring
<1>10. CASE Check
  <2>1. pc = "test" /\ (pc' = pc \/ pc' = "verdict")
    BY <1>10 DEF Check, At, Goto
  <2> QED BY <1>3, <2>1 DEF Measuring
<1>11. CASE BeginTest \/ EndOfTest \/ Verdict \/ HaltSimulation \/ ReportException
            \/ HaltAfterException \/ Reset
  BY <1>3, <1>11 DEF BeginTest, EndOfTest, Verdict, HaltSimulation, ReportException,
                     HaltAfterException, AfterHalt, Reset, Goto, Measuring
<1>12. CASE Trap
  BY <1>2, <1>3, <1>12 DEF Trap, Goto, machine, Measuring
<1>13. CASE UNCHANGED harnessVars
  BY <1>2, <1>13 DEF harnessVars, machine
<1> QED BY <1>4, <1>5, <1>6, <1>7, <1>8, <1>9, <1>10, <1>11, <1>12, <1>13
        DEF Next, Runs, RunTest, RunBench, Ends

LEMMA BenchOfSpec == Spec => []BenchInv
<1>1. Init => BenchInv
  BY DEF Init, BenchInv, Measuring
<1> QED BY <1>1, BenchStep, RunOfSpec, CountersOfSpec, ReadsOfSpec, PTL DEF Spec

(* Whatever benchmarks an executable lists, none reads beyond the random    *)
(* bytes at any of the lengths testing_run_bench tries.                     *)
THEOREM BenchmarksReadInside == Spec => []BenchReadsInside
<1>1. RamInv /\ RunInv /\ BenchInv => BenchReadsInside
  <2> SUFFICES ASSUME RamInv, RunInv, BenchInv, pc \in {"before", "benchmark", "after"},
                      NEW r \in Job.reads
               PROVE  r.from + (IF r.bytes = "msg_len" THEN run.length ELSE r.size) <= RandomSize
    BY DEF BenchReadsInside
  <2>1. /\ run.job \in DOMAIN program.jobs /\ Job.kind = "bench" /\ run.length <= RandomSize
        /\ run.length \in Nat /\ program \in Programs
    BY DEF BenchInv, Measuring, RunInv, RamInv, Frame
  <2>2. IF r.bytes = "msg_len" THEN r.from = 0 ELSE r.from + r.size <= RandomSize
    BY <2>1, BenchAssumption, Zenon DEF Job
  <2>3. CASE r.bytes = "msg_len"
    BY <2>1, <2>2, <2>3
  <2>4. CASE r.bytes # "msg_len"
    BY <2>2, <2>4
  <2> QED BY <2>3, <2>4
<1> QED BY <1>1, RamOfSpec, RunOfSpec, BenchOfSpec, PTL

(* The difference of two readings, each R too large when it was torn. *)
LEMMA TornDifference ==
  ASSUME NEW f \in Whole, NEW g \in Whole, NEW s \in {0, R}, NEW t \in {0, R}
  PROVE  (Sum(f, s) - Sum(g, t)) % (R * R) = (((f - g) % (R * R)) + s - t) % (R * R)
<1> DEFINE S == R * R
           a == (f + s) \div S
           b == (g + t) \div S
           c == (f - g) \div S
           u == (f + s) % S
           v == (g + t) % S
           w == (f - g) % S
<1>1. S \in Nat \ {0} /\ f \in Int /\ g \in Int /\ s \in Int /\ t \in Int
  BY Ranges, SMT DEF Whole
<1> HIDE DEF S
<1>2. /\ a \in Int /\ b \in Int /\ c \in Int /\ u \in Int /\ v \in Int /\ w \in Int
      /\ f + s = S * a + u /\ g + t = S * b + v /\ f - g = S * c + w
  BY <1>1, SMT
<1> DEFINE x == u - v
           y == w + s - t
           k == b - a + c
<1>3. x \in Int /\ y \in Int /\ k \in Int /\ x = y + k * S
  <2> HIDE DEF a, b, c, u, v, w
  <2> QED BY <1>1, <1>2, SMT
<1> HIDE DEF x, y, k
<1>4. x % S = y % S
  BY <1>1, <1>3, SameModulo
<1> QED BY <1>4 DEF x, y, u, v, w, S, Sum

(* The cycles that testing_run_bench divides by the length are those that   *)
(* passed between the two get_cycles, and R more or less only for a reading *)
(* during which the low half overflowed, for halves of any width.           *)
THEOREM MeasuresTrue == Spec => []MeasuredTrue
<1>1. RunInv /\ BenchInv /\ CounterInv /\ ReadsInv => MeasuredTrue
  <2> SUFFICES ASSUME RunInv, BenchInv, CounterInv, ReadsInv, At("after"), GotCycles
               PROVE  LET passed == (call.first - run.first) % (R * R)
                          tears(torn) == IF torn THEN R ELSE 0
                      IN  Difference(call.result, run.before)
                            = (passed + tears(Torn) - tears(run.torn)) % (R * R)
    BY Zenon DEF MeasuredTrue
  <2>1. call.result = Sum(call.first, Tears(Torn)) /\ call.first \in Whole
    BY DEF GotCycles, ReadsInv, CounterInv, CountersType, CallType
  <2>2. run.before = Sum(run.first, Tears(run.torn)) /\ run.first \in Whole
    BY DEF At, BenchInv
  <2>3. \A torn : Tears(torn) \in {0, R}
    BY DEF Tears
  <2>4. Difference(call.result, run.before)
          = (((call.first - run.first) % (R * R)) + Tears(Torn) - Tears(run.torn)) % (R * R)
    <3> DEFINE s == Tears(Torn)
               t == Tears(run.torn)
               f == call.first
               g == run.first
    <3>1. s \in {0, R} /\ t \in {0, R} /\ f \in Whole /\ g \in Whole
      BY <2>1, <2>2, <2>3
    <3>2. Difference(call.result, run.before) = (Sum(f, s) - Sum(g, t)) % (R * R)
      BY <2>1, <2>2, Zenon DEF Difference
    <3> HIDE DEF s, t, f, g
    <3>3. (Sum(f, s) - Sum(g, t)) % (R * R) = (((f - g) % (R * R)) + s - t) % (R * R)
      BY <3>1, TornDifference
    <3>4. Difference(call.result, run.before) = (((f - g) % (R * R)) + s - t) % (R * R)
      BY <3>2, <3>3, Zenon
    <3> QED BY <3>4 DEF s, t, f, g
  <2> QED BY <2>4, Zenon DEF Tears
<1> QED BY <1>1, RunOfSpec, BenchOfSpec, CountersOfSpec, ReadsOfSpec, PTL

==============================================================================
